---------------------------- MODULE Drivers_proofs ---------------------------
(* The driver of the floppy drive knows where the heads are, is woken up by   *)
(* what it waits for, and leaves nothing behind in its cache, for disks of    *)
(* every size and all requests, whatever the delays and whenever the user     *)
(* moves the write protection tab: until its timer, left counting by a delay  *)
(* that a message has ended early, runs out while no delay waits for it.  A   *)
(* task that no other notification wakes sleeps until its timer has run out,  *)
(* every handler that finds its timer's flag finds a task to notify, and no   *)
(* flag a server waits for is lost when another server reads the chip, for    *)
(* any tasks: until a timer runs out that no task sleeps for.  An input       *)
(* device behind its files is set up for as long as it is used, and its       *)
(* listeners overlook no event, for any tasks and sizes: until an open or a   *)
(* close comes in the way of the last close.                                  *)
EXTENDS Floppy, Cia, Devices, FiniteSetTheorems, SequenceTheorems, WellFoundedInduction, TLAPS

(* Arithmetic                                                                 *)

LEMMA Ordered ==
  ASSUME NEW a \in Nat, NEW b \in Nat, NEW n \in Nat, a <= b
  PROVE  a * n <= b * n
<1>1. PICK k \in Nat : b = a + k
  <2>1. b - a \in Nat /\ b = a + (b - a)
    OBVIOUS
  <2> QED BY <2>1
<1>2. b * n = a * n + k * n /\ a * n \in Nat /\ k * n \in Nat
  BY <1>1
<1> QED BY <1>2

LEMMA OneMore ==
  ASSUME NEW x \in Nat, NEW n \in Nat
  PROVE  (x + 1) * n = x * n + n /\ x * n \in Nat
  OBVIOUS

LEMMA Division ==
  ASSUME NEW p \in Nat, NEW n \in Nat \ {0}
  PROVE  \E q \in Nat, r \in 0 .. n - 1 :
           q = p \div n /\ r = p % n /\ p = q * n + r
  OBVIOUS

LEMMA Quotient ==
  ASSUME NEW d \in Nat, NEW u \in Nat, NEW n \in Nat \ {0},
         NEW e \in 0 .. n - 1, NEW w \in 0 .. n - 1, d * n + e = u * n + w
  PROVE  ~ (d < u)
<1> SUFFICES ASSUME d + 1 <= u PROVE FALSE
  OBVIOUS
<1>1. d + 1 \in Nat /\ n \in Nat
  OBVIOUS
<1>2. (d + 1) * n <= u * n
  BY <1>1, Ordered, Zenon
<1>3. (d + 1) * n = d * n + n /\ d * n \in Nat /\ u * n \in Nat
  OBVIOUS
<1> QED BY <1>2, <1>3

LEMMA DivisionUnique ==
  ASSUME NEW p \in Nat, NEW n \in Nat \ {0}, NEW u \in Nat,
         NEW w \in 0 .. n - 1, p = u * n + w
  PROVE  p \div n = u
<1>1. PICK d \in Nat, e \in 0 .. n - 1 : d = p \div n /\ p = d * n + e
  BY Division, Zenon
<1>2. d * n + e = u * n + w
  BY <1>1
<1>3. ~ (d < u) /\ ~ (u < d)
  BY <1>2, Quotient
<1> QED BY <1>1, <1>3

(* The place a request begins at, in tracks, sectors and bytes                *)
LEMMA Split ==
  ASSUME NEW p \in Nat, NEW a \in Nat \ {0}, NEW b \in Nat \ {0}
  PROVE  ((p \div (a * b)) * a + ((p \div b) % a)) * b + (p % b) = p
<1>1. PICK q \in Nat, r \in 0 .. b - 1 :
        q = p \div b /\ r = p % b /\ p = q * b + r
  BY Division, Zenon
<1>2. PICK u \in Nat, v \in 0 .. a - 1 :
        u = q \div a /\ v = q % a /\ q = u * a + v
  BY Division, Zenon
<1>3. /\ q * b = u * (a * b) + v * b
      /\ v * b \in Nat /\ a * b \in Nat \ {0} /\ u * (a * b) \in Nat
  BY <1>2
<1>4. v * b + r \in 0 .. a * b - 1
  <2>1. a - 1 \in Nat /\ b \in Nat /\ v \in Nat /\ v <= a - 1
    OBVIOUS
  <2>2. v * b <= (a - 1) * b
    BY <2>1, Ordered, Zenon
  <2>3. (a - 1) * b = a * b - b
    OBVIOUS
  <2> QED BY <1>3, <2>2, <2>3
<1>5. p = u * (a * b) + (v * b + r)
  BY <1>1, <1>3
<1>6. p \div (a * b) = u
  BY <1>3, <1>4, <1>5, DivisionUnique
<1>7. p \div (a * b) = u /\ (p \div b) % a = v /\ p % b = r
  BY <1>1, <1>2, <1>6, Zenon
<1>8. (u * a + v) * b + r = p
  BY <1>1, <1>2, Zenon
<1> QED BY <1>7, <1>8, Zenon

----------------------------------------------------------------------------
USE FloppyAssumption DEF Locals, Device, Heads

LEMMA Sizes ==
  /\ NTRACKS \in Nat \ {0}
  /\ NSECTORS \in Nat \ {0} /\ SECTOR_SIZE \in Nat \ {0}
  /\ TRACK_SIZE \in Nat \ {0} /\ FLOPPY_SIZE \in Nat \ {0}
  BY DEF Cylinders, TRACK_SIZE, FLOPPY_SIZE

LEMMA WithinDisk ==
  ASSUME NEW t \in Nat, NEW s \in Nat, NEW o \in Nat, NEW n \in Nat \ {0},
         (t * NSECTORS + s) * SECTOR_SIZE + o + n <= FLOPPY_SIZE
  PROVE  t \in Track
<1> SUFFICES ASSUME NTRACKS <= t PROVE FALSE
  BY Sizes DEF Track
<1>1. NTRACKS * NSECTORS <= t * NSECTORS + s
  <2>1. NTRACKS * NSECTORS <= t * NSECTORS
    BY Sizes, Ordered
  <2> QED BY <2>1, Sizes
<1>2. (NTRACKS * NSECTORS) * SECTOR_SIZE <= (t * NSECTORS + s) * SECTOR_SIZE
  <2>1. NTRACKS * NSECTORS \in Nat /\ t * NSECTORS + s \in Nat
    BY Sizes
  <2> QED BY <1>1, <2>1, Sizes, Ordered
<1>3. FLOPPY_SIZE = (NTRACKS * NSECTORS) * SECTOR_SIZE
  BY Sizes DEF FLOPPY_SIZE, TRACK_SIZE
<1>4. (t * NSECTORS + s) * SECTOR_SIZE \in Nat
  BY Sizes
<1> QED BY <1>2, <1>3, <1>4, Sizes

----------------------------------------------------------------------------

(* A track is on its way between the disk and the buffer                      *)
Busy == Moving \/ io.pc \in {"settle", "transfer", "written"}

(* A request is being worked on                                               *)
Serving == Busy \/ io.pc = "serve"

(* Each wait is for one thing, which has happened or is going to.  Only while *)
(* the heads are brought to track 0 may a delay have been cut short, and its  *)
(* timer then counts on until the first track is read                         *)
WaitInv ==
  /\ io.pc \in Delays => timer = ~ irq
  /\ io.pc \in {"start", "idle", "serve"} => ~ irq
  /\ timer /\ io.pc \notin Delays => io.pc \in {"idle", "serve"} /\ port # None
  /\ timer /\ io.pc \notin Delays => fd.track = -1
  /\ timer /\ io.pc = "serve" => req[io.client].left > 0
  /\ Homing => fd.track = -1
  /\ cut => io.pc \in HomeDelays /\ port # None
  /\ io.pc = "transfer" => dma \in {io.cmd, "done"} /\ irq = (dma = "done")
  /\ io.pc = "written" => dma = "done" /\ io.cmd = WRITE
  /\ io.pc \notin {"transfer", "written"} => dma = "off"

Pos == (io.track * NSECTORS + io.sector) * SECTOR_SIZE + io.offset

(* What is left of a request lies on the disk, from where the task has got to *)
RequestInv ==
  /\ Serving => io.client \in Clients /\ req[io.client] # None
  /\ Serving /\ req[io.client].left > 0 =>
       Pos + req[io.client].left <= FLOPPY_SIZE
  /\ \A c \in Clients : req[c] # None /\ ~ (Serving /\ c = io.client) =>
       req[c].left > 0 /\ req[c].offset + req[c].left <= FLOPPY_SIZE
  /\ io.needWrite => Serving
  /\ Serving /\ (io.needWrite \/ io.sector = NSECTORS) => io.track = fd.track
  /\ Busy => io.track \in Track
  /\ port # None => req[port] # None

(* headTrk counts what the heads do, the heads stand on the right side of the *)
(* disk while they move, and each step brings them nearer to their track      *)
HeadInv ==
  /\ io.pc = "home" => drive.cylinder = 0
  /\ ~ Homing => Stepped("stepped").headTrk = Under
  /\ Busy => fd.motorOn
  /\ Busy /\ ~ Moving => Under = io.track
  /\ Moving =>
       /\ drive.side = io.track % 2
       /\ fd.headDir = IF drive.inwards THEN 2 ELSE -2
       /\ IF drive.inwards THEN Under <= io.track ELSE Under >= io.track

(* Only sectors of the track in the cache are dirty, and they will be         *)
(* written; the others are what the disk has there                            *)
CacheInv == ~ refused =>
  /\ \A s \in Sector : "DIRTY" \in state[s] =>
       "DECODED" \in state[s] /\ io.needWrite /\ ~ Busy
  /\ \A s \in Sector : "DECODED" \in state[s] /\ "DIRTY" \notin state[s]
       /\ ~ (Busy /\ io.cmd = READ) => raw[s] = buffer[s]
  /\ ~ Busy /\ fd.track # -1 => buffer = disk[fd.track]
  /\ Busy /\ io.cmd = WRITE => io.track = fd.track
  /\ Busy /\ dma = "done" => buffer = disk[io.track]

(* What holds of the task whatever ends its waits                             *)
Core == TypeOK /\ RequestInv

(* What holds until the timer runs out while no delay waits for it            *)
IInv == Core /\ WaitInv /\ HeadInv /\ CacheInv

LEMMA Halves ==
  ASSUME NEW p \in Nat
  PROVE  p % 2 \in 0 .. 1 /\ \E q \in Nat : p = q * 2 + (p % 2)
  OBVIOUS

(* The timer is set, and a wait for it is to follow                           *)
LEMMA Sets ==
  ASSUME TypeOK, NEW was \in BOOLEAN, WaitTimerSleep(was)
  PROVE  /\ timer' = TRUE /\ irq' \in BOOLEAN /\ missed' \in BOOLEAN
         /\ ~ missed' => ~ missed /\ irq' = was
  BY DEF WaitTimerSleep, TypeOK

LEMMA Delayed ==
  ASSUME TypeOK, NextDelay
  PROVE  /\ irq \/ cut
         /\ timer' = TRUE /\ irq' \in BOOLEAN /\ missed' \in BOOLEAN /\ cut' = FALSE
         /\ ~ missed' => ~ missed /\ irq' = FALSE
<1>1. WaitEnds /\ WaitTimerSleep(FALSE)
  BY DEF NextDelay
<1> QED BY <1>1, Sets DEF WaitEnds

LEMMA UnderTrack ==
  ASSUME drive \in Heads
  PROVE  Under \in Track
  BY DEF Under, Track

(* What MoveTo does to the records                                            *)
LEMMA Turns ==
  ASSUME Core, NEW cmd \in {READ, WRITE}, MoveTo(cmd)
  PROVE  /\ timer' = TRUE /\ irq' \in BOOLEAN /\ missed' \in BOOLEAN
         /\ ~ missed' => ~ missed /\ irq' = irq
         /\ io' = [io EXCEPT !.cmd = cmd, !.pc = io'.pc]
         /\ io'.pc \in {"turned", "settle"}
         /\ fd' \in Device /\ fd'.track = fd.track /\ drive' \in Heads
<1>1. io \in Locals /\ fd \in Device /\ drive \in Heads /\ irq \in BOOLEAN
  BY DEF Core, TypeOK
<1>2. /\ io' = [io EXCEPT !.cmd = cmd, !.pc = io'.pc]
      /\ io'.pc \in {"turned", "settle"}
  BY <1>1 DEF MoveTo
<1>3. WaitTimerSleep(irq)
  BY DEF MoveTo
<1> DEFINE upper == io.track % 2
           moved == (io.track - fd.headTrk) % 2 = 1
           on == [fd EXCEPT !.motorOn = TRUE]
           sided == IF moved THEN ChangeDiskSide(on, upper) ELSE on
           there == io.track = sided.headTrk
           inwards == io.track > sided.headTrk
<1>4. upper \in 0 .. 1
  BY <1>1, Halves
<1>5. /\ fd' = IF there THEN sided ELSE HeadsStepDirection(sided, inwards)
      /\ drive' = [drive EXCEPT !.side = IF moved THEN upper ELSE @,
                     !.inwards = IF there THEN @ ELSE inwards]
  BY DEF MoveTo
<1>6. on \in Device /\ on.track = fd.track
  BY <1>1
<1>7. sided \in Device /\ sided.track = fd.track
  <2> HIDE DEF on, moved, upper
  <2>1. on.headTrk + 1 \in Int /\ on.headTrk - 1 \in Int
    BY <1>6
  <2>2. CASE ~ moved
    BY <1>6, <2>2
  <2>3. CASE moved
    BY <1>6, <2>1, <2>3 DEF ChangeDiskSide
  <2> QED BY <2>2, <2>3
<1>8. fd' \in Device /\ fd'.track = fd.track
  <2> HIDE DEF sided, there, inwards
  <2>1. /\ HeadsStepDirection(sided, inwards) \in Device
        /\ HeadsStepDirection(sided, inwards).track = fd.track
    BY <1>7 DEF HeadsStepDirection
  <2> QED BY <1>5, <1>7, <2>1
<1>9. drive' \in Heads
  <2>1. inwards \in BOOLEAN
    OBVIOUS
  <2> HIDE DEF sided, there, inwards, moved, upper
  <2> QED BY <1>1, <1>4, <1>5, <2>1
<1> QED BY <1>1, <1>2, <1>3, <1>8, <1>9, Sets DEF Core

(* What MoveTo brings about: the side of the track, and unless the heads are  *)
(* there the direction towards it                                             *)
LEMMA Moves ==
  ASSUME IInv, NEW cmd \in {READ, WRITE},
         io.pc = "serve", io.track \in Track, MoveTo(cmd)
  PROVE  /\ io'.pc \in {"turned", "settle"}
         /\ io' = [io EXCEPT !.cmd = cmd, !.pc = io'.pc]
         /\ fd'.motorOn /\ fd'.headTrk = Under'
         /\ drive'.side = io.track % 2
         /\ io'.pc = "settle" => Under' = io.track
         /\ io'.pc = "turned" =>
              /\ fd'.headDir = IF drive'.inwards THEN 2 ELSE -2
              /\ IF drive'.inwards THEN Under' <= io.track
                 ELSE Under' >= io.track
<1>1. /\ fd.headTrk = Under /\ io.track \in Nat
      /\ drive \in Heads
      /\ fd \in Device
  BY DEF IInv, Core, TypeOK, HeadInv, Homing, HomeDelays, Stepped, Track
<1>2. /\ io' = [io EXCEPT !.cmd = cmd, !.pc = io'.pc]
      /\ io'.pc \in {"turned", "settle"}
  BY DEF MoveTo, IInv, Core, TypeOK
<1>3. (io.track - fd.headTrk) % 2 = 1 <=> io.track % 2 # drive.side
  BY <1>1 DEF Under
<1> DEFINE upper == io.track % 2
<1>4. upper \in 0 .. 1 /\ Under \in Int
  BY <1>1, Halves DEF Under
<1> DEFINE on == [fd EXCEPT !.motorOn = TRUE]
           moved == upper # drive.side
           sided == IF moved THEN ChangeDiskSide(on, upper) ELSE on
           there == io.track = sided.headTrk
           inwards == io.track > sided.headTrk
<1>5. /\ fd' = IF there THEN sided ELSE HeadsStepDirection(sided, inwards)
      /\ drive' = [drive EXCEPT !.side = IF moved THEN upper ELSE @,
                     !.inwards = IF there THEN @ ELSE inwards]
      /\ io'.pc = IF there THEN "settle" ELSE "turned"
  BY <1>1, <1>3 DEF MoveTo, IInv, Core, TypeOK
<1>6. /\ on \in Device
      /\ on.motorOn /\ on.track = fd.track /\ on.headTrk = Under
  BY <1>1
<1>7. /\ sided \in Device
      /\ sided.motorOn /\ sided.track = fd.track
      /\ sided.headTrk = 2 * drive.cylinder + upper
  <2> HIDE DEF on
  <2>1. CASE ~ moved
    BY <1>1, <1>6, <2>1 DEF Under
  <2>2. CASE moved
    <3>1. on.headTrk \in Int /\ on.headTrk = 2 * drive.cylinder + (1 - upper)
      BY <1>1, <1>4, <1>6, <2>2 DEF Under
    <3>2. CASE upper = 1
      <4>1. sided = [on EXCEPT !.headTrk = @ + 1]
        BY <2>2, <3>2 DEF ChangeDiskSide
      <4>2. on.headTrk + 1 = 2 * drive.cylinder + upper
        BY <1>1, <3>1, <3>2
      <4> HIDE DEF sided, upper
      <4> QED BY <1>6, <3>1, <4>1, <4>2
    <3>3. CASE upper = 0
      <4>1. sided = [on EXCEPT !.headTrk = @ - 1]
        BY <2>2, <3>3 DEF ChangeDiskSide
      <4>2. on.headTrk - 1 = 2 * drive.cylinder + upper
        BY <1>1, <3>1, <3>3
      <4> HIDE DEF sided, upper
      <4> QED BY <1>6, <3>1, <4>1, <4>2
    <3> QED BY <1>4, <3>2, <3>3
  <2> QED BY <2>1, <2>2
<1> HIDE DEF sided
<1>8. /\ drive' \in Heads
      /\ drive'.cylinder = drive.cylinder /\ drive'.side = upper
      /\ ~ there => drive'.inwards = inwards
  <2> HIDE DEF there, inwards
  <2>1. inwards \in BOOLEAN
    BY DEF inwards
  <2> QED BY <1>1, <1>4, <1>5, <2>1
<1>9. Under' = sided.headTrk
  BY <1>7, <1>8 DEF Under
<1>10. /\ fd' \in Device
       /\ fd'.motorOn /\ fd'.track = fd.track /\ fd'.headTrk = sided.headTrk
       /\ ~ there => fd'.headDir = IF inwards THEN 2 ELSE -2
  BY <1>5, <1>7 DEF HeadsStepDirection
<1>11. IF there THEN Under' = io.track
       ELSE IF inwards THEN Under' <= io.track ELSE Under' >= io.track
  BY <1>1, <1>7, <1>9
<1> QED BY <1>2, <1>5, <1>8, <1>9, <1>10, <1>11

(* The track a request has got to is on the disk, and so is the one being     *)
(* written                                                                    *)
LEMMA TrackKnown ==
  ASSUME Core, io.pc = "serve",
         req[io.client].left > 0 \/ io.needWrite \/ io.sector = NSECTORS
  PROVE  io.track \in Track
<1>1. CASE req[io.client].left > 0
  <2>1. /\ io.track \in Nat /\ io.sector \in Nat /\ io.offset \in Nat
        /\ req[io.client].left \in Nat \ {0}
    BY <1>1, Sizes DEF Core, TypeOK, RequestInv, Serving, Request
  <2>2. (io.track * NSECTORS + io.sector) * SECTOR_SIZE + io.offset
          + req[io.client].left <= FLOPPY_SIZE
    BY <1>1 DEF Core, RequestInv, Serving, Pos
  <2> QED BY <2>1, <2>2, WithinDisk
<1>2. CASE io.needWrite \/ io.sector = NSECTORS
  BY <1>2 DEF Core, TypeOK, RequestInv, Serving, Track
<1> QED BY <1>1, <1>2

(* A step of the heads, as far as the records go                              *)
LEMMA Goes ==
  ASSUME Core, Travel
  PROVE  /\ io' = [io EXCEPT !.pc = io'.pc] /\ io'.pc \in {"stepped", "settle"}
         /\ fd' \in Device /\ fd'.track = fd.track /\ drive' \in Heads
<1>1. io \in Locals /\ fd \in Device /\ drive \in Heads
  BY DEF Core, TypeOK
<1>2. fd' \in Device /\ fd'.track = fd.track
  <2>1. fd.headTrk + fd.headDir \in Int
    BY <1>1
  <2> QED BY <1>1, <2>1 DEF Travel, Stepped
<1>3. Pulsed \in Heads
  BY <1>1 DEF Pulsed
<1>4. drive' \in {drive, Pulsed}
  BY DEF Travel, Pulse
<1> QED BY <1>1, <1>2, <1>3, <1>4 DEF Travel

(* A step of the heads                                                        *)
LEMMA Travels ==
  ASSUME IInv, ~ missed', Travel
  PROVE  /\ io.track \in Track
         /\ io' = [io EXCEPT !.pc = io'.pc] /\ io'.pc \in {"stepped", "settle"}
         /\ fd' = [fd EXCEPT !.headTrk = Under]
         /\ drive' = [drive EXCEPT !.cylinder = drive'.cylinder]
         /\ drive'.cylinder \in 0 .. Cylinders - 1
         /\ io'.pc = "settle" => Under' = io.track
         /\ io'.pc = "stepped" =>
              /\ Under' = Under + fd.headDir
              /\ IF drive.inwards THEN Under' <= io.track
                 ELSE Under' >= io.track
<1>1. /\ io.track \in Track /\ io.track \in Nat
      /\ drive \in Heads
      /\ fd \in Device
      /\ Stepped("stepped") = [fd EXCEPT !.headTrk = Under]
      /\ fd.headDir = IF drive.inwards THEN 2 ELSE -2
      /\ drive.side = io.track % 2
      /\ IF drive.inwards THEN Under <= io.track ELSE Under >= io.track
  <2>1. /\ io.pc \in {"turned", "stepped"}
        /\ io.track \in Track /\ io.track \in Nat
    BY DEF Travel, IInv, Core, TypeOK, RequestInv, Busy, Moving, Track
  <2>2. /\ Stepped("stepped").headTrk = Under
        /\ fd.headDir = IF drive.inwards THEN 2 ELSE -2
        /\ drive.side = io.track % 2
        /\ IF drive.inwards THEN Under <= io.track ELSE Under >= io.track
    BY <2>1 DEF IInv, Core, HeadInv, Moving, Homing, HomeDelays
  <2>3. fd \in Device
    BY DEF IInv, Core, TypeOK
  <2>4. Stepped("stepped") = [fd EXCEPT !.headTrk = Under]
    BY <2>2, <2>3 DEF Stepped
  <2> QED BY <2>1, <2>2, <2>3, <2>4 DEF IInv, Core, TypeOK
<1>2. fd' = [fd EXCEPT !.headTrk = Under] /\ fd'.headTrk = Under
  BY <1>1 DEF Travel
<1>3. CASE io.track = Under
  BY <1>1, <1>2, <1>3 DEF Travel, Under, IInv, Core, TypeOK
<1>4. CASE io.track # Under
  <2>1. drive' = Pulsed /\ io' = [io EXCEPT !.pc = "stepped"]
    <3>1. io.pc \in {"turned", "stepped"} /\ NextDelay
      BY DEF Travel
    <3>2. irq \/ cut
      BY <3>1, Delayed DEF IInv, Core
    <3>3. ~ timer
      BY <3>1, <3>2 DEF IInv, Core, TypeOK, WaitInv, Delays, HomeDelays
    <3> QED BY <1>2, <1>4, <3>3 DEF Travel, Pulse
  <2>2. IF drive.inwards
        THEN drive.cylinder + 1 <= Cylinders - 1 /\ Under + 2 <= io.track
        ELSE drive.cylinder - 1 >= 0 /\ Under - 2 >= io.track
    <3>1. PICK q \in Nat : io.track = q * 2 + drive.side
      BY <1>1, Halves
    <3>2. /\ drive.cylinder \in 0 .. Cylinders - 1 /\ drive.side \in 0 .. 1
          /\ io.track \in 0 .. 2 * Cylinders - 1
          /\ drive.inwards \in BOOLEAN
      BY <1>1 DEF Track
    <3>3. CASE drive.inwards
      <4>1. 2 * drive.cylinder + drive.side < q * 2 + drive.side
        BY <1>1, <1>4, <3>1, <3>2, <3>3 DEF Under
      <4> QED BY <3>1, <3>2, <3>3, <4>1 DEF Under
    <3>4. CASE ~ drive.inwards
      <4>1. 2 * drive.cylinder + drive.side > q * 2 + drive.side
        BY <1>1, <1>4, <3>1, <3>2, <3>4 DEF Under
      <4> QED BY <3>1, <3>2, <3>4, <4>1 DEF Under
    <3> QED BY <3>3, <3>4
  <2>3. drive' = [drive EXCEPT !.cylinder =
                    IF drive.inwards THEN @ + 1 ELSE @ - 1]
    BY <1>1, <2>1, <2>2 DEF Pulsed
  <2>4. /\ drive'.cylinder \in 0 .. Cylinders - 1 /\ drive'.side = drive.side
        /\ drive'.cylinder = IF drive.inwards THEN drive.cylinder + 1
                            ELSE drive.cylinder - 1
    BY <1>1, <2>2, <2>3
  <2>5. /\ Under' = Under + fd.headDir
        /\ IF drive.inwards THEN Under' <= io.track ELSE Under' >= io.track
    BY <1>1, <2>2, <2>4 DEF Under
  <2>6. io.pc \in {"turned", "stepped"} /\ io'.pc = "stepped"
    BY <2>1 DEF Travel, IInv, Core, TypeOK
  <2>7. drive' = [drive EXCEPT !.cylinder = drive'.cylinder]
    BY <1>1, <2>3
  <2> QED BY <1>1, <1>2, <2>1, <2>4, <2>5, <2>6, <2>7
<1> QED BY <1>3, <1>4

(* The heads leave for track 0, or have reached it and turn round             *)
LEMMA Outs ==
  ASSUME Core, Outwards
  PROVE  /\ io.pc \in {"turned out", "stepped out"}
         /\ io' = [io EXCEPT !.pc = io'.pc]
         /\ io'.pc \in {"home", "stepped out"}
         /\ fd' \in Device /\ fd'.track = fd.track /\ drive' \in Heads
         /\ io'.pc = "home" => drive'.cylinder = 0
<1>1. io \in Locals /\ fd \in Device /\ drive \in Heads
  BY DEF Core, TypeOK
<1>2. /\ Stepped("stepped out") \in Device
      /\ Stepped("stepped out").track = fd.track
  <2>1. CASE io.pc = "stepped out"
    <3>1. Stepped("stepped out") = [fd EXCEPT !.headTrk = @ + fd.headDir]
      BY <2>1 DEF Stepped
    <3>2. fd.headTrk + fd.headDir \in Int
      BY <1>1
    <3> QED BY <1>1, <3>1, <3>2
  <2>2. CASE io.pc # "stepped out"
    BY <1>1, <2>2 DEF Stepped
  <2> QED BY <2>1, <2>2
<1>3. CASE HeadsAtTrack0
  <2>1. /\ fd' = HeadsStepDirection(Stepped("stepped out"), TRUE)
        /\ drive' = [drive EXCEPT !.inwards = TRUE]
        /\ io' = [io EXCEPT !.pc = "home"]
    BY <1>3 DEF Outwards
  <2>2. fd' \in Device /\ fd'.track = fd.track
    <3> DEFINE f == Stepped("stepped out")
    <3>1. fd' = [f EXCEPT !.headDir = 2]
      BY <2>1 DEF HeadsStepDirection
    <3> HIDE DEF f
    <3> QED BY <1>2, <3>1 DEF f
  <2> QED BY <1>1, <1>3, <2>1, <2>2 DEF Outwards, HeadsAtTrack0
<1>4. CASE ~ HeadsAtTrack0
  <2>1. /\ fd' = Stepped("stepped out") /\ drive' \in {drive, Pulsed}
        /\ io' = [io EXCEPT !.pc = "stepped out"]
    BY <1>4 DEF Outwards, Pulse
  <2>2. Pulsed \in Heads
    BY <1>1 DEF Pulsed
  <2> QED BY <1>1, <1>2, <2>1, <2>2 DEF Outwards
<1> QED BY <1>3, <1>4

(* A request begins where its offset says                                     *)
LEMMA Begins ==
  ASSUME Core, NEW c \in Clients, GetMsg(c)
  PROVE  /\ req[c] \in Request /\ req[c].left > 0
         /\ io' \in Locals /\ io'.pc = "serve" /\ io'.client = c
         /\ io'.needWrite = FALSE /\ io'.sector \in 0 .. NSECTORS - 1
         /\ Pos' = req[c].offset /\ Pos' + req[c].left <= FLOPPY_SIZE
<1> DEFINE p == req[c].offset
           t == p \div TRACK_SIZE
           s == (p \div SECTOR_SIZE) % NSECTORS
           o == p % SECTOR_SIZE
<1>1. /\ req[c] \in Request /\ p \in Nat /\ req[c].left \in Nat \ {0}
      /\ p + req[c].left <= FLOPPY_SIZE
  BY DEF GetMsg, Core, TypeOK, RequestInv, Request, Serving, Busy, Moving
<1>2. io' = [io EXCEPT !.pc = "serve", !.client = c, !.needWrite = FALSE,
                       !.track = t, !.sector = s, !.offset = o]
  BY DEF GetMsg
<1>3. t \in Nat /\ s \in 0 .. NSECTORS - 1 /\ o \in 0 .. SECTOR_SIZE - 1
  <2>1. PICK q \in Nat : q = p \div SECTOR_SIZE
    BY <1>1, Division
  <2>2. s \in 0 .. NSECTORS - 1
    BY <2>1, Division
  <2>3. t \in Nat /\ o \in 0 .. SECTOR_SIZE - 1
    BY <1>1, Sizes, Division
  <2> QED BY <2>2, <2>3
<1>4. (t * NSECTORS + s) * SECTOR_SIZE + o = p
  BY <1>1, Split DEF TRACK_SIZE
<1> HIDE DEF p, t, s, o
<1>5. t \in Track
  <2>1. (t * NSECTORS + s) * SECTOR_SIZE + o + req[c].left <= FLOPPY_SIZE
    BY <1>1, <1>4
  <2>2. t \in Nat /\ s \in Nat /\ o \in Nat /\ req[c].left \in Nat \ {0}
    BY <1>1, <1>3, Sizes
  <2> QED BY <2>1, <2>2, WithinDisk, Zenon
<1>6. /\ io' \in Locals /\ io'.pc = "serve" /\ io'.client = c
      /\ io'.needWrite = FALSE
      /\ io'.track = t /\ io'.sector = s /\ io'.offset = o
  <2>1. io \in Locals /\ t \in 0 .. NTRACKS /\ s \in 0 .. NSECTORS
    BY <1>3, <1>5, Sizes DEF Core, TypeOK, Track
  <2> QED BY <1>2, <1>3, <2>1 DEF Label
<1>7. Pos' = p
  BY <1>4, <1>6 DEF Pos
<1> QED BY <1>1, <1>3, <1>6, <1>7 DEF p

(* What is copied of a sector, and what the request then has left             *)
LEMMA Copies ==
  ASSUME Core, CopySector
  PROVE  \E n \in 1 .. req[io.client].left, new \in Data, b \in Seq(Byte) :
           LET r == req[io.client] IN
           /\ io.pc = "serve" /\ io.client \in Clients /\ r \in Request
           /\ io.sector \in Sector /\ fd.track = io.track
           /\ n = SECTOR_SIZE - io.offset \/ n = r.left
           /\ n <= SECTOR_SIZE - io.offset
           /\ ~ r.write => new = (IF "DECODED" \in state[io.sector]
                                  THEN raw[io.sector] ELSE buffer[io.sector])
           /\ raw' = [raw EXCEPT ![io.sector] = new]
           /\ state' = [state EXCEPT ![io.sector] = @ \cup Marks(r.write)]
           /\ req' = [req EXCEPT ![io.client] =
                        [r EXCEPT !.left = r.left - n, !.buf = b]]
           /\ io' = [io EXCEPT !.offset = 0, !.sector = io.sector + 1,
                               !.needWrite = io.needWrite \/ r.write]
           /\ UNCHANGED <<port, fd, drive, dma, calls, waiting, buffer, disk,
                          protect, refused>>
<1> DEFINE r == req[io.client]
           s == io.sector
           room == SECTOR_SIZE - io.offset
           n == IF r.left < room THEN r.left ELSE room
           old == IF "DECODED" \in state[s] THEN raw[s] ELSE buffer[s]
           new == [o \in DOMAIN old |->
                     IF r.write /\ o \in io.offset .. io.offset + n - 1
                     THEN r.value ELSE old[o]]
           moved == [i \in 1 .. n |-> new[io.offset + i - 1]]
           b == r.buf \o moved
<1>1. /\ io \in Locals /\ io.pc = "serve" /\ io.client \in Clients
      /\ r \in Request /\ r.left > 0 /\ s \in Sector /\ fd.track = io.track
  BY DEF CopySector, Core, TypeOK, RequestInv, Serving, Sector
<1>2. /\ r.left \in Nat \ {0} /\ r.value \in Byte /\ r.buf \in Seq(Byte)
      /\ r.write \in BOOLEAN /\ io.offset \in 0 .. SECTOR_SIZE - 1
  BY <1>1 DEF Request
<1>3. n \in 1 .. r.left /\ n <= room /\ (n = room \/ n = r.left)
  BY <1>2
<1>4. old \in Data
  BY <1>1 DEF Core, TypeOK
<1>5. new \in Data /\ (~ r.write => new = old)
  <2> HIDE DEF old, r, n
  <2> QED BY <1>2, <1>4 DEF Data
<1>6. b \in Seq(Byte)
  <2>1. \A i \in 1 .. n : io.offset + i - 1 \in 0 .. SECTOR_SIZE - 1
    BY <1>2, <1>3
  <2>2. \A i \in 1 .. n : new[io.offset + i - 1] \in Byte
    <3> HIDE DEF new, n
    <3> QED BY <1>5, <2>1 DEF Data
  <2>3. moved \in Seq(Byte)
    <3>1. n \in Nat
      BY <1>2, <1>3
    <3> HIDE DEF new, n
    <3> QED BY <2>2, <3>1
  <2> HIDE DEF moved, r
  <2> QED BY <1>2, <2>3
<1>7. /\ raw' = [raw EXCEPT ![s] = new]
      /\ state' = [state EXCEPT ![s] = @ \cup Marks(r.write)]
      /\ req' = [req EXCEPT ![io.client].left = @ - n,
                            ![io.client].buf = @ \o moved]
      /\ io' = [io EXCEPT !.offset = 0, !.sector = @ + 1,
                          !.needWrite = @ \/ r.write]
      /\ UNCHANGED <<port, fd, drive, dma, calls, waiting, buffer, disk, protect,
                     refused>>
  BY DEF CopySector
<1>8. req' = [req EXCEPT ![io.client] =
                [r EXCEPT !.left = r.left - n, !.buf = b]]
  <2> HIDE DEF n, moved
  <2> QED BY <1>1, <1>7 DEF Core, TypeOK
<1> HIDE DEF n, new, b, moved
<1> QED BY <1>1, <1>3, <1>5, <1>6, <1>7, <1>8

(* A request is cut so that it lies on the disk                               *)
LEMMA Asks ==
  ASSUME Core, NEW c \in Clients, FloppyReadWrite(c)
  PROVE  /\ req[c] = None /\ calls' = calls + 1 /\ calls < MaxCalls
         /\ req' \in [Clients -> Request \cup {None}]
         /\ \E r \in Request :
              /\ req' = [req EXCEPT ![c] = r]
              /\ r.left > 0 /\ r.offset + r.left <= FLOPPY_SIZE
              /\ r.buf = <<>>
         /\ UNCHANGED <<port, io, fd, drive, dma, waiting, media>>
<1>1. PICK q \in Requests :
        LET remaining == FLOPPY_SIZE - q.offset
            left == IF q.left > remaining THEN remaining ELSE q.left
        IN  /\ req[c] = None /\ calls < MaxCalls
            /\ q.offset < FLOPPY_SIZE /\ left # 0
            /\ calls' = calls + 1
            /\ req' = [req EXCEPT ![c] =
                 [offset |-> q.offset, left |-> left, write |-> q.write,
                  value |-> calls', buf |-> <<>>]]
            /\ UNCHANGED <<port, io, fd, drive, dma, waiting, media>>
  BY DEF FloppyReadWrite
<1> DEFINE remaining == FLOPPY_SIZE - q.offset
           left == IF q.left > remaining THEN remaining ELSE q.left
           r == [offset |-> q.offset, left |-> left, write |-> q.write,
                 value |-> calls', buf |-> <<>>]
<1>2. q.offset \in Nat /\ q.left \in Nat /\ q.write \in BOOLEAN
  OBVIOUS
<1>3. left \in Nat \ {0} /\ q.offset + left <= FLOPPY_SIZE
  BY <1>1, <1>2, Sizes
<1>4. calls' \in Byte
  BY <1>1 DEF Core, TypeOK, Byte
<1>5. r \in Request /\ r.left = left /\ r.offset = q.offset /\ r.buf = <<>>
  <2> HIDE DEF left
  <2> QED BY <1>2, <1>3, <1>4 DEF Request
<1>6. req' = [req EXCEPT ![c] = r]
  BY <1>1
<1>7. req' \in [Clients -> Request \cup {None}]
  <2> HIDE DEF r
  <2> QED BY <1>5, <1>6 DEF Core, TypeOK
<1>8. r.left > 0 /\ r.offset + r.left <= FLOPPY_SIZE
  <2> HIDE DEF r, left
  <2> QED BY <1>3, <1>5
<1> HIDE DEF r
<1> QED BY <1>1, <1>5, <1>6, <1>7, <1>8

----------------------------------------------------------------------------
(* The types                                                                  *)

HIDE DEF Locals, Device, Heads

LEMMA UnderInt ==
  ASSUME drive \in Heads
  PROVE  Under \in Int
<1>1. drive.cylinder \in Int /\ drive.side \in Int
  BY DEF Heads
<1> QED BY <1>1 DEF Under

LEMMA InitInv == Init => IInv
<1> SUFFICES ASSUME Init PROVE IInv
  OBVIOUS
<1>1. TypeOK
  <2>1. Blank \in Data
    BY Sizes DEF Blank, Data, Byte
  <2>2. io \in Locals /\ fd \in Device
    BY Sizes DEF Init, Label, Locals, Device
  <2>3. drive \in Heads /\ req \in [Clients -> Request \cup {None}]
    BY DEF Init
  <2>4. calls \in 0 .. MaxCalls /\ dma \in {"off", READ, WRITE, "done"}
    BY DEF Init
  <2>5. state \in [Sector -> SUBSET {"DECODED", "DIRTY"}]
    BY DEF Init
  <2>6. /\ raw \in [Sector -> Data] /\ buffer \in [Sector -> Data]
        /\ disk \in [Track -> [Sector -> Data]]
    BY <2>1 DEF Init
  <2> QED BY <2>2, <2>3, <2>4, <2>5, <2>6 DEF Init, TypeOK
<1>2. WaitInv /\ RequestInv /\ HeadInv /\ CacheInv
  BY DEF Init, WaitInv, RequestInv, HeadInv, CacheInv, Serving, Busy, Moving,
         Homing, Delays, HomeDelays
<1> QED BY <1>1, <1>2 DEF IInv, Core

(* What the controller has transferred, and what is left when it is turned off *)
LEMMA TransferTypes ==
  ASSUME TypeOK, NEW some \in SUBSET Sector, Transferred(some)
  PROVE  /\ buffer' \in [Sector -> Data]
         /\ disk' \in [Track -> [Sector -> Data]]
         /\ refused' \in BOOLEAN
<1> DEFINE onto(old, new) ==
             [s \in Sector |-> IF s \in some THEN new[s] ELSE old[s]]
<1>1. /\ buffer \in [Sector -> Data] /\ disk \in [Track -> [Sector -> Data]]
      /\ Under \in Track /\ refused \in BOOLEAN
  BY UnderTrack DEF TypeOK
<1>2. disk[Under] \in [Sector -> Data]
  BY <1>1
<1>3. /\ onto(buffer, disk[Under]) \in [Sector -> Data]
      /\ onto(disk[Under], buffer) \in [Sector -> Data]
  BY <1>1, <1>2
<1>4. /\ buffer' \in {buffer, onto(buffer, disk[Under])}
      /\ \/ disk' = disk
         \/ disk' = [disk EXCEPT ![Under] = onto(disk[Under], buffer)]
      /\ refused' = (refused \/ (dma = WRITE /\ protect))
  BY <1>1 DEF Transferred
<1> HIDE DEF onto
<1> QED BY <1>1, <1>3, <1>4

LEMMA WholeTrack ==
  ASSUME TypeOK, Transferred(Sector)
  PROVE  /\ buffer' = IF dma = READ THEN disk[Under] ELSE buffer
         /\ disk' = IF dma = WRITE /\ ~ protect
                    THEN [disk EXCEPT ![Under] = buffer] ELSE disk
         /\ refused' = (refused \/ (dma = WRITE /\ protect))
<1> DEFINE onto(old, new) ==
             [s \in Sector |-> IF s \in Sector THEN new[s] ELSE old[s]]
<1>1. /\ buffer \in [Sector -> Data] /\ disk \in [Track -> [Sector -> Data]]
      /\ Under \in Track
  BY UnderTrack DEF TypeOK
<1>2. disk[Under] \in [Sector -> Data]
  BY <1>1
<1>3. /\ onto(buffer, disk[Under]) = disk[Under]
      /\ onto(disk[Under], buffer) = buffer
  BY <1>1, <1>2
<1>4. /\ buffer' = IF dma = READ THEN onto(buffer, disk[Under]) ELSE buffer
      /\ disk' = IF dma = WRITE /\ ~ protect
                 THEN [disk EXCEPT ![Under] = onto(@, buffer)] ELSE disk
      /\ refused' = (refused \/ (dma = WRITE /\ protect))
  BY DEF Transferred
<1>5. [disk EXCEPT ![Under] = onto(@, buffer)] = [disk EXCEPT ![Under] = buffer]
  BY <1>1, <1>3
<1> HIDE DEF onto
<1> QED BY <1>3, <1>4, <1>5

LEMMA OffTypes ==
  ASSUME TypeOK, TransferOff
  PROVE  /\ dma' = "off" /\ irq' \in BOOLEAN
         /\ buffer' \in [Sector -> Data]
         /\ disk' \in [Track -> [Sector -> Data]]
         /\ refused' \in BOOLEAN
<1>1. PICK some \in SUBSET Sector :
        Transferred(some) /\ irq' \in {FALSE, (dma # "done" /\ some = Sector)}
  BY DEF TransferOff
<1> QED BY <1>1, TransferTypes DEF TransferOff

LEMMA TypesStep == Core /\ [Next]_vars => TypeOK'
<1> SUFFICES ASSUME Core, [Next]_vars PROVE TypeOK'
  OBVIOUS
<1> USE DEF TypeOK, Core, media, waiting, Label, Delays, HomeDelays, READ, WRITE
<1>1. ASSUME Start PROVE TypeOK'
  <2>1. HeadsStepDirection([fd EXCEPT !.motorOn = TRUE], FALSE) \in Device
    BY DEF HeadsStepDirection, Device
  <2>2. io' \in Locals /\ drive' \in Heads
    BY <1>1 DEF Start, Locals, Heads
  <2> QED BY <1>1, <2>1, <2>2, Sets DEF Start
<1>2. ASSUME Outwards PROVE TypeOK'
  <2>1. io' \in Locals
    BY <1>2, Outs DEF Locals
  <2>2. fd' \in Device /\ drive' \in Heads
    BY <1>2, Outs
  <2>3. /\ timer' \in BOOLEAN /\ irq' \in BOOLEAN /\ missed' \in BOOLEAN
        /\ cut' \in BOOLEAN
    BY <1>2, Delayed DEF Outwards
  <2> QED BY <1>2, <2>1, <2>2, <2>3 DEF Outwards
<1>3. ASSUME Home PROVE TypeOK'
  <2>1. fd' \in Device
    BY <1>3 DEF Home, Device
  <2>2. drive' \in Heads
    BY <1>3 DEF Home, Heads
  <2>3. io' \in Locals
    BY <1>3 DEF Home, Locals
  <2> QED BY <1>3, <2>1, <2>2, <2>3 DEF Home, Woken, WaitEnds
<1>4. ASSUME NEW c \in Clients, GetMsg(c) PROVE TypeOK'
  BY <1>4, Begins DEF GetMsg
<1>5. ASSUME FloppyMotorOff PROVE TypeOK'
  <2>1. fd' \in Device
    BY <1>5 DEF FloppyMotorOff, Device
  <2> QED BY <1>5, <2>1 DEF FloppyMotorOff
<1>6. ASSUME ReadTrack PROVE TypeOK'
  <2>1. MoveTo(READ) /\ io.pc = "serve" /\ io.track \in Track
    BY <1>6, TrackKnown DEF ReadTrack
  <2>2. fd' \in Device /\ drive' \in Heads /\ {timer', irq', missed'} \subseteq BOOLEAN
    BY <2>1, Turns
  <2>3. io' \in Locals
    <3>1. PICK p \in {"turned", "settle"} :
            io' = [io EXCEPT !.cmd = READ, !.pc = p]
      BY <2>1, Turns
    <3> QED BY <3>1 DEF Locals
  <2> QED BY <1>6, <2>2, <2>3 DEF ReadTrack
<1>7. ASSUME WriteTrack PROVE TypeOK'
  <2>1. io.pc = "serve" /\ io.track \in Track
    BY <1>7, TrackKnown DEF WriteTrack
  <2>2. CASE WriteProtected
    <3>1. io' \in Locals
      <4>1. io' = [io EXCEPT !.needWrite = FALSE]
        BY <1>7, <2>2 DEF WriteTrack
      <4> QED BY <4>1 DEF Locals
    <3> QED BY <1>7, <2>2, <3>1 DEF WriteTrack
  <2>3. CASE ~ WriteProtected
    <3>1. MoveTo(WRITE)
      BY <1>7, <2>3 DEF WriteTrack
    <3>2. /\ buffer' \in [Sector -> Data]
          /\ state' \in [Sector -> SUBSET {"DECODED", "DIRTY"}]
      <4>1. buffer' = [s \in Sector |->
                         IF "DIRTY" \in state[s] THEN raw[s] ELSE buffer[s]]
        BY <1>7, <2>3 DEF WriteTrack
      <4>2. state' = [s \in Sector |-> state[s] \ {"DIRTY"}]
        BY <1>7, <2>3 DEF WriteTrack
      <4> QED BY <4>1, <4>2
    <3>3. fd' \in Device /\ drive' \in Heads /\ {timer', irq', missed'} \subseteq BOOLEAN
      BY <2>1, <3>1, Turns
    <3>4. io' \in Locals
      <4>1. PICK p \in {"turned", "settle"} :
              io' = [io EXCEPT !.cmd = WRITE, !.pc = p]
        BY <2>1, <3>1, Turns
      <4> QED BY <4>1 DEF Locals
    <3> QED BY <1>7, <2>3, <3>2, <3>3, <3>4 DEF WriteTrack
  <2> QED BY <2>2, <2>3
<1>8. ASSUME Travel PROVE TypeOK'
  <2>1. fd' \in Device /\ drive' \in Heads
    BY <1>8, Goes
  <2>2. io' \in Locals
    <3>1. PICK p \in {"stepped", "settle"} : io' = [io EXCEPT !.pc = p]
      BY <1>8, Goes
    <3> QED BY <3>1 DEF Locals
  <2>3. /\ timer' \in BOOLEAN /\ irq' \in BOOLEAN /\ missed' \in BOOLEAN
        /\ cut' \in BOOLEAN
    BY <1>8, Delayed DEF Travel
  <2> QED BY <1>8, <2>1, <2>2, <2>3 DEF Travel
<1>9. ASSUME Transfer PROVE TypeOK'
  <2>1. io' \in Locals
    BY <1>9 DEF Transfer, Locals
  <2>2. io.cmd \in {READ, WRITE}
    BY DEF Locals
  <2> QED BY <1>9, <2>1, <2>2 DEF Transfer, Woken, WaitEnds
<1>10. ASSUME TransferRead PROVE TypeOK'
  <2>1. io.track \in Track
    BY <1>10 DEF TransferRead, RequestInv, Busy
  <2>2. io' \in Locals
    BY <1>10 DEF TransferRead, Locals
  <2>3. fd' \in Device
    BY <1>10, <2>1 DEF TransferRead, Device
  <2>4. /\ dma' = "off" /\ irq' \in BOOLEAN /\ cut' = FALSE
        /\ buffer' \in [Sector -> Data] /\ disk' \in [Track -> [Sector -> Data]]
        /\ refused' \in BOOLEAN
    BY <1>10, OffTypes DEF TransferRead, WaitEnds
  <2> QED BY <1>10, <2>2, <2>3, <2>4 DEF TransferRead, Forget
<1>11. ASSUME TransferWritten PROVE TypeOK'
  <2>1. io' \in Locals
    BY <1>11 DEF TransferWritten, Locals
  <2>2. /\ timer' \in BOOLEAN /\ irq' \in BOOLEAN /\ missed' \in BOOLEAN
        /\ cut' \in BOOLEAN
    BY <1>11, Delayed DEF TransferWritten
  <2> QED BY <1>11, <2>1, <2>2 DEF TransferWritten
<1>12. ASSUME Written PROVE TypeOK'
  <2>1. io' \in Locals
    BY <1>12 DEF Written, Locals
  <2>2. /\ dma' = "off" /\ irq' \in BOOLEAN /\ cut' = FALSE
        /\ buffer' \in [Sector -> Data] /\ disk' \in [Track -> [Sector -> Data]]
        /\ refused' \in BOOLEAN
    BY <1>12, OffTypes DEF Written, WaitEnds
  <2> QED BY <1>12, <2>1, <2>2 DEF Written
<1>13. ASSUME CopySector PROVE TypeOK'
  <2>1. PICK n \in 1 .. req[io.client].left, new \in Data, b \in Seq(Byte) :
          LET r == req[io.client] IN
          /\ io.client \in Clients /\ r \in Request /\ io.sector \in Sector
          /\ raw' = [raw EXCEPT ![io.sector] = new]
          /\ state' = [state EXCEPT ![io.sector] = @ \cup Marks(r.write)]
          /\ req' = [req EXCEPT ![io.client] =
                       [r EXCEPT !.left = r.left - n, !.buf = b]]
          /\ io' = [io EXCEPT !.offset = 0, !.sector = io.sector + 1,
                              !.needWrite = io.needWrite \/ r.write]
          /\ UNCHANGED <<port, fd, drive, dma, calls, waiting, buffer, disk,
                         protect, refused>>
    BY <1>13, Copies
  <2>2. req' \in [Clients -> Request \cup {None}]
    <3>1. [req[io.client] EXCEPT !.left = req[io.client].left - n, !.buf = b]
            \in Request
      <4> DEFINE r == req[io.client]
      <4>1. r \in Request /\ r.left - n \in Nat
        BY <2>1 DEF Request
      <4> HIDE DEF r
      <4>2. [r EXCEPT !.left = r.left - n, !.buf = b] \in Request
        BY <4>1 DEF Request
      <4> QED BY <4>2 DEF r
    <3> QED BY <2>1, <3>1
  <2>3. io' \in Locals
    <3>1. 0 \in 0 .. SECTOR_SIZE - 1 /\ io.sector + 1 \in 0 .. NSECTORS
      <4>1. io.sector \in Sector
        BY <2>1
      <4> QED BY <4>1, Sizes DEF Sector
    <3>2. io.needWrite \in BOOLEAN /\ req[io.client].write \in BOOLEAN
      BY <2>1 DEF Locals, Request
    <3> QED BY <2>1, <3>1, <3>2 DEF Locals
  <2>4. raw' \in [Sector -> Data]
    BY <2>1
  <2>5. state' \in [Sector -> SUBSET {"DECODED", "DIRTY"}]
    BY <2>1 DEF Marks
  <2> QED BY <2>1, <2>2, <2>3, <2>4, <2>5
<1>14. ASSUME NextTrack PROVE TypeOK'
  <2>1. io.track \in Track /\ 0 \in 0 .. NSECTORS
    <3>1. io.pc = "serve" /\ io.sector = NSECTORS
      BY <1>14 DEF NextTrack
    <3> QED BY <3>1, Sizes, TrackKnown
  <2>2. io.track + 1 \in 0 .. NTRACKS
    BY <2>1, Sizes DEF Track
  <2>3. io' \in Locals
    BY <1>14, <2>1, <2>2 DEF NextTrack, Locals
  <2> QED BY <1>14, <2>3 DEF NextTrack
<1>15. ASSUME ReplyMsg PROVE TypeOK'
  <2>1. io' \in Locals
    BY <1>15 DEF ReplyMsg, Locals
  <2>2. req' \in [Clients -> Request \cup {None}]
    BY <1>15 DEF ReplyMsg
  <2> QED BY <1>15, <2>1, <2>2 DEF ReplyMsg
<1>16. ASSUME NEW c \in Clients, FloppyReadWrite(c) PROVE TypeOK'
  <2>1. calls' \in Byte /\ calls' \in 0 .. MaxCalls
    BY <1>16 DEF FloppyReadWrite, Byte
  <2>2. req' \in [Clients -> Request \cup {None}]
    BY <1>16, Asks
  <2> QED BY <1>16, <2>1, <2>2 DEF FloppyReadWrite
<1>17. ASSUME TimerFires PROVE TypeOK'
  <2>1. missed' \in BOOLEAN
    BY <1>17 DEF TimerFires
  <2> QED BY <1>17, <2>1 DEF TimerFires
<1>18. ASSUME TrackTransferDone PROVE TypeOK'
  <2>1. /\ buffer' \in [Sector -> Data] /\ disk' \in [Track -> [Sector -> Data]]
        /\ refused' \in BOOLEAN
    BY <1>18, TransferTypes DEF TrackTransferDone
  <2> QED BY <1>18, <2>1 DEF TrackTransferDone
<1>19. ASSUME MoveTab PROVE TypeOK'
  BY <1>19 DEF MoveTab
<1>20. ASSUME UNCHANGED vars PROVE TypeOK'
  BY <1>20 DEF vars
<1>21. ASSUME NEW c \in Clients, DoMsg(c) PROVE TypeOK'
  <2>1. port' \in Clients /\ cut' \in BOOLEAN
    BY <1>21 DEF DoMsg
  <2> QED BY <1>21, <2>1 DEF DoMsg
<1> QED BY <1>1, <1>2, <1>3, <1>4, <1>5, <1>6, <1>7, <1>8, <1>9, <1>10, <1>11,
           <1>12, <1>13, <1>14, <1>15, <1>16, <1>17, <1>18, <1>19, <1>20, <1>21
        DEF Next, IoTask, Hardware

----------------------------------------------------------------------------
(* The requests                                                               *)

LEMMA RequestStep == Core /\ [Next]_vars => RequestInv'
<1> SUFFICES ASSUME Core, [Next]_vars PROVE RequestInv'
  OBVIOUS
<1> USE DEF Core, TypeOK, RequestInv, Serving, Busy, Moving, READ, WRITE
<1>0. io \in Locals /\ fd \in Device
  OBVIOUS
<1>1. ASSUME Start PROVE RequestInv'
  BY <1>1 DEF Start, Locals
<1>2. ASSUME Outwards PROVE RequestInv'
  <2>1. /\ io.pc \in {"turned out", "stepped out"} /\ UNCHANGED <<req, port>>
        /\ io' = [io EXCEPT !.pc = io'.pc] /\ io'.pc \in {"home", "stepped out"}
    BY <1>2, Outs DEF Outwards
  <2> QED BY <2>1 DEF Locals
<1>3. ASSUME Home PROVE RequestInv'
  BY <1>3 DEF Home, Locals
<1>4. ASSUME NEW c \in Clients, GetMsg(c) PROVE RequestInv'
  <2>1. /\ io.pc = "idle" /\ req[c] # None /\ UNCHANGED <<req, port, fd>>
        /\ req[c].left > 0
    BY <1>4 DEF GetMsg
  <2>2. /\ io'.pc = "serve" /\ io'.client = c /\ io'.needWrite = FALSE
        /\ io'.sector \in 0 .. NSECTORS - 1
        /\ Pos' + req[c].left <= FLOPPY_SIZE
    BY <1>4, Begins
  <2>3. io'.sector # NSECTORS
    BY <2>2, Sizes
  <2> QED BY <2>1, <2>2, <2>3
<1>5. ASSUME FloppyMotorOff PROVE RequestInv'
  BY <1>5 DEF FloppyMotorOff
<1>6. ASSUME ReadTrack PROVE RequestInv'
  <2>1. /\ MoveTo(READ) /\ io.pc = "serve" /\ io.track \in Track
        /\ UNCHANGED <<req, port>>
    BY <1>6, TrackKnown DEF ReadTrack
  <2>2. PICK p \in {"turned", "settle"} :
          io' = [io EXCEPT !.cmd = READ, !.pc = p] /\ fd'.track = fd.track
    BY <2>1, Turns
  <2>3. io'.pc = p /\ io'.client = io.client /\ io'.track = io.track /\
        io'.sector = io.sector /\ io'.needWrite = io.needWrite /\ Pos' = Pos
    BY <1>0, <2>2 DEF Locals, Pos
  <2> QED BY <2>1, <2>2, <2>3
<1>7. ASSUME WriteTrack PROVE RequestInv'
  <2>1. io.pc = "serve" /\ io.track \in Track /\ UNCHANGED <<req, port>>
    BY <1>7, TrackKnown DEF WriteTrack
  <2>2. CASE WriteProtected
    <3>1. io' = [io EXCEPT !.needWrite = FALSE] /\ fd' = fd
      BY <1>7, <2>2 DEF WriteTrack
    <3>2. io'.pc = io.pc /\ io'.client = io.client /\ io'.track = io.track /\
          io'.sector = io.sector /\ ~ io'.needWrite /\ Pos' = Pos
      BY <1>0, <3>1 DEF Locals, Pos
    <3> QED BY <2>1, <3>1, <3>2
  <2>3. CASE ~ WriteProtected
    <3>1. MoveTo(WRITE)
      BY <1>7, <2>3 DEF WriteTrack
    <3>2. PICK p \in {"turned", "settle"} :
            io' = [io EXCEPT !.cmd = WRITE, !.pc = p] /\ fd'.track = fd.track
      BY <2>1, <3>1, Turns
    <3>3. io'.pc = p /\ io'.client = io.client /\ io'.track = io.track /\
          io'.sector = io.sector /\ io'.needWrite = io.needWrite /\ Pos' = Pos
      BY <1>0, <3>2 DEF Locals, Pos
    <3> QED BY <2>1, <3>2, <3>3
  <2> QED BY <2>2, <2>3
<1>8. ASSUME Travel PROVE RequestInv'
  <2>1. PICK p \in {"stepped", "settle"} : io' = [io EXCEPT !.pc = p]
    BY <1>8, Goes
  <2>2. /\ fd'.track = fd.track /\ io.pc \in {"turned", "stepped"}
        /\ UNCHANGED <<req, port>>
    BY <1>8, Goes DEF Travel
  <2>3. io'.pc = p /\ io'.client = io.client /\ io'.track = io.track /\
        io'.sector = io.sector /\ io'.needWrite = io.needWrite /\ Pos' = Pos
    BY <1>0, <2>1 DEF Locals, Pos
  <2> QED BY <2>1, <2>2, <2>3
<1>9. ASSUME Transfer PROVE RequestInv'
  BY <1>9 DEF Transfer, Locals, Pos
<1>10. ASSUME TransferRead PROVE RequestInv'
  BY <1>10 DEF TransferRead, Locals, Device, Pos
<1>11. ASSUME TransferWritten PROVE RequestInv'
  BY <1>11 DEF TransferWritten, Locals, Pos
<1>12. ASSUME Written PROVE RequestInv'
  BY <1>12 DEF Written, Locals, Pos
<1>13. ASSUME CopySector PROVE RequestInv'
  <2> DEFINE r == req[io.client]
  <2>1. PICK n \in 1 .. r.left, b \in Seq(Byte) :
          /\ io.pc = "serve" /\ io.client \in Clients /\ r \in Request
          /\ io.sector \in Sector /\ fd.track = io.track
          /\ n = SECTOR_SIZE - io.offset \/ n = r.left
          /\ n <= SECTOR_SIZE - io.offset
          /\ req' = [req EXCEPT ![io.client] =
                       [r EXCEPT !.left = r.left - n, !.buf = b]]
          /\ io' = [io EXCEPT !.offset = 0, !.sector = io.sector + 1,
                              !.needWrite = io.needWrite \/ r.write]
          /\ UNCHANGED <<fd, port>>
    BY <1>13, Copies
  <2>2. /\ io'.pc = "serve" /\ io'.client = io.client /\ io'.track = io.track
        /\ io'.sector = io.sector + 1 /\ io'.offset = 0
    BY <1>0, <2>1 DEF Locals
  <2>3. /\ req'[io.client] \in Request /\ req'[io.client].left = r.left - n
        /\ \A c \in Clients : c # io.client => req'[c] = req[c]
    <3>1. r \in Request /\ r.left - n \in Nat
      BY <2>1 DEF Request
    <3> HIDE DEF r
    <3>2. [r EXCEPT !.left = r.left - n, !.buf = b] \in Request
      BY <2>1, <3>1 DEF Request
    <3>3. [r EXCEPT !.left = r.left - n, !.buf = b].left = r.left - n
      BY <3>1 DEF Request
    <3> QED BY <2>1, <3>2, <3>3
  <2>4. req'[io.client] # None
    BY <2>3
  <2>5. req'[io.client].left > 0 =>
          Pos' + req'[io.client].left <= FLOPPY_SIZE
    <3> SUFFICES ASSUME r.left - n > 0
                 PROVE  Pos' + (r.left - n) <= FLOPPY_SIZE
      BY <2>3
    <3>1. /\ io.track \in Nat /\ io.sector \in Nat
          /\ io.offset \in 0 .. SECTOR_SIZE - 1
      BY <1>0, Sizes DEF Locals
    <3>6. r.left \in Nat /\ n \in Nat /\ r.left > 0
      <4>1. r.left \in Nat
        BY <2>1 DEF Request
      <4> HIDE DEF r
      <4> QED BY <4>1
    <3>2. n = SECTOR_SIZE - io.offset
      BY <2>1, <3>1, <3>6, Sizes
    <3>3. Pos' = (io.track * NSECTORS + (io.sector + 1)) * SECTOR_SIZE + 0
      BY <2>2 DEF Pos
    <3>4. /\ (io.track * NSECTORS + (io.sector + 1)) * SECTOR_SIZE
              = (io.track * NSECTORS + io.sector) * SECTOR_SIZE + SECTOR_SIZE
          /\ (io.track * NSECTORS + io.sector) * SECTOR_SIZE \in Nat
      <4>1. /\ io.track * NSECTORS + io.sector \in Nat
            /\ io.track * NSECTORS + (io.sector + 1)
                 = (io.track * NSECTORS + io.sector) + 1
        <5>1. PICK m \in Nat : m = io.track * NSECTORS
          BY <3>1, Sizes, OneMore
        <5>2. m + io.sector \in Nat /\ m + (io.sector + 1) = (m + io.sector) + 1
          BY <3>1
        <5> QED BY <5>1, <5>2
      <4>2. SECTOR_SIZE \in Nat
        BY Sizes
      <4> QED BY <4>1, <4>2, OneMore
    <3>5. Pos + r.left <= FLOPPY_SIZE
      BY <2>1, <3>6
    <3> DEFINE from == (io.track * NSECTORS + io.sector) * SECTOR_SIZE
    <3>7. /\ from \in Nat /\ Pos' = from + SECTOR_SIZE
          /\ from + io.offset + r.left <= FLOPPY_SIZE
      BY <3>3, <3>4, <3>5, Sizes DEF Pos
    <3> HIDE DEF r, from
    <3> QED BY <3>1, <3>2, <3>6, <3>7, Sizes
  <2> HIDE DEF r
  <2> QED BY <2>1, <2>2, <2>3, <2>4, <2>5
<1>14. ASSUME NextTrack PROVE RequestInv'
  <2>1. /\ io.pc = "serve" /\ io.sector = NSECTORS /\ ~ io.needWrite
        /\ io' = [io EXCEPT !.sector = 0, !.track = @ + 1]
        /\ UNCHANGED <<req, port, fd>>
    BY <1>14 DEF NextTrack
  <2>2. /\ io'.pc = "serve" /\ io'.client = io.client /\ ~ io'.needWrite
        /\ io'.sector = 0 /\ io'.track = io.track + 1 /\ io'.offset = io.offset
    BY <1>0, <2>1 DEF Locals
  <2>3. Pos' = Pos
    <3>1. (io.track + 1) * NSECTORS + 0 = io.track * NSECTORS + NSECTORS
      BY <1>0, Sizes DEF Locals
    <3> QED BY <2>1, <2>2, <3>1 DEF Pos
  <2> QED BY <2>1, <2>2, <2>3, Sizes
<1>15. ASSUME ReplyMsg PROVE RequestInv'
  BY <1>15 DEF ReplyMsg, Locals
<1>16. ASSUME NEW c \in Clients, FloppyReadWrite(c) PROVE RequestInv'
  <2>1. PICK r \in Request :
          /\ req[c] = None /\ UNCHANGED <<io, fd, port>>
          /\ req' = [req EXCEPT ![c] = r]
          /\ r.left > 0 /\ r.offset + r.left <= FLOPPY_SIZE
    BY <1>16, Asks
  <2>2. Pos' = Pos /\ r # None
    BY <2>1 DEF Pos
  <2> QED BY <2>1, <2>2
<1>17. ASSUME TimerFires PROVE RequestInv'
  BY <1>17 DEF TimerFires, Pos
<1>18. ASSUME TrackTransferDone PROVE RequestInv'
  BY <1>18 DEF TrackTransferDone, Pos
<1>19. ASSUME MoveTab PROVE RequestInv'
  BY <1>19 DEF MoveTab, Pos
<1>20. ASSUME UNCHANGED vars PROVE RequestInv'
  BY <1>20 DEF vars, Pos
<1>21. ASSUME NEW c \in Clients, DoMsg(c) PROVE RequestInv'
  BY <1>21 DEF DoMsg, Pos
<1> QED BY <1>1, <1>2, <1>3, <1>4, <1>5, <1>6, <1>7, <1>8, <1>9, <1>10, <1>11,
           <1>12, <1>13, <1>14, <1>15, <1>16, <1>17, <1>18, <1>19, <1>20, <1>21
        DEF Next, IoTask, Hardware

----------------------------------------------------------------------------
(* The waits                                                                  *)

(* The timer that has run out while no delay waited for it is not forgotten   *)
LEMMA MissedStays == Core /\ [Next]_vars /\ missed => missed'
<1> SUFFICES ASSUME Core, [Next]_vars, missed PROVE missed'
  OBVIOUS
<1> USE DEF Core, TypeOK, waiting
<1>1. ASSUME Start \/ Outwards \/ Travel \/ TransferWritten PROVE missed'
  BY <1>1, Sets, Delayed DEF Start, Outwards, Travel, TransferWritten
<1>2. ASSUME ReadTrack PROVE missed'
  BY <1>2, Turns DEF ReadTrack
<1>3. ASSUME WriteTrack PROVE missed'
  BY <1>3, Turns DEF WriteTrack
<1>4. ASSUME Home \/ FloppyMotorOff \/ Transfer \/ TransferRead \/ Written
               \/ CopySector \/ NextTrack \/ ReplyMsg
      PROVE  missed'
  BY <1>4 DEF Home, Woken, FloppyMotorOff, Transfer, TransferRead, Written,
     CopySector, NextTrack, ReplyMsg
<1>5. ASSUME NEW c \in Clients, GetMsg(c) \/ FloppyReadWrite(c) \/ DoMsg(c)
      PROVE  missed'
  BY <1>5, Asks DEF GetMsg, DoMsg
<1>6. ASSUME Hardware \/ MoveTab \/ UNCHANGED vars PROVE missed'
  BY <1>6 DEF Hardware, TimerFires, TrackTransferDone, MoveTab, vars
<1> QED BY <1>1, <1>2, <1>3, <1>4, <1>5, <1>6 DEF Next, IoTask

(* The transfer is over when the controller is turned off                     *)
LEMMA Over ==
  ASSUME IInv, TransferRead \/ Written
  PROVE  /\ dma = "done" /\ dma' = "off" /\ irq' = FALSE /\ cut' = FALSE
         /\ ~ timer /\ UNCHANGED <<timer, missed, buffer, disk, refused>>
<1>1. /\ io.pc \in {"transfer", "written"} /\ WaitEnds /\ TransferOff
      /\ UNCHANGED <<timer, missed>>
  BY DEF TransferRead, Written
<1>2. irq /\ cut' = FALSE
  BY <1>1 DEF WaitEnds, IInv, WaitInv, HomeDelays
<1>3. dma = "done" /\ ~ timer
  BY <1>1, <1>2 DEF IInv, Core, TypeOK, WaitInv, Delays, HomeDelays
<1>4. PICK some \in SUBSET Sector :
        Transferred(some) /\ irq' \in {FALSE, (dma # "done" /\ some = Sector)}
  BY <1>1 DEF TransferOff
<1>5. irq' = FALSE
  BY <1>3, <1>4
<1>6. UNCHANGED <<buffer, disk, refused>>
  BY <1>3, <1>4 DEF Transferred, READ, WRITE, IInv, Core, TypeOK
<1> QED BY <1>1, <1>2, <1>3, <1>5, <1>6 DEF TransferOff

LEMMA WaitStep == IInv /\ [Next]_vars /\ ~ missed' => WaitInv'
<1> SUFFICES ASSUME IInv, [Next]_vars, ~ missed' PROVE WaitInv'
  OBVIOUS
<1>over. TransferRead \/ Written =>
           ~ timer' /\ irq' = FALSE /\ cut' = FALSE /\ dma' = "off"
  BY Over
<1> USE DEF IInv, Core, TypeOK, WaitInv, Moving, READ, WRITE, Delays, HomeDelays,
            Homing, waiting
<1>0. io.cmd \in {READ, WRITE} /\ io \in Locals /\ fd \in Device
  BY DEF Locals
<1>1. ASSUME Start PROVE WaitInv'
  <2>1. timer' = TRUE /\ irq' = FALSE
    BY <1>1, Sets DEF Start
  <2>2. io.pc = "start" /\ io'.pc = "turned out" /\ UNCHANGED <<port, dma, cut>>
    BY <1>0, <1>1 DEF Start, Locals
  <2>3. fd'.track = fd.track
    BY <1>0, <1>1 DEF Start, HeadsStepDirection, Device
  <2> QED BY <2>1, <2>2, <2>3
<1>2. ASSUME Outwards PROVE WaitInv'
  <2>1. /\ io'.pc \in {"home", "stepped out"} /\ fd'.track = fd.track
        /\ io.pc \in {"turned out", "stepped out"}
    BY <1>2, Outs
  <2>2. /\ timer' = TRUE /\ irq' = FALSE /\ cut' = FALSE
        /\ UNCHANGED <<port, dma>>
    BY <1>2, Delayed DEF Outwards
  <2> QED BY <2>1, <2>2
<1>3. ASSUME Home PROVE WaitInv'
  <2>1. /\ io.pc = "home" /\ io'.pc = "idle" /\ fd'.track = fd.track
        /\ UNCHANGED <<port, timer, dma>> /\ irq' = FALSE /\ cut' = FALSE
        /\ irq \/ cut
    BY <1>0, <1>3 DEF Home, Woken, WaitEnds, Locals, Device
  <2> QED BY <2>1
<1>4. ASSUME NEW c \in Clients, GetMsg(c) PROVE WaitInv'
  <2>1. /\ io'.pc = "serve" /\ io.pc = "idle" /\ io'.client = c
        /\ req[c].left > 0 /\ UNCHANGED <<req, port, fd, dma, waiting>>
    BY <1>4, Begins DEF GetMsg
  <2> QED BY <2>1
<1>5. ASSUME FloppyMotorOff PROVE WaitInv'
  <2>1. /\ fd'.track = fd.track /\ io.pc = "idle"
        /\ UNCHANGED <<req, port, io, dma, waiting>>
    BY <1>0, <1>5 DEF FloppyMotorOff, Device
  <2> QED BY <2>1
<1>6. ASSUME NEW cmd \in {READ, WRITE}, MoveTo(cmd), io.pc = "serve",
             UNCHANGED <<port, dma, cut>>
      PROVE  WaitInv'
  <2>1. timer' = TRUE /\ irq' = FALSE /\ io'.pc \in {"turned", "settle"}
    BY <1>6, Turns
  <2> QED BY <1>6, <2>1
<1>7. ASSUME ReadTrack PROVE WaitInv'
  BY <1>6, <1>7 DEF ReadTrack
<1>8. ASSUME WriteTrack PROVE WaitInv'
  <2>1. io.pc = "serve" /\ UNCHANGED <<port, dma, cut, req>>
    BY <1>8 DEF WriteTrack
  <2>2. CASE WriteProtected
    <3>1. io' = [io EXCEPT !.needWrite = FALSE] /\ UNCHANGED <<fd, timer, irq>>
      BY <1>8, <2>2 DEF WriteTrack
    <3>2. io'.pc = "serve" /\ io'.client = io.client
      BY <1>0, <2>1, <3>1 DEF Locals
    <3> QED BY <2>1, <3>1, <3>2
  <2>3. CASE ~ WriteProtected
    BY <1>6, <1>8, <2>1, <2>3 DEF WriteTrack
  <2> QED BY <2>2, <2>3
<1>9. ASSUME Travel PROVE WaitInv'
  <2>1. io'.pc \in {"stepped", "settle"} /\ io.pc \in {"turned", "stepped"}
    BY <1>9, Goes DEF Travel
  <2>2. timer' = TRUE /\ irq' = FALSE /\ cut' = FALSE /\ dma' = dma
    BY <1>9, Delayed DEF Travel
  <2> QED BY <2>1, <2>2
<1>10. ASSUME Transfer PROVE WaitInv'
  <2>1. /\ io.pc = "settle" /\ io'.pc = "transfer" /\ io'.cmd = io.cmd
        /\ dma' = io.cmd /\ irq' = FALSE /\ cut' = FALSE /\ timer' = timer
        /\ irq \/ cut
    BY <1>0, <1>10 DEF Transfer, Woken, WaitEnds, Locals
  <2> QED BY <1>0, <2>1
<1>11. ASSUME TransferRead PROVE WaitInv'
  <2>1. io'.pc = "serve"
    BY <1>0, <1>11 DEF TransferRead, Locals
  <2>2. ~ timer' /\ irq' = FALSE /\ cut' = FALSE /\ dma' = "off"
    BY <1>over, <1>11
  <2> QED BY <2>1, <2>2
<1>12. ASSUME TransferWritten PROVE WaitInv'
  <2>1. /\ io.pc = "transfer" /\ io'.pc = "written" /\ io'.cmd = WRITE
        /\ dma' = dma
    BY <1>0, <1>12 DEF TransferWritten, Locals
  <2>2. /\ timer' = TRUE /\ irq' = FALSE /\ cut' = FALSE /\ (irq \/ cut)
    BY <1>12, Delayed DEF TransferWritten
  <2> QED BY <2>1, <2>2
<1>13. ASSUME Written PROVE WaitInv'
  <2>1. io'.pc = "serve"
    BY <1>0, <1>13 DEF Written, Locals
  <2>2. ~ timer' /\ irq' = FALSE /\ cut' = FALSE /\ dma' = "off"
    BY <1>over, <1>13
  <2> QED BY <2>1, <2>2
<1>14. ASSUME CopySector PROVE WaitInv'
  <2>1. /\ io.pc = "serve" /\ io'.pc = "serve" /\ fd.track = io.track
        /\ UNCHANGED <<port, fd, dma, waiting>>
    BY <1>0, <1>14 DEF CopySector, Locals
  <2>2. ~ timer
    BY <1>0, <2>1 DEF Locals
  <2> QED BY <2>1, <2>2
<1>15. ASSUME NextTrack PROVE WaitInv'
  <2>1. /\ io.pc = "serve" /\ io'.pc = "serve" /\ io'.client = io.client
        /\ UNCHANGED <<req, port, fd, dma, waiting>>
    BY <1>0, <1>15 DEF NextTrack, Locals
  <2> QED BY <2>1
<1>16. ASSUME ReplyMsg PROVE WaitInv'
  <2>1. /\ io.pc = "serve" /\ io'.pc = "idle" /\ req[io.client].left = 0
        /\ UNCHANGED <<fd, dma, waiting>>
    BY <1>0, <1>16 DEF ReplyMsg, Locals
  <2>2. ~ timer /\ ~ cut
    BY <2>1
  <2> QED BY <2>1, <2>2
<1>17. ASSUME NEW c \in Clients, FloppyReadWrite(c) PROVE WaitInv'
  <2>1. /\ req[c] = None /\ UNCHANGED <<port, io, fd, dma, waiting>>
        /\ \E r : req' = [req EXCEPT ![c] = r]
    BY <1>17, Asks
  <2>2. io.pc = "serve" => req'[io.client] = req[io.client]
    BY <2>1 DEF RequestInv, Serving
  <2> QED BY <2>1, <2>2
<1>18. ASSUME TimerFires PROVE WaitInv'
  <2>1. /\ timer' = FALSE /\ irq' = TRUE /\ io.pc \in Delays
        /\ UNCHANGED <<req, port, io, fd, dma, cut>>
    BY <1>18 DEF TimerFires
  <2> QED BY <2>1
<1>19. ASSUME TrackTransferDone PROVE WaitInv'
  <2>1. /\ dma \in {READ, WRITE} /\ dma' = "done" /\ irq' = TRUE
        /\ UNCHANGED <<req, port, io, fd, timer, cut>>
    BY <1>19 DEF TrackTransferDone
  <2>2. io.pc = "transfer"
    BY <2>1
  <2> QED BY <2>1, <2>2
<1>20. ASSUME MoveTab PROVE WaitInv'
  BY <1>20 DEF MoveTab
<1>21. ASSUME NEW c \in Clients, DoMsg(c) PROVE WaitInv'
  BY <1>21 DEF DoMsg
<1>22. ASSUME UNCHANGED vars PROVE WaitInv'
  BY <1>22 DEF vars
<1> QED BY <1>1, <1>2, <1>3, <1>4, <1>5, <1>7, <1>8, <1>9, <1>10, <1>11, <1>12,
           <1>13, <1>14, <1>15, <1>16, <1>17, <1>18, <1>19, <1>20, <1>21, <1>22
        DEF Next, IoTask, Hardware

----------------------------------------------------------------------------
(* The heads                                                                  *)

LEMMA HeadStep == IInv /\ [Next]_vars /\ ~ missed' => HeadInv'
<1> SUFFICES ASSUME IInv, [Next]_vars, ~ missed' PROVE HeadInv'
  OBVIOUS
<1> USE DEF IInv, Core, TypeOK, HeadInv, Busy, Moving, Homing, HomeDelays, READ,
            WRITE
<1>0. io \in Locals /\ fd \in Device /\ drive \in Heads
  OBVIOUS
<1>1. ASSUME Start PROVE HeadInv'
  BY <1>1 DEF Start, Locals
<1>2. ASSUME Outwards PROVE HeadInv'
  BY <1>2, Outs
<1>3. ASSUME Home PROVE HeadInv'
  <2>1. /\ io.pc = "home" /\ drive.cylinder = 0
        /\ fd' = [fd EXCEPT !.headTrk = 0] /\ drive' = [drive EXCEPT !.side = 0]
        /\ io' = [io EXCEPT !.pc = "idle"]
    BY <1>3 DEF Home
  <2>2. io'.pc = "idle" /\ fd'.headTrk = 0
    BY <1>0, <2>1 DEF Locals, Device
  <2>3. Under' = 0
    BY <1>0, <2>1 DEF Heads, Under
  <2> QED BY <2>2, <2>3 DEF Stepped
<1>4. ASSUME NEW c \in Clients, GetMsg(c) PROVE HeadInv'
  <2>1. /\ io'.pc = "serve" /\ io.pc = "idle" /\ UNCHANGED <<fd, drive>>
    BY <1>4, Begins DEF GetMsg
  <2> QED BY <2>1 DEF Stepped, Under
<1>5. ASSUME FloppyMotorOff PROVE HeadInv'
  <2>1. /\ io.pc = "idle" /\ UNCHANGED <<io, drive>> /\ fd'.headTrk = fd.headTrk
    BY <1>5 DEF FloppyMotorOff, Device
  <2> QED BY <2>1 DEF Stepped, Under
<1>6. ASSUME NEW cmd \in {READ, WRITE}, MoveTo(cmd), io.pc = "serve",
             io.track \in Track
      PROVE  HeadInv'
  <2>1. /\ io'.pc \in {"turned", "settle"} /\ io'.track = io.track
        /\ fd'.motorOn /\ fd'.headTrk = Under' /\ drive'.side = io.track % 2
        /\ io'.pc = "settle" => Under' = io.track
        /\ io'.pc = "turned" =>
             /\ fd'.headDir = IF drive'.inwards THEN 2 ELSE -2
             /\ IF drive'.inwards THEN Under' <= io.track
                ELSE Under' >= io.track
    <3>1. PICK p \in {"turned", "settle"} :
            io' = [io EXCEPT !.cmd = cmd, !.pc = p]
      BY <1>6, Moves
    <3>2. io'.track = io.track
      BY <1>0, <3>1 DEF Locals
    <3> QED BY <1>6, <3>2, Moves
  <2>2. Stepped("stepped")' = fd'
    BY <2>1 DEF Stepped
  <2> QED BY <2>1, <2>2
<1>7. ASSUME ReadTrack PROVE HeadInv'
  BY <1>6, <1>7, TrackKnown DEF ReadTrack
<1>8. ASSUME WriteTrack PROVE HeadInv'
  <2>1. io.pc = "serve" /\ io.track \in Track
    BY <1>8, TrackKnown DEF WriteTrack
  <2>2. CASE WriteProtected
    <3>1. io' = [io EXCEPT !.needWrite = FALSE] /\ fd' = fd /\ drive' = drive
      BY <1>8, <2>2 DEF WriteTrack
    <3>2. io'.pc = "serve"
      BY <1>0, <2>1, <3>1 DEF Locals
    <3> QED BY <2>1, <3>1, <3>2 DEF Stepped, Under
  <2>3. CASE ~ WriteProtected
    BY <1>6, <1>8, <2>1, <2>3 DEF WriteTrack
  <2> QED BY <2>2, <2>3
<1>9. ASSUME Travel PROVE HeadInv'
  <2>1. PICK p \in {"stepped", "settle"} : io' = [io EXCEPT !.pc = p]
    BY <1>9, Travels
  <2>2. io'.pc = p /\ io'.track = io.track
    BY <1>0, <2>1 DEF Locals
  <2>3. /\ io.pc \in {"turned", "stepped"}
        /\ fd' = [fd EXCEPT !.headTrk = Under]
        /\ drive' = [drive EXCEPT !.cylinder = drive'.cylinder]
    BY <1>9, Travels DEF Travel
  <2>4. Under \in Int
    BY <1>0, UnderInt
  <2>5. /\ fd' \in Device /\ fd'.headTrk = Under /\ fd'.headDir = fd.headDir
        /\ fd'.motorOn = fd.motorOn
        /\ drive'.side = drive.side /\ drive'.inwards = drive.inwards
    BY <1>0, <2>3, <2>4 DEF Device, Heads
  <2>6. CASE p = "settle"
    <3>1. io'.pc = "settle" /\ Under' = io.track
      BY <1>9, <2>2, <2>6, Travels
    <3>2. drive' = drive
      <4>1. CASE io.track # fd'.headTrk
        <5>1. io' = [io EXCEPT !.pc = "stepped"]
          BY <1>9, <4>1 DEF Travel
        <5> QED BY <1>0, <3>1, <5>1 DEF Locals
      <4>2. CASE io.track = fd'.headTrk
        BY <1>9, <4>2 DEF Travel
      <4> QED BY <4>1, <4>2
    <3> QED BY <2>2, <2>3, <2>5, <3>1, <3>2 DEF Stepped, Under
  <2>7. CASE p = "stepped"
    <3>1. /\ io'.pc = "stepped" /\ Under' = Under + fd.headDir
          /\ IF drive.inwards THEN Under' <= io.track ELSE Under' >= io.track
      BY <1>9, <2>2, <2>7, Travels
    <3>2. Stepped("stepped")' = [fd' EXCEPT !.headTrk = @ + fd'.headDir]
      BY <3>1 DEF Stepped
    <3>3. Stepped("stepped")'.headTrk = Under'
      BY <2>5, <3>1, <3>2 DEF Device
    <3> QED BY <2>2, <2>3, <2>5, <3>1, <3>3
  <2> QED BY <2>1, <2>6, <2>7
<1>10. ASSUME Transfer PROVE HeadInv'
  BY <1>0, <1>10 DEF Transfer, Stepped, Under, Locals
<1>11. ASSUME TransferRead PROVE HeadInv'
  <2>1. /\ io'.pc = "serve" /\ io.pc = "transfer"
        /\ drive' = drive /\ fd'.headTrk = fd.headTrk
    BY <1>0, <1>11 DEF TransferRead, Locals, Device
  <2> QED BY <2>1 DEF Stepped, Under
<1>12. ASSUME TransferWritten PROVE HeadInv'
  BY <1>0, <1>12 DEF TransferWritten, Stepped, Under, Locals
<1>13. ASSUME Written PROVE HeadInv'
  BY <1>0, <1>13 DEF Written, Stepped, Under, Locals
<1>14. ASSUME CopySector PROVE HeadInv'
  <2>1. UNCHANGED <<fd, drive>> /\ io.pc = "serve" /\ io'.pc = "serve"
    BY <1>0, <1>14 DEF CopySector, Locals
  <2> QED BY <2>1 DEF Stepped, Under
<1>15. ASSUME NextTrack PROVE HeadInv'
  BY <1>0, <1>15 DEF NextTrack, Stepped, Under, Locals
<1>16. ASSUME ReplyMsg PROVE HeadInv'
  BY <1>0, <1>16 DEF ReplyMsg, Stepped, Under, Locals
<1>17. ASSUME NEW c \in Clients, FloppyReadWrite(c) PROVE HeadInv'
  <2>1. UNCHANGED <<io, fd, drive>>
    BY <1>17, Asks
  <2> QED BY <2>1 DEF Stepped, Under
<1>18. ASSUME \/ TimerFires \/ TrackTransferDone \/ MoveTab \/ UNCHANGED vars
              \/ \E c \in Clients : DoMsg(c)
       PROVE  HeadInv'
  <2>1. UNCHANGED <<io, fd, drive>>
    BY <1>18 DEF TimerFires, TrackTransferDone, MoveTab, vars, DoMsg
  <2> QED BY <2>1 DEF Stepped, Under
<1> QED BY <1>1, <1>2, <1>3, <1>4, <1>5, <1>7, <1>8, <1>9, <1>10, <1>11,
           <1>12, <1>13, <1>14, <1>15, <1>16, <1>17, <1>18
        DEF Next, IoTask, Hardware

----------------------------------------------------------------------------
(* The cache                                                                  *)

LEMMA CacheStep == IInv /\ [Next]_vars /\ ~ missed' => CacheInv'
<1> SUFFICES ASSUME IInv, [Next]_vars, ~ missed', ~ refused' PROVE CacheInv'
  BY DEF CacheInv
<1>off. TransferRead \/ Written =>
          dma = "done" /\ dma' = "off" /\ UNCHANGED <<buffer, disk, refused>>
  BY Over
<1>whole. TrackTransferDone =>
            /\ buffer' = IF dma = READ THEN disk[Under] ELSE buffer
            /\ disk' = IF dma = WRITE /\ ~ protect
                       THEN [disk EXCEPT ![Under] = buffer] ELSE disk
            /\ refused' = (refused \/ (dma = WRITE /\ protect))
  BY WholeTrack DEF TrackTransferDone, IInv, Core
<1> USE DEF IInv, Core, TypeOK, Busy, Moving, READ, WRITE
<1>0. /\ io \in Locals /\ fd \in Device /\ drive \in Heads
      /\ io.cmd \in {READ, WRITE}
  BY DEF Locals
<1>1. ASSUME Start PROVE CacheInv'
  <2>1. io.pc = "start" /\ io' = [io EXCEPT !.pc = "turned out"] /\ dma' = dma
        /\ fd' = HeadsStepDirection([fd EXCEPT !.motorOn = TRUE], FALSE)
        /\ UNCHANGED media
    BY <1>1 DEF Start
  <2>2. io'.pc = "turned out" /\ io'.needWrite = io.needWrite
    BY <1>0, <2>1 DEF Locals
  <2>3. fd'.track = fd.track
    BY <1>0, <2>1 DEF Device, HeadsStepDirection
  <2> QED BY <2>1, <2>2, <2>3 DEF CacheInv, media
<1>2. ASSUME Outwards PROVE CacheInv'
  <2>1. /\ io' = [io EXCEPT !.pc = io'.pc] /\ io'.pc \in {"home", "stepped out"}
        /\ io.pc \in {"turned out", "stepped out"} /\ fd'.track = fd.track
        /\ UNCHANGED media
    BY <1>2, Outs DEF Outwards
  <2>2. io'.needWrite = io.needWrite
    BY <1>0, <2>1 DEF Locals
  <2> QED BY <2>1, <2>2 DEF CacheInv, media
<1>3. ASSUME Home PROVE CacheInv'
  <2>1. io.pc = "home" /\ io'.pc = "idle" /\ io'.needWrite = io.needWrite
        /\ fd'.track = fd.track /\ UNCHANGED media
    BY <1>0, <1>3 DEF Home, Locals, Device
  <2> QED BY <2>1 DEF CacheInv, media
<1>4. ASSUME NEW c \in Clients, GetMsg(c) PROVE CacheInv'
  <2>1. io.pc = "idle" /\ io'.pc = "serve" /\ UNCHANGED <<fd, media>>
    BY <1>4, Begins DEF GetMsg
  <2>2. ~ io.needWrite
    BY <2>1 DEF RequestInv, Serving
  <2> QED BY <2>1, <2>2 DEF CacheInv, media
<1>5. ASSUME FloppyMotorOff PROVE CacheInv'
  <2>1. UNCHANGED <<io, dma, media>> /\ fd'.track = fd.track
    BY <1>0, <1>5 DEF FloppyMotorOff, Device
  <2> QED BY <2>1 DEF CacheInv, media
<1>6. ASSUME ReadTrack PROVE CacheInv'
  <2>1. /\ MoveTo(READ) /\ io.pc = "serve" /\ io.track \in Track
        /\ fd.track # io.track /\ UNCHANGED <<media, dma>>
    BY <1>6, TrackKnown DEF ReadTrack
  <2>2. PICK p \in {"turned", "settle"} :
          io' = [io EXCEPT !.cmd = READ, !.pc = p] /\ fd'.track = fd.track
    BY <2>1, Turns
  <2>3. io'.pc = p /\ io'.cmd = READ /\ io'.needWrite = io.needWrite
    BY <1>0, <2>2 DEF Locals
  <2>4. ~ io.needWrite /\ dma = "off"
    BY <2>1 DEF RequestInv, Serving, WaitInv
  <2> QED BY <2>1, <2>2, <2>3, <2>4 DEF CacheInv, media
<1>7. ASSUME WriteTrack PROVE CacheInv'
  <2>1. /\ io.pc = "serve" /\ io.track \in Track /\ io.needWrite /\ dma' = dma
        /\ ~ WriteProtected /\ MoveTo(WRITE)
        /\ state' = [s \in Sector |-> state[s] \ {"DIRTY"}]
        /\ buffer' = [s \in Sector |->
                        IF "DIRTY" \in state[s] THEN raw[s] ELSE buffer[s]]
        /\ UNCHANGED <<raw, disk, refused>>
    BY <1>7, TrackKnown DEF WriteTrack
  <2>2. PICK p \in {"turned", "settle"} :
          io' = [io EXCEPT !.cmd = WRITE, !.pc = p] /\ fd'.track = fd.track
    BY <2>1, Turns
  <2>3. io'.pc = p /\ io'.cmd = WRITE /\ io'.track = io.track
    BY <1>0, <2>2 DEF Locals
  <2>4. io.track = fd.track /\ dma = "off"
    BY <2>1 DEF RequestInv, Serving, WaitInv
  <2>5. \A s \in Sector : "DECODED" \in state'[s] => raw'[s] = buffer'[s]
    BY <2>1 DEF CacheInv
  <2>6. \A s \in Sector : "DIRTY" \notin state'[s]
    BY <2>1
  <2> QED BY <2>1, <2>2, <2>3, <2>4, <2>5, <2>6 DEF CacheInv
<1>8. ASSUME Travel PROVE CacheInv'
  <2>1. PICK p \in {"stepped", "settle"} : io' = [io EXCEPT !.pc = p]
    BY <1>8, Goes
  <2>2. /\ fd'.track = fd.track /\ io.pc \in {"turned", "stepped"}
        /\ UNCHANGED <<dma, media>>
    BY <1>0, <1>8, Goes DEF Travel, Device
  <2>3. io'.pc = p /\ io'.track = io.track /\ io'.cmd = io.cmd
        /\ io'.needWrite = io.needWrite
    BY <1>0, <2>1 DEF Locals
  <2> QED BY <2>1, <2>2, <2>3 DEF CacheInv, media
<1>9. ASSUME Transfer PROVE CacheInv'
  <2>1. /\ io.pc = "settle" /\ io'.pc = "transfer" /\ io'.track = io.track
        /\ io'.cmd = io.cmd /\ io'.needWrite = io.needWrite
        /\ dma' = io.cmd /\ UNCHANGED <<fd, media>>
    BY <1>0, <1>9 DEF Transfer, Locals
  <2> QED BY <1>0, <2>1 DEF CacheInv, media
<1>10. ASSUME TransferRead PROVE CacheInv'
  <2>1. /\ io.pc = "transfer" /\ io'.pc = "serve" /\ io.cmd = READ
        /\ state' = [s \in Sector |-> {}] /\ dma' = "off"
        /\ UNCHANGED <<raw, buffer, disk, refused>>
    BY <1>off, <1>0, <1>10 DEF TransferRead, Locals, Forget
  <2>2. fd'.track = io.track
    BY <1>0, <1>10 DEF TransferRead, Device
  <2>3. dma = "done"
    BY <1>off, <1>10
  <2> QED BY <2>1, <2>2, <2>3 DEF CacheInv
<1>11. ASSUME TransferWritten PROVE CacheInv'
  <2>1. /\ io.pc = "transfer" /\ io'.pc = "written" /\ io'.track = io.track
        /\ io'.cmd = io.cmd /\ io'.needWrite = io.needWrite
        /\ UNCHANGED <<fd, dma, media>>
    BY <1>0, <1>11 DEF TransferWritten, Locals
  <2> QED BY <2>1 DEF CacheInv, media
<1>12. ASSUME Written PROVE CacheInv'
  <2>1. /\ io.pc = "written" /\ io'.pc = "serve" /\ io'.track = io.track
        /\ UNCHANGED <<fd, media>>
    BY <1>off, <1>0, <1>12 DEF Written, Locals, media
  <2>2. io.cmd = WRITE /\ dma = "done"
    BY <2>1 DEF WaitInv
  <2> QED BY <2>1, <2>2 DEF CacheInv, media
<1>13. ASSUME CopySector PROVE CacheInv'
  <2> DEFINE r == req[io.client]
  <2>1. PICK new \in Data :
          /\ io.pc = "serve" /\ io.client \in Clients /\ r \in Request
          /\ io.sector \in Sector /\ fd.track = io.track
          /\ ~ r.write => new = (IF "DECODED" \in state[io.sector]
                                 THEN raw[io.sector] ELSE buffer[io.sector])
          /\ raw' = [raw EXCEPT ![io.sector] = new]
          /\ state' = [state EXCEPT ![io.sector] = @ \cup Marks(r.write)]
          /\ io' = [io EXCEPT !.offset = 0, !.sector = io.sector + 1,
                              !.needWrite = io.needWrite \/ r.write]
          /\ UNCHANGED <<fd, dma, buffer, disk, refused>>
    BY <1>13, Copies
  <2>2. r.write \in BOOLEAN /\ io.needWrite \in BOOLEAN
    BY <1>0, <2>1 DEF Request, Locals
  <2> HIDE DEF r
  <2>3. io'.pc = "serve" /\ io'.needWrite = (io.needWrite \/ r.write)
    BY <1>0, <2>1, <2>2 DEF Locals
  <2>4. \A s \in Sector : "DIRTY" \in state'[s] =>
          "DECODED" \in state'[s] /\ io'.needWrite
    BY <2>1, <2>2, <2>3 DEF Marks, CacheInv
  <2>5. \A s \in Sector : "DECODED" \in state'[s] /\ "DIRTY" \notin state'[s]
          => raw'[s] = buffer'[s]
    BY <2>1, <2>2 DEF Marks, CacheInv
  <2> QED BY <2>1, <2>3, <2>4, <2>5 DEF CacheInv
<1>14. ASSUME NextTrack PROVE CacheInv'
  <2>1. io.pc = "serve" /\ io'.pc = "serve" /\ io'.needWrite = io.needWrite
        /\ UNCHANGED <<fd, dma, media>>
    BY <1>0, <1>14 DEF NextTrack, Locals
  <2> QED BY <2>1 DEF CacheInv, media
<1>15. ASSUME ReplyMsg PROVE CacheInv'
  <2>1. io.pc = "serve" /\ io'.pc = "idle" /\ io'.needWrite = io.needWrite
        /\ UNCHANGED <<fd, dma, media>>
    BY <1>0, <1>15 DEF ReplyMsg, Locals
  <2> QED BY <2>1 DEF CacheInv, media
<1>16. ASSUME NEW c \in Clients, FloppyReadWrite(c) PROVE CacheInv'
  <2>1. UNCHANGED <<io, fd, dma, media>>
    BY <1>16, Asks
  <2> QED BY <2>1 DEF CacheInv, media
<1>17. ASSUME TrackTransferDone PROVE CacheInv'
  <2>1. /\ dma \in {READ, WRITE} /\ dma' = "done"
        /\ UNCHANGED <<io, fd, state, raw>>
        /\ buffer' = IF dma = READ THEN disk[Under] ELSE buffer
        /\ disk' = IF dma = WRITE THEN [disk EXCEPT ![Under] = buffer] ELSE disk
        /\ ~ refused
    BY <1>whole, <1>17 DEF TrackTransferDone
  <2>2. io.pc = "transfer" /\ dma = io.cmd
    BY <2>1 DEF WaitInv
  <2>3. Under = io.track /\ io.track \in Track
    BY <2>2 DEF HeadInv, RequestInv
  <2>4. buffer' = disk'[io.track]
    BY <2>1, <2>2, <2>3
  <2> QED BY <2>1, <2>2, <2>4 DEF CacheInv
<1>18. ASSUME \/ TimerFires \/ MoveTab \/ UNCHANGED vars
              \/ \E c \in Clients : DoMsg(c)
       PROVE  CacheInv'
  <2>1. UNCHANGED <<io, fd, dma, state, raw, buffer, disk, refused>>
    BY <1>18 DEF TimerFires, MoveTab, vars, media, DoMsg
  <2> QED BY <2>1 DEF CacheInv
<1> QED BY <1>1, <1>2, <1>3, <1>4, <1>5, <1>6, <1>7, <1>8, <1>9, <1>10, <1>11,
           <1>12, <1>13, <1>14, <1>15, <1>16, <1>17, <1>18
        DEF Next, IoTask, Hardware

----------------------------------------------------------------------------
(* The theorems                                                               *)

LEMMA InvariantHolds == Spec => [](Core /\ (~ missed => IInv))
<1> DEFINE Inv == Core /\ (~ missed => IInv)
<1>1. Init => Inv
  BY InitInv DEF IInv
<1>2. Inv /\ [Next]_vars => Inv'
  <2> SUFFICES ASSUME Inv, [Next]_vars PROVE Inv'
    OBVIOUS
  <2>1. Core'
    BY TypesStep, RequestStep DEF Core
  <2>2. ASSUME ~ missed' PROVE IInv'
    <3>1. IInv
      BY <2>2, MissedStays
    <3>2. WaitInv' /\ HeadInv' /\ CacheInv'
      BY <2>2, <3>1, WaitStep, HeadStep, CacheStep
    <3> QED BY <2>1, <3>2 DEF IInv
  <2> QED BY <2>1, <2>2
<1> QED BY <1>1, <1>2, PTL DEF Spec

(* The variables have their types whatever is asked for and whatever ends a   *)
(* wait: no request takes the task past the last track of the disk or the     *)
(* last byte of a sector (FloppyIoTask)                                       *)
THEOREM TypeCorrect == Spec => []TypeOK
<1>1. Core => TypeOK
  BY DEF Core
<1> QED BY <1>1, InvariantHolds, PTL

(* The driver knows which track is under the heads, and a transfer begins     *)
(* only above the track that it is for (StepHeads, FloppyReadWriteTrack),     *)
(* also after a request has cut a delay short                                 *)
THEOREM HeadsKnownHolds == Spec => []HeadsKnown
<1>1. (~ missed => IInv) => HeadsKnown
  BY DEF IInv, Core, HeadsKnown, WaitInv, HeadInv, Busy, Moving, Delays, HomeDelays,
     READ, WRITE
<1> QED BY <1>1, InvariantHolds, PTL

(* A wait for NB_IRQ ends with what it waited for, but for a delay that the   *)
(* first request cuts short; no other wait takes what that delay leaves       *)
(* behind (WaitTimerSleep, FloppyReadWriteTrack, DoMsg)                       *)
THEOREM NoStrayWakeupHolds == Spec => []NoStrayWakeup
<1>1. (~ missed => IInv) => NoStrayWakeup
  <2> SUFFICES ASSUME IInv PROVE NoStrayWakeup
    BY DEF NoStrayWakeup
  <2>1. io.pc \in Label /\ timer \in BOOLEAN /\ irq \in BOOLEAN
    BY DEF IInv, Core, TypeOK, Locals
  <2>2. /\ irq => ~ timer /\ dma \notin {READ, WRITE}
        /\ ~ (timer /\ dma \in {READ, WRITE})
        /\ io.pc \in {"idle", "serve", "start"} => ~ irq /\ dma = "off"
    BY <2>1 DEF IInv, WaitInv, Delays, HomeDelays, Label, READ, WRITE
  <2>3. cut \/ (timer /\ io.pc \notin Delays) => port # None /\ fd.track = -1
    BY DEF IInv, WaitInv, Homing
  <2> QED BY <2>2, <2>3 DEF NoStrayWakeup
<1> QED BY <1>1, InvariantHolds, PTL

(* A write that has been answered is on the disk, unless the disk was         *)
(* protected (FloppyIoTask)                                                   *)
THEOREM WrittenThroughHolds == Spec => []WrittenThrough
<1>1. (~ missed => IInv) => WrittenThrough
  BY DEF IInv, Core, WrittenThrough, RequestInv, CacheInv, Serving, Busy, Moving
<1> QED BY <1>1, InvariantHolds, PTL

----------------------------------------------------------------------------
(* Places on the disk, as tracks, sectors and bytes                           *)

TrackOf(p) == p \div TRACK_SIZE
SectorOf(p) == (p \div SECTOR_SIZE) % NSECTORS
ByteOf(p) == p % SECTOR_SIZE
PlaceOf(t, s, o) == (t * NSECTORS + s) * SECTOR_SIZE + o

LEMMA ModuloUnique ==
  ASSUME NEW p \in Nat, NEW n \in Nat \ {0}, NEW u \in Nat,
         NEW w \in 0 .. n - 1, p = u * n + w
  PROVE  p % n = w
<1>1. PICK q \in Nat, r \in 0 .. n - 1 : q = p \div n /\ r = p % n /\ p = q * n + r
  BY Division, Zenon
<1>2. p \div n = u
  BY DivisionUnique
<1>3. p = u * n + r /\ u * n \in Nat
  BY <1>1, <1>2
<1>4. r = w
  BY <1>3
<1> QED BY <1>1, <1>4

LEMMA WithinTrack ==
  ASSUME NEW a \in Nat \ {0}, NEW b \in Nat \ {0},
         NEW v \in 0 .. a - 1, NEW r \in 0 .. b - 1
  PROVE  v * b + r \in 0 .. a * b - 1
<1>1. a - 1 \in Nat /\ b \in Nat /\ v \in Nat /\ v <= a - 1
  OBVIOUS
<1>2. v * b <= (a - 1) * b
  BY <1>1, Ordered, Zenon
<1>3. (a - 1) * b = a * b - b /\ v * b \in Nat /\ a * b \in Nat
  OBVIOUS
<1> QED BY <1>2, <1>3

LEMMA PlaceUnique ==
  ASSUME NEW t \in Nat, NEW s \in Sector, NEW o \in 0 .. SECTOR_SIZE - 1
  PROVE  /\ TrackOf(PlaceOf(t, s, o)) = t /\ SectorOf(PlaceOf(t, s, o)) = s
         /\ ByteOf(PlaceOf(t, s, o)) = o /\ PlaceOf(t, s, o) \in Nat
<1> DEFINE p == (t * NSECTORS + s) * SECTOR_SIZE + o
<1>1. /\ NSECTORS \in Nat \ {0} /\ SECTOR_SIZE \in Nat \ {0}
      /\ s \in 0 .. NSECTORS - 1 /\ s \in Nat /\ o \in Nat
  BY Sizes DEF Sector
<1>2. t * NSECTORS \in Nat /\ t * NSECTORS + s \in Nat /\ p \in Nat
  BY <1>1
<1>3. p \div SECTOR_SIZE = t * NSECTORS + s /\ p % SECTOR_SIZE = o
  BY <1>1, <1>2, DivisionUnique, ModuloUnique
<1>4. (t * NSECTORS + s) % NSECTORS = s
  BY <1>1, <1>2, ModuloUnique
<1>5. p = t * TRACK_SIZE + (s * SECTOR_SIZE + o)
  <2>1. (t * NSECTORS + s) * SECTOR_SIZE = t * (NSECTORS * SECTOR_SIZE) + s * SECTOR_SIZE
    BY <1>1
  <2>2. t * (NSECTORS * SECTOR_SIZE) \in Nat /\ s * SECTOR_SIZE \in Nat
    BY <1>1
  <2> QED BY <1>1, <2>1, <2>2 DEF TRACK_SIZE
<1>6. s * SECTOR_SIZE + o \in 0 .. TRACK_SIZE - 1
  BY <1>1, WithinTrack DEF TRACK_SIZE
<1>7. p \div TRACK_SIZE = t
  BY <1>5, <1>6, Sizes, DivisionUnique
<1> QED BY <1>2, <1>3, <1>4, <1>7 DEF TrackOf, SectorOf, ByteOf, PlaceOf

LEMMA Places ==
  ASSUME NEW p \in 0 .. FLOPPY_SIZE - 1
  PROVE  /\ TrackOf(p) \in Track /\ SectorOf(p) \in Sector
         /\ ByteOf(p) \in 0 .. SECTOR_SIZE - 1
         /\ p = PlaceOf(TrackOf(p), SectorOf(p), ByteOf(p))
<1>1. p \in Nat /\ p + 1 <= FLOPPY_SIZE
  BY Sizes
<1>2. PICK q \in Nat, r \in 0 .. SECTOR_SIZE - 1 :
        q = p \div SECTOR_SIZE /\ r = p % SECTOR_SIZE /\ p = q * SECTOR_SIZE + r
  BY <1>1, Sizes, Division, Zenon
<1>3. PICK u \in Nat, v \in 0 .. NSECTORS - 1 :
        u = q \div NSECTORS /\ v = q % NSECTORS /\ q = u * NSECTORS + v
  BY Sizes, Division, Zenon
<1>4. p = (u * NSECTORS + v) * SECTOR_SIZE + r
  BY <1>2, <1>3
<1>5. p = PlaceOf(u, v, r)
  BY <1>4 DEF PlaceOf
<1>6. TrackOf(p) = u /\ SectorOf(p) = v /\ ByteOf(p) = r /\ v \in Sector
  <2>1. v \in Sector
    BY DEF Sector
  <2> QED BY <1>5, <2>1, PlaceUnique
<1>7. u \in Track
  <2>1. (u * NSECTORS + v) * SECTOR_SIZE + r + 1 <= FLOPPY_SIZE /\ v \in Nat /\ r \in Nat
    BY <1>1, <1>4, Sizes
  <2>2. 1 \in Nat \ {0}
    OBVIOUS
  <2> QED BY <2>1, <2>2, WithinDisk, Zenon
<1> QED BY <1>5, <1>6, <1>7

----------------------------------------------------------------------------
(* What a reader finds                                                        *)

Found(p) ==
  IF TrackOf(p) = fd.track /\ "DECODED" \in state[SectorOf(p)]
  THEN raw[SectorOf(p)][ByteOf(p)] ELSE disk[TrackOf(p)][SectorOf(p)][ByteOf(p)]

LEMMA ContentFound ==
  /\ Content = [p \in 0 .. FLOPPY_SIZE - 1 |-> Found(p)]
  /\ Content' = [p \in 0 .. FLOPPY_SIZE - 1 |-> Found(p)']
  BY DEF Content, Found, TrackOf, SectorOf, ByteOf

LEMMA SameContent ==
  ASSUME \A p \in 0 .. FLOPPY_SIZE - 1 : Found(p)' = Found(p)
  PROVE  Content' = Content
  BY ContentFound

LEMMA ContentType ==
  TypeOK => Content \in [0 .. FLOPPY_SIZE - 1 -> Byte]
<1> SUFFICES ASSUME TypeOK PROVE Content \in [0 .. FLOPPY_SIZE - 1 -> Byte]
  OBVIOUS
<1>1. \A p \in 0 .. FLOPPY_SIZE - 1 : Found(p) \in Byte
  <2> SUFFICES ASSUME NEW p \in 0 .. FLOPPY_SIZE - 1 PROVE Found(p) \in Byte
    OBVIOUS
  <2>1. /\ TrackOf(p) \in Track /\ SectorOf(p) \in Sector
        /\ ByteOf(p) \in 0 .. SECTOR_SIZE - 1
    BY Places
  <2>2. raw[SectorOf(p)] \in Data /\ disk[TrackOf(p)][SectorOf(p)] \in Data
    BY <2>1 DEF TypeOK
  <2> QED BY <2>1, <2>2 DEF Found, Data
<1> QED BY <1>1, ContentFound

(* The steps that leave the cache and the disk alone                          *)
LEMMA Calm ==
  ASSUME IInv,
         \/ Start \/ Outwards \/ Home \/ \E c \in Clients : GetMsg(c)
         \/ FloppyMotorOff \/ Travel \/ Transfer \/ TransferWritten \/ Written
         \/ NextTrack \/ ReplyMsg \/ \E c \in Clients : FloppyReadWrite(c)
         \/ \E c \in Clients : DoMsg(c)
         \/ TimerFires \/ MoveTab \/ UNCHANGED vars
  PROVE  /\ UNCHANGED <<state, raw, buffer, disk, refused>>
         /\ fd'.track = fd.track
         /\ Busy' => /\ Busy /\ io'.cmd = io.cmd /\ io'.track = io.track
                     /\ dma' = "done" => dma = "done"
         /\ ~ Busy' => ~ (Busy /\ io.cmd = READ)
<1>off. Written =>
          dma = "done" /\ dma' = "off" /\ UNCHANGED <<buffer, disk, refused>>
  BY Over
<1> USE DEF IInv, Core, TypeOK, Busy, Moving, READ, WRITE
<1>0. io \in Locals /\ fd \in Device /\ io.cmd \in {READ, WRITE}
  BY DEF Locals
<1>1. CASE Start
  <2>1. io.pc = "start" /\ io' = [io EXCEPT !.pc = "turned out"]
        /\ fd' = HeadsStepDirection([fd EXCEPT !.motorOn = TRUE], FALSE)
        /\ UNCHANGED media
    BY <1>1 DEF Start
  <2>2. io'.pc = "turned out"
    BY <1>0, <2>1 DEF Locals
  <2>3. fd'.track = fd.track
    BY <1>0, <2>1 DEF Device, HeadsStepDirection
  <2> QED BY <2>1, <2>2, <2>3 DEF media
<1>2. CASE Outwards
  <2>1. /\ io' = [io EXCEPT !.pc = io'.pc] /\ io'.pc \in {"home", "stepped out"}
        /\ io.pc \in {"turned out", "stepped out"} /\ fd'.track = fd.track
        /\ UNCHANGED media
    BY <1>2, Outs DEF Outwards
  <2> QED BY <2>1 DEF media
<1>3. CASE Home
  BY <1>0, <1>3 DEF Home, Locals, Device, media
<1>4. CASE \E c \in Clients : GetMsg(c)
  BY <1>4, Begins DEF GetMsg, media
<1>5. CASE FloppyMotorOff
  BY <1>0, <1>5 DEF FloppyMotorOff, Device, media
<1>6. CASE Travel
  <2>1. PICK p \in {"stepped", "settle"} : io' = [io EXCEPT !.pc = p]
    BY <1>6, Goes
  <2>2. /\ fd'.track = fd.track /\ io.pc \in {"turned", "stepped"}
        /\ UNCHANGED <<dma, media>>
    BY <1>0, <1>6, Goes DEF Travel, Device
  <2>3. io'.pc = p /\ io'.track = io.track /\ io'.cmd = io.cmd
    BY <1>0, <2>1 DEF Locals
  <2> QED BY <2>1, <2>2, <2>3 DEF media
<1>7. CASE Transfer
  <2>1. /\ io.pc = "settle" /\ io'.pc = "transfer" /\ io'.track = io.track
        /\ io'.cmd = io.cmd /\ dma' = io.cmd /\ UNCHANGED <<fd, media>>
    BY <1>0, <1>7 DEF Transfer, Locals
  <2> QED BY <1>0, <2>1 DEF media
<1>8. CASE TransferWritten
  BY <1>0, <1>8 DEF TransferWritten, Locals, media
<1>9. CASE Written
  <2>1. io.pc = "written" /\ io'.pc = "serve" /\ UNCHANGED <<fd, media>>
    BY <1>off, <1>0, <1>9 DEF Written, Locals, media
  <2>2. io.cmd = WRITE
    BY <2>1 DEF WaitInv
  <2> QED BY <2>1, <2>2 DEF media
<1>10. CASE NextTrack
  BY <1>0, <1>10 DEF NextTrack, Locals, media
<1>11. CASE ReplyMsg
  BY <1>0, <1>11 DEF ReplyMsg, Locals, media
<1>12. CASE \E c \in Clients : FloppyReadWrite(c)
  <2>1. UNCHANGED <<io, fd, dma, media>>
    BY <1>12, Asks
  <2> QED BY <2>1 DEF media
<1>13. CASE \/ TimerFires \/ MoveTab \/ UNCHANGED vars
            \/ \E c \in Clients : DoMsg(c)
  BY <1>13 DEF TimerFires, MoveTab, vars, media, DoMsg
<1> QED BY <1>1, <1>2, <1>3, <1>4, <1>5, <1>6, <1>7, <1>8, <1>9, <1>10, <1>11,
           <1>12, <1>13

(* What a read of a sector that is not decoded finds is what the disk has     *)
(* there, also when the disk has refused writes                               *)
BufferInv ==
  /\ \A s \in Sector : "DIRTY" \in state[s] => "DECODED" \in state[s]
  /\ fd.track = -1 => \A s \in Sector : "DECODED" \notin state[s]
  /\ ~ (Busy /\ io.cmd = READ) /\ fd.track # -1 =>
       \A s \in Sector : "DECODED" \notin state[s] =>
         buffer[s] = disk[fd.track][s]
  /\ Busy /\ io.cmd = WRITE => io.track = fd.track
  /\ Busy /\ io.cmd = READ /\ dma = "done" => buffer = disk[io.track]
  /\ Busy /\ io.cmd = READ /\ ~ refused =>
       \A s \in Sector : "DECODED" \in state[s] => raw[s] = disk[fd.track][s]

LEMMA InitBuffer == Init => BufferInv
  BY DEF Init, BufferInv, Busy, Moving, READ, WRITE

LEMMA BufferStep ==
  ASSUME IInv, BufferInv, [Next]_vars
  PROVE  BufferInv'
<1> USE DEF Busy, Moving, READ, WRITE
<1>0. /\ io \in Locals /\ fd \in Device /\ io.cmd \in {READ, WRITE}
      /\ raw \in [Sector -> Data] /\ buffer \in [Sector -> Data]
      /\ state \in [Sector -> SUBSET {"DECODED", "DIRTY"}]
      /\ disk \in [Track -> [Sector -> Data]]
  BY DEF Locals, IInv, Core, TypeOK
<1>1. CASE /\ UNCHANGED <<state, raw, buffer, disk, refused>>
           /\ fd'.track = fd.track
           /\ Busy' => /\ Busy /\ io'.cmd = io.cmd /\ io'.track = io.track
                       /\ dma' = "done" => dma = "done"
           /\ ~ Busy' => ~ (Busy /\ io.cmd = READ)
  <2>1. CASE Busy'
    <3> HIDE DEF Busy
    <3> QED BY <1>1, <2>1 DEF BufferInv
  <2>2. CASE ~ Busy'
    <3> HIDE DEF Busy
    <3> QED BY <1>1, <2>2 DEF BufferInv
  <2> QED BY <2>1, <2>2
<1>2. CASE ReadTrack
  <2>1. /\ MoveTo(READ) /\ io.pc = "serve" /\ io.track \in Track
        /\ UNCHANGED <<media, dma>>
    BY <1>2, TrackKnown DEF IInv, ReadTrack
  <2>2. PICK p \in {"turned", "settle"} :
          io' = [io EXCEPT !.cmd = READ, !.pc = p] /\ fd'.track = fd.track
    BY <2>1, Turns DEF IInv
  <2>3. io'.pc = p /\ io'.cmd = READ
    BY <1>0, <2>2 DEF Locals
  <2>4. dma = "off" /\ ~ Busy
    BY <2>1 DEF IInv, Core, WaitInv
  <2>5. ~ io.needWrite
    BY <1>2 DEF ReadTrack, IInv, Core, RequestInv, Serving
  <2>6. ~ refused => \A s \in Sector : "DECODED" \in state[s] =>
          raw[s] = disk[fd.track][s]
    BY <2>4, <2>5 DEF IInv, Core, CacheInv, BufferInv
  <2> QED BY <2>1, <2>2, <2>3, <2>4, <2>6 DEF BufferInv, media
<1>3. CASE WriteTrack
  <2>1. io.pc = "serve" /\ io.track \in Track /\ dma' = dma
        /\ UNCHANGED <<raw, disk>>
    BY <1>3, TrackKnown DEF IInv, WriteTrack
  <2>2. CASE WriteProtected
    <3>1. UNCHANGED <<state, buffer>> /\ fd' = fd /\ io'.pc = "serve"
      BY <1>0, <1>3, <2>1, <2>2 DEF WriteTrack, Locals
    <3> QED BY <2>1, <3>1 DEF BufferInv
  <2>3. CASE ~ WriteProtected
    <3>1. /\ MoveTo(WRITE) /\ refused' = refused
          /\ state' = [s \in Sector |-> state[s] \ {"DIRTY"}]
          /\ buffer' = [s \in Sector |->
                          IF "DIRTY" \in state[s] THEN raw[s] ELSE buffer[s]]
      BY <1>3, <2>3 DEF WriteTrack
    <3>2. PICK p \in {"turned", "settle"} :
            io' = [io EXCEPT !.cmd = WRITE, !.pc = p] /\ fd'.track = fd.track
      BY <2>1, <3>1, Turns DEF IInv
    <3>3. io'.pc = p /\ io'.cmd = WRITE /\ io'.track = io.track
      BY <1>0, <3>2 DEF Locals
    <3>4. io.track = fd.track /\ ~ Busy
      BY <1>3, <2>1 DEF WriteTrack, IInv, Core, RequestInv, Serving
    <3>5. \A s \in Sector : /\ "DECODED" \in state'[s] <=> "DECODED" \in state[s]
                            /\ "DIRTY" \notin state'[s]
                            /\ "DECODED" \notin state[s] => buffer'[s] = buffer[s]
      BY <3>1 DEF BufferInv
    <3> QED BY <2>1, <3>2, <3>3, <3>4, <3>5 DEF BufferInv
  <2> QED BY <2>2, <2>3
<1>4. CASE TransferRead
  <2>1. /\ io.pc = "transfer" /\ io'.pc = "serve" /\ io.cmd = READ
        /\ state' = [s \in Sector |-> {}]
        /\ UNCHANGED <<raw, buffer, disk, refused>>
    BY <1>0, <1>4, Over DEF TransferRead, Locals, Forget
  <2>2. fd'.track = io.track
    BY <1>0, <1>4 DEF TransferRead, Device
  <2>3. dma = "done"
    BY <1>4, Over
  <2> QED BY <2>1, <2>2, <2>3 DEF BufferInv
<1>5. CASE CopySector
  <2> DEFINE r == req[io.client]
  <2>1. PICK new \in Data :
          /\ io.pc = "serve" /\ r \in Request
          /\ io.sector \in Sector /\ fd.track = io.track
          /\ raw' = [raw EXCEPT ![io.sector] = new]
          /\ state' = [state EXCEPT ![io.sector] = @ \cup Marks(r.write)]
          /\ io' = [io EXCEPT !.offset = 0, !.sector = io.sector + 1,
                              !.needWrite = io.needWrite \/ r.write]
          /\ UNCHANGED <<fd, dma, buffer, disk, refused>>
    BY <1>5, Copies DEF IInv
  <2>2. io'.pc = "serve"
    BY <1>0, <2>1 DEF Locals
  <2>3. \A s \in Sector : /\ "DECODED" \in state[s] => "DECODED" \in state'[s]
                          /\ "DIRTY" \in state'[s] => "DECODED" \in state'[s]
    BY <1>0, <2>1 DEF Marks, BufferInv
  <2>4. fd.track # -1
    BY <1>0, <2>1 DEF Locals
  <2> QED BY <2>1, <2>2, <2>3, <2>4 DEF BufferInv
<1>6. CASE TrackTransferDone
  <2>1. /\ dma \in {READ, WRITE} /\ dma' = "done"
        /\ UNCHANGED <<io, fd, state, raw>>
        /\ buffer' = IF dma = READ THEN disk[Under] ELSE buffer
        /\ disk' = IF dma = WRITE /\ ~ protect THEN [disk EXCEPT ![Under] = buffer]
                   ELSE disk
        /\ ~ refused' => ~ refused
    BY <1>6, WholeTrack DEF TrackTransferDone, IInv, Core
  <2>2. io.pc = "transfer" /\ dma = io.cmd
    BY <2>1 DEF IInv, Core, WaitInv
  <2>3. Under = io.track /\ io.track \in Track
    BY <2>2 DEF IInv, Core, HeadInv, RequestInv
  <2>4. CASE io.cmd = READ
    BY <2>1, <2>2, <2>3, <2>4 DEF BufferInv
  <2>5. CASE io.cmd = WRITE
    BY <1>0, <2>1, <2>2, <2>3, <2>5 DEF BufferInv
  <2> QED BY <1>0, <2>4, <2>5
<1> HIDE DEF Busy, Moving
<1> QED BY <1>1, <1>2, <1>3, <1>4, <1>5, <1>6, Calm DEF Next, IoTask, Hardware

----------------------------------------------------------------------------
(* How far a request has got                                                  *)

(* What is copied of a sector, and where it goes                              *)
LEMMA CopiesWhat ==
  ASSUME Core, CopySector
  PROVE  LET r == req[io.client]
             old == IF "DECODED" \in state[io.sector]
                    THEN raw[io.sector] ELSE buffer[io.sector]
         IN
         \E n \in 1 .. r.left, new \in Data :
           /\ n = SECTOR_SIZE - io.offset \/ n = r.left
           /\ n <= SECTOR_SIZE - io.offset
           /\ \A o \in 0 .. SECTOR_SIZE - 1 : new[o] =
                IF r.write /\ o \in io.offset .. io.offset + n - 1
                THEN r.value ELSE old[o]
           /\ raw' = [raw EXCEPT ![io.sector] = new]
           /\ req' = [req EXCEPT ![io.client].left = @ - n,
                        ![io.client].buf =
                          @ \o [i \in 1 .. n |-> new[io.offset + i - 1]]]
<1> DEFINE r == req[io.client]
           s == io.sector
           room == SECTOR_SIZE - io.offset
           n == IF r.left < room THEN r.left ELSE room
           old == IF "DECODED" \in state[s] THEN raw[s] ELSE buffer[s]
           new == [o \in DOMAIN old |->
                     IF r.write /\ o \in io.offset .. io.offset + n - 1
                     THEN r.value ELSE old[o]]
           moved == [i \in 1 .. n |-> new[io.offset + i - 1]]
<1>1. /\ io \in Locals /\ io.client \in Clients
      /\ r \in Request /\ r.left > 0 /\ s \in Sector
  BY DEF CopySector, Core, TypeOK, RequestInv, Serving, Sector, Locals
<1>2. /\ r.left \in Nat \ {0} /\ r.value \in Byte
      /\ io.offset \in 0 .. SECTOR_SIZE - 1
  BY <1>1 DEF Request, Locals
<1>3. n \in 1 .. r.left /\ n <= room /\ (n = room \/ n = r.left)
  BY <1>2, Sizes
<1>4. old \in Data
  BY <1>1 DEF Core, TypeOK
<1>5. /\ new \in Data
      /\ \A o \in 0 .. SECTOR_SIZE - 1 : new[o] =
           IF r.write /\ o \in io.offset .. io.offset + n - 1
           THEN r.value ELSE old[o]
  <2> HIDE DEF old, r, n
  <2> QED BY <1>2, <1>4 DEF Data
<1>6. /\ raw' = [raw EXCEPT ![s] = new]
      /\ req' = [req EXCEPT ![io.client].left = @ - n,
                            ![io.client].buf = @ \o moved]
  BY DEF CopySector
<1> HIDE DEF n, new
<1> QED BY <1>3, <1>5, <1>6

(* A sector is where its track says                                           *)
LEMMA NextSector ==
  ASSUME io \in Locals
  PROVE  PlaceOf(io.track, io.sector + 1, 0)
           = PlaceOf(io.track, io.sector, 0) + SECTOR_SIZE
<1>1. io.track \in Nat /\ io.sector \in Nat
  BY DEF Locals
<1>2. PICK m \in Nat : m = io.track * NSECTORS
  BY <1>1, Sizes, OneMore
<1>3. m + io.sector \in Nat /\ m + (io.sector + 1) = (m + io.sector) + 1
  BY <1>1, <1>2
<1>4. (m + (io.sector + 1)) * SECTOR_SIZE = (m + io.sector) * SECTOR_SIZE + SECTOR_SIZE
      /\ (m + io.sector) * SECTOR_SIZE \in Nat
  <2>1. SECTOR_SIZE \in Nat
    BY Sizes
  <2> QED BY <1>3, <2>1, OneMore
<1> DEFINE from == (m + io.sector) * SECTOR_SIZE
<1>5. from + SECTOR_SIZE + 0 = from + 0 + SECTOR_SIZE
  BY <1>4, Sizes
<1> HIDE DEF from
<1> QED BY <1>2, <1>4, <1>5 DEF PlaceOf, from

(* Pos is the place the next byte of the request being served goes to or      *)
(* comes from; nothing of the others has been copied                          *)
ServedInv ==
  /\ Serving /\ req[io.client].left > 0 =>
       req[io.client].offset + Len(req[io.client].buf) = Pos
  /\ \A c \in Clients : req[c] # None /\ ~ (Serving /\ c = io.client) =>
       req[c].buf = <<>>

LEMMA InitServed == Init => ServedInv
  BY DEF Init, ServedInv, Serving, Busy, Moving

LEMMA ServedStep ==
  ASSUME Core, ServedInv, [Next]_vars
  PROVE  ServedInv'
<1> USE DEF Serving, Busy, Moving
<1>0. /\ io \in Locals /\ fd \in Device /\ req \in [Clients -> Request \cup {None}]
  BY DEF Core, TypeOK
<1>1. CASE /\ UNCHANGED req
           /\ Serving' => Serving /\ io'.client = io.client /\ Pos' = Pos
           /\ ~ Serving' => ~ Serving
  <2> HIDE DEF Serving
  <2> QED BY <1>1 DEF ServedInv
<1>2. CASE Start \/ FloppyMotorOff
  BY <1>0, <1>1, <1>2 DEF Start, FloppyMotorOff, Locals
<1>3. CASE Outwards
  <2>1. /\ io.pc \in {"turned out", "stepped out"} /\ req' = req
        /\ io' = [io EXCEPT !.pc = io'.pc] /\ io'.pc \in {"home", "stepped out"}
    BY <1>3, Outs DEF Outwards
  <2> QED BY <1>1, <2>1
<1>4. CASE Home
  BY <1>0, <1>1, <1>4 DEF Home, Locals
<1>5. ASSUME NEW c \in Clients, GetMsg(c) PROVE ServedInv'
  <2>1. io.pc = "idle" /\ req[c] # None /\ UNCHANGED req
    BY <1>5 DEF GetMsg, Core, RequestInv
  <2>2. /\ req[c] \in Request /\ io'.pc = "serve" /\ io'.client = c
        /\ Pos' = req[c].offset
    BY <1>5, Begins
  <2>3. req[c].buf = <<>> /\ req[c].offset + 0 = req[c].offset
    BY <2>1, <2>2 DEF ServedInv, Request
  <2>4. Len(req[c].buf) = 0
    BY <2>3
  <2> QED BY <2>1, <2>2, <2>3, <2>4 DEF ServedInv
<1>6. CASE ReadTrack
  <2>1. /\ MoveTo(READ) /\ io.pc = "serve" /\ io.track \in Track /\ req' = req
    BY <1>6, TrackKnown DEF ReadTrack
  <2>2. PICK p \in {"turned", "settle"} : io' = [io EXCEPT !.cmd = READ, !.pc = p]
    BY <2>1, Turns DEF READ, WRITE
  <2>3. io'.pc = p /\ io'.client = io.client /\ Pos' = Pos
    BY <1>0, <2>2 DEF Locals, Pos
  <2> QED BY <1>1, <2>1, <2>2, <2>3
<1>7. CASE WriteTrack
  <2>1. io.pc = "serve" /\ io.track \in Track /\ req' = req
    BY <1>7, TrackKnown DEF WriteTrack
  <2>2. CASE WriteProtected
    <3>1. io' = [io EXCEPT !.needWrite = FALSE]
      BY <1>7, <2>2 DEF WriteTrack
    <3>2. io'.pc = io.pc /\ io'.client = io.client /\ Pos' = Pos
      BY <1>0, <3>1 DEF Locals, Pos
    <3> QED BY <1>1, <2>1, <3>2
  <2>3. CASE ~ WriteProtected
    <3>1. MoveTo(WRITE)
      BY <1>7, <2>3 DEF WriteTrack
    <3>2. PICK p \in {"turned", "settle"} : io' = [io EXCEPT !.cmd = WRITE, !.pc = p]
      BY <2>1, <3>1, Turns DEF READ, WRITE
    <3>3. io'.pc = p /\ io'.client = io.client /\ Pos' = Pos
      BY <1>0, <3>2 DEF Locals, Pos
    <3> QED BY <1>1, <2>1, <3>2, <3>3
  <2> QED BY <2>2, <2>3
<1>8. CASE Travel
  <2>1. PICK p \in {"stepped", "settle"} : io' = [io EXCEPT !.pc = p]
    BY <1>8, Goes
  <2>2. io.pc \in {"turned", "stepped"} /\ req' = req
    BY <1>8 DEF Travel
  <2>3. io'.pc = p /\ io'.client = io.client /\ Pos' = Pos
    BY <1>0, <2>1 DEF Locals, Pos
  <2> QED BY <1>1, <2>1, <2>2, <2>3
<1>9. CASE Transfer \/ TransferRead \/ TransferWritten \/ Written
  BY <1>0, <1>1, <1>9 DEF Transfer, TransferRead, TransferWritten, Written, Locals, Pos
<1>10. CASE CopySector
  <2> DEFINE r == req[io.client]
             from == PlaceOf(io.track, io.sector, 0)
  <2>1. /\ io.pc = "serve" /\ io.client \in Clients /\ r \in Request /\ r.left > 0
    BY <1>10 DEF CopySector, Core, RequestInv, TypeOK
  <2>2. PICK n \in 1 .. r.left, new \in Data :
          /\ n = SECTOR_SIZE - io.offset \/ n = r.left
          /\ n <= SECTOR_SIZE - io.offset
          /\ req' = [req EXCEPT ![io.client].left = @ - n,
                       ![io.client].buf =
                         @ \o [i \in 1 .. n |-> new[io.offset + i - 1]]]
    BY <1>10, CopiesWhat
  <2>3. io' = [io EXCEPT !.offset = 0, !.sector = @ + 1, !.needWrite = @ \/ r.write]
    BY <1>10 DEF CopySector
  <2>4. /\ io'.pc = "serve" /\ io'.client = io.client /\ io'.track = io.track
        /\ io'.sector = io.sector + 1 /\ io'.offset = 0
    <3> HIDE DEF r
    <3> QED BY <1>0, <2>1, <2>3 DEF Locals
  <2>5. /\ io.track \in Nat /\ io.sector \in Nat
        /\ io.offset \in 0 .. SECTOR_SIZE - 1
        /\ r.left \in Nat /\ r.offset \in Nat /\ n \in Nat
    <3>1. r.left \in Nat /\ r.offset \in Nat
      BY <2>1 DEF Request
    <3>2. /\ io.track \in Nat /\ io.sector \in Nat
          /\ io.offset \in 0 .. SECTOR_SIZE - 1
      BY <1>0, Sizes DEF Locals
    <3> HIDE DEF r
    <3> QED BY <3>1, <3>2
  <2> DEFINE moved == [i \in 1 .. n |-> new[io.offset + i - 1]]
  <2>6. /\ req'[io.client].left = r.left - n
        /\ req'[io.client].buf = r.buf \o moved
        /\ req'[io.client].offset = r.offset
        /\ \A c \in Clients : c # io.client => req'[c] = req[c]
    <3> HIDE DEF moved
    <3>1. req' = [req EXCEPT ![io.client].left = @ - n,
                             ![io.client].buf = @ \o moved]
      BY <2>2 DEF moved
    <3>2. req' = [req EXCEPT ![io.client] =
                    [r EXCEPT !.left = r.left - n, !.buf = r.buf \o moved]]
      BY <1>0, <2>1, <3>1
    <3> DEFINE rr == [r EXCEPT !.left = r.left - n, !.buf = r.buf \o moved]
    <3>3. rr.left = r.left - n /\ rr.buf = r.buf \o moved /\ rr.offset = r.offset
      <4> HIDE DEF r
      <4> QED BY <2>1 DEF Request
    <3> HIDE DEF rr, r
    <3>4. req' = [req EXCEPT ![io.client] = rr]
      BY <3>2 DEF rr, r
    <3> QED BY <1>0, <2>1, <3>3, <3>4
  <2>7. Len(r.buf \o moved) = Len(r.buf) + n /\ Len(r.buf) \in Nat
    <3>1. \A i \in 1 .. n : io.offset + i - 1 \in 0 .. SECTOR_SIZE - 1
      <4>1. n <= SECTOR_SIZE - io.offset
        BY <2>2
      <4>2. SECTOR_SIZE \in Nat
        BY Sizes
      <4> HIDE DEF r, moved
      <4> QED BY <2>5, <4>1, <4>2
    <3>2. moved \in Seq(Byte) /\ Len(moved) = n
      <4>1. \A i \in 1 .. n : new[io.offset + i - 1] \in Byte
        BY <3>1 DEF Data
      <4>2. moved \in [1 .. n -> Byte]
        BY <4>1
      <4> HIDE DEF moved
      <4> QED BY <2>5, <4>2
    <3>3. r.buf \in Seq(Byte)
      BY <2>1 DEF Request
    <3> HIDE DEF r, moved
    <3> QED BY <3>2, <3>3
  <2>8. req'[io.client].left > 0 =>
          req'[io.client].offset + Len(req'[io.client].buf) = Pos'
    <3> SUFFICES ASSUME r.left - n > 0
                 PROVE  r.offset + (Len(r.buf) + n) = Pos'
      BY <2>6, <2>7
    <3>1. n = SECTOR_SIZE - io.offset
      <4>1. n = SECTOR_SIZE - io.offset \/ n = r.left
        BY <2>2
      <4>2. r.left \in Nat /\ n \in Nat /\ r.left - n > 0
        BY <2>5
      <4> HIDE DEF r, moved, from
      <4>3. n # r.left
        BY <4>2
      <4> QED BY <4>1, <4>3
    <3>2. Pos' = PlaceOf(io.track, io.sector + 1, 0)
      BY <2>4 DEF Pos, PlaceOf
    <3>3. Pos' = from + SECTOR_SIZE
      BY <1>0, <3>2, NextSector
    <3>4. from \in Nat /\ Pos = from + io.offset
      <4>1. (io.track * NSECTORS + io.sector) * SECTOR_SIZE \in Nat
        BY <2>5, Sizes
      <4> QED BY <2>5, <4>1 DEF Pos, PlaceOf
    <3>5. r.offset + Len(r.buf) = Pos
      BY <2>1 DEF ServedInv
    <3>6. Len(r.buf) \in Nat
      BY <2>7
    <3>7. SECTOR_SIZE \in Nat
      BY Sizes
    <3> DEFINE got == Len(r.buf)
               first == r.offset
    <3>8. /\ got \in Nat /\ first \in Nat /\ from \in Nat
          /\ io.offset \in Nat /\ first + got = from + io.offset
      BY <2>5, <3>4, <3>5, <3>6
    <3> HIDE DEF r, from, moved, got, first
    <3>9. first + (got + n) = from + SECTOR_SIZE
      BY <2>5, <3>1, <3>7, <3>8
    <3> QED BY <3>3, <3>9 DEF got, first
  <2> HIDE DEF r, moved
  <2> QED BY <2>1, <2>4, <2>6, <2>8 DEF ServedInv
<1>11. CASE NextTrack
  <2>1. /\ io.pc = "serve" /\ io.sector = NSECTORS
        /\ io' = [io EXCEPT !.sector = 0, !.track = @ + 1]
        /\ UNCHANGED <<req, fd>>
    BY <1>11 DEF NextTrack
  <2>2. /\ io'.pc = "serve" /\ io'.client = io.client
        /\ io'.sector = 0 /\ io'.track = io.track + 1 /\ io'.offset = io.offset
    BY <1>0, <2>1 DEF Locals
  <2>3. Pos' = Pos
    <3>1. (io.track + 1) * NSECTORS + 0 = io.track * NSECTORS + NSECTORS
      BY <1>0, Sizes DEF Locals
    <3> QED BY <2>1, <2>2, <3>1 DEF Pos
  <2> QED BY <1>1, <2>1, <2>2, <2>3
<1>12. CASE ReplyMsg
  BY <1>0, <1>12 DEF ReplyMsg, Locals, ServedInv
<1>13. ASSUME NEW c \in Clients, FloppyReadWrite(c) PROVE ServedInv'
  <2>1. PICK r \in Request :
          /\ req[c] = None /\ UNCHANGED io
          /\ req' = [req EXCEPT ![c] = r] /\ r.buf = <<>>
    BY <1>13, Asks
  <2>2. Pos' = Pos /\ r # None
    BY <2>1 DEF Pos
  <2>3. Serving => io.client # c
    BY <2>1 DEF Core, RequestInv
  <2> QED BY <1>0, <2>1, <2>2, <2>3 DEF ServedInv
<1>14. CASE \/ TimerFires \/ TrackTransferDone \/ MoveTab \/ UNCHANGED vars
            \/ \E c \in Clients : DoMsg(c)
  BY <1>1, <1>14 DEF TimerFires, TrackTransferDone, MoveTab, vars, Pos, DoMsg
<1> QED BY <1>2, <1>3, <1>4, <1>5, <1>6, <1>7, <1>8, <1>9, <1>10, <1>11,
           <1>12, <1>13, <1>14 DEF Next, IoTask, Hardware

----------------------------------------------------------------------------
(* The drive its clients see                                                  *)

(* The places from one of a sector on, as long as they are in it              *)
LEMMA Here ==
  ASSUME NEW t \in Nat, NEW s \in Sector, NEW o \in 0 .. SECTOR_SIZE - 1,
         NEW n \in Nat, n <= SECTOR_SIZE - o, NEW p \in 0 .. FLOPPY_SIZE - 1
  PROVE  p \in PlaceOf(t, s, o) .. PlaceOf(t, s, o) + n - 1
           <=> /\ TrackOf(p) = t /\ SectorOf(p) = s
               /\ ByteOf(p) \in o .. o + n - 1
<1> DEFINE base == (t * NSECTORS + s) * SECTOR_SIZE
<1>1. SECTOR_SIZE \in Nat /\ base \in Nat /\ p \in Nat /\ o \in Nat
  <2>1. t * NSECTORS + s \in Nat
    BY Sizes DEF Sector
  <2> QED BY <2>1, Sizes
<1>2. \A x : PlaceOf(t, s, x) = base + x
  BY DEF PlaceOf
<1>3. ASSUME p \in base + o .. base + o + n - 1
      PROVE  /\ TrackOf(p) = t /\ SectorOf(p) = s
             /\ ByteOf(p) \in o .. o + n - 1
  <2> DEFINE x == p - base
  <2>1. x \in o .. o + n - 1 /\ x \in 0 .. SECTOR_SIZE - 1 /\ p = base + x
    <3> HIDE DEF base
    <3> QED BY <1>1, <1>3
  <2> HIDE DEF x
  <2>2. p = PlaceOf(t, s, x)
    BY <1>2, <2>1
  <2> QED BY <2>1, <2>2, PlaceUnique
<1>4. ASSUME TrackOf(p) = t, SectorOf(p) = s, ByteOf(p) \in o .. o + n - 1
      PROVE  p \in base + o .. base + o + n - 1
  <2>1. p = base + ByteOf(p)
    BY <1>2, <1>4, Places
  <2> DEFINE x == ByteOf(p)
  <2>2. x \in o .. o + n - 1 /\ p = base + x
    BY <1>4, <2>1
  <2> HIDE DEF x, base
  <2> QED BY <1>1, <2>2
<1> HIDE DEF base
<1> QED BY <1>2, <1>3, <1>4

(* To copy a sector is to transfer its bytes                                  *)
LEMMA CopyTransfers ==
  ASSUME IInv, BufferInv, ServedInv, CopySector
  PROVE  /\ io.client \in Clients /\ req[io.client] # None
         /\ \E n \in 1 .. req[io.client].left : D!Transfer(io.client, n)
<1> DEFINE r == req[io.client]
           s == io.sector
           t == io.track
           old == IF "DECODED" \in state[s] THEN raw[s] ELSE buffer[s]
<1>1. /\ io.pc = "serve" /\ io.client \in Clients /\ r \in Request /\ r # None
      /\ r.left > 0 /\ s \in Sector /\ fd.track = t /\ t \in Track
      /\ io \in Locals
  <2>1. io.pc = "serve" /\ r.left > 0
    BY DEF CopySector
  <2>2. t \in Track
    BY <2>1, TrackKnown DEF IInv
  <2> QED BY <2>1, <2>2
          DEF CopySector, IInv, Core, RequestInv, TypeOK, Serving, Sector, Locals
<1>2. PICK n \in 1 .. r.left, new \in Data :
        /\ n <= SECTOR_SIZE - io.offset
        /\ \A o \in 0 .. SECTOR_SIZE - 1 : new[o] =
             IF r.write /\ o \in io.offset .. io.offset + n - 1
             THEN r.value ELSE old[o]
        /\ raw' = [raw EXCEPT ![s] = new]
        /\ req' = [req EXCEPT ![io.client].left = @ - n,
                     ![io.client].buf =
                       @ \o [i \in 1 .. n |-> new[io.offset + i - 1]]]
  BY CopiesWhat DEF IInv
<1>3. /\ state' = [state EXCEPT ![s] = @ \cup Marks(r.write)]
      /\ UNCHANGED <<fd, buffer, disk, refused>>
  BY DEF CopySector
<1>4. /\ r.left \in Nat /\ n \in Nat \ {0} /\ n <= r.left
      /\ io.offset \in 0 .. SECTOR_SIZE - 1 /\ t \in Nat
      /\ s \in Nat /\ SECTOR_SIZE \in Nat
  <2>1. r.left \in Nat /\ io.offset \in 0 .. SECTOR_SIZE - 1
    BY <1>1 DEF Request, Locals
  <2>2. t \in Nat /\ s \in Nat /\ SECTOR_SIZE \in Nat
    BY <1>1, Sizes DEF Track, Sector
  <2> HIDE DEF r, s, t
  <2> QED BY <1>2, <2>1, <2>2
<1> DEFINE first == r.offset + Len(r.buf)
<1>5. /\ first = Pos /\ first = PlaceOf(t, s, io.offset)
      /\ first \in Nat /\ first + r.left <= FLOPPY_SIZE
  <2>1. first = Pos /\ Pos + r.left <= FLOPPY_SIZE
    BY <1>1 DEF ServedInv, IInv, Core, RequestInv, Serving
  <2>2. Pos = PlaceOf(t, s, io.offset)
    BY DEF Pos, PlaceOf
  <2>3. PlaceOf(t, s, io.offset) \in Nat
    BY <1>1, <1>4, PlaceUnique
  <2> QED BY <2>1, <2>2, <2>3
<1> DEFINE here == first .. first + n - 1
<1>6. \A p \in 0 .. FLOPPY_SIZE - 1 :
        p \in here <=> /\ TrackOf(p) = t /\ SectorOf(p) = s
                       /\ ByteOf(p) \in io.offset .. io.offset + n - 1
  <2> HIDE DEF r, s, t, first
  <2> QED BY <1>1, <1>2, <1>4, <1>5, Here
<1>7. \A o \in 0 .. SECTOR_SIZE - 1 :
        old[o] = IF "DECODED" \in state[s] THEN raw[s][o] ELSE disk[t][s][o]
  <2>1. fd.track # -1 /\ ~ Busy
    BY <1>1 DEF Track, Busy, Moving
  <2>2. "DECODED" \notin state[s] => buffer[s] = disk[t][s]
    BY <1>1, <2>1 DEF BufferInv
  <2> QED BY <2>2
<1>8. /\ raw'[s] = new /\ "DECODED" \in state'[s]
      /\ \A u \in Sector : u # s => raw'[u] = raw[u] /\ state'[u] = state[u]
  <2>1. raw \in [Sector -> Data] /\ state \in [Sector -> SUBSET {"DECODED", "DIRTY"}]
    BY DEF IInv, Core, TypeOK
  <2> HIDE DEF r, s
  <2> QED BY <1>1, <1>2, <1>3, <2>1 DEF Marks
<1>9. \A p \in 0 .. FLOPPY_SIZE - 1 :
        Found(p)' = IF r.write /\ p \in here THEN r.value ELSE Found(p)
  <2> SUFFICES ASSUME NEW p \in 0 .. FLOPPY_SIZE - 1
               PROVE  Found(p)' = IF r.write /\ p \in here THEN r.value
                                  ELSE Found(p)
    OBVIOUS
  <2> DEFINE o == ByteOf(p)
  <2>1. o \in 0 .. SECTOR_SIZE - 1 /\ SectorOf(p) \in Sector
    BY Places
  <2>2. Found(p)' = IF TrackOf(p) = fd'.track /\ "DECODED" \in state'[SectorOf(p)]
                    THEN raw'[SectorOf(p)][o]
                    ELSE disk'[TrackOf(p)][SectorOf(p)][o]
    BY DEF Found, TrackOf, SectorOf, ByteOf
  <2>3. CASE TrackOf(p) = t /\ SectorOf(p) = s
    <3>1. Found(p)' = new[o]
      BY <1>1, <1>3, <1>8, <2>2, <2>3
    <3>2. Found(p) = old[o]
      BY <1>1, <1>7, <2>1, <2>3 DEF Found
    <3>3. p \in here <=> o \in io.offset .. io.offset + n - 1
      BY <1>6, <2>3
    <3> HIDE DEF here, old, r, o
    <3> QED BY <1>2, <2>1, <3>1, <3>2, <3>3
  <2>4. CASE ~ (TrackOf(p) = t /\ SectorOf(p) = s)
    <3>1. p \notin here
      BY <1>6, <2>4
    <3>2. Found(p)' = Found(p)
      BY <1>1, <1>3, <1>8, <2>1, <2>2, <2>4 DEF Found
    <3> QED BY <3>1, <3>2
  <2> QED BY <2>3, <2>4
<1>10. Content' = [p \in 0 .. FLOPPY_SIZE - 1 |->
                     IF r.write /\ p \in here THEN r.value ELSE Content[p]]
  <2> HIDE DEF r, here
  <2> QED BY <1>9, ContentFound
<1>11. \A i \in 1 .. n : new[io.offset + i - 1] = Content'[first + i - 1]
  <2> SUFFICES ASSUME NEW i \in 1 .. n
               PROVE  new[io.offset + i - 1] = Content'[first + i - 1]
    OBVIOUS
  <2> DEFINE o == io.offset + i - 1
  <2>1. /\ first + i - 1 \in 0 .. FLOPPY_SIZE - 1
        /\ o \in 0 .. SECTOR_SIZE - 1
    <3>1. /\ n <= SECTOR_SIZE - io.offset /\ first + r.left <= FLOPPY_SIZE
          /\ first \in Nat /\ r.left \in Nat /\ FLOPPY_SIZE \in Nat
      BY <1>2, <1>4, <1>5, Sizes
    <3> HIDE DEF r, first
    <3> QED BY <1>4, <3>1
  <2>2. PICK p \in 0 .. FLOPPY_SIZE - 1 : p = first + i - 1
    BY <2>1
  <2>3. p = PlaceOf(t, s, o)
    <3>1. PICK b \in Nat : \A x : PlaceOf(t, s, x) = b + x
      <4>1. (t * NSECTORS + s) * SECTOR_SIZE \in Nat
        <5>1. t * NSECTORS + s \in Nat
          BY <1>4, Sizes
        <5> QED BY <5>1, Sizes
      <4> QED BY <4>1 DEF PlaceOf
    <3>2. first = b + io.offset
      BY <1>5, <3>1
    <3> HIDE DEF first, t, s
    <3>3. p = b + o
      BY <1>4, <2>2, <3>2
    <3> QED BY <3>1, <3>3
  <2>4. TrackOf(p) = t /\ SectorOf(p) = s /\ ByteOf(p) = o
    <3> HIDE DEF o, t, s
    <3> QED BY <1>1, <1>4, <2>1, <2>3, PlaceUnique
  <2>5. Content'[p] = Found(p)'
    BY ContentFound
  <2>6. Found(p)' = IF TrackOf(p) = fd'.track /\ "DECODED" \in state'[SectorOf(p)]
                    THEN raw'[SectorOf(p)][ByteOf(p)]
                    ELSE disk'[TrackOf(p)][SectorOf(p)][ByteOf(p)]
    BY DEF Found, TrackOf, SectorOf, ByteOf
  <2>7. Found(p)' = raw'[s][o]
    BY <1>1, <1>3, <1>8, <2>4, <2>6
  <2>8. Content'[first + i - 1] = raw'[s][o]
    BY <2>2, <2>5, <2>7
  <2> QED BY <1>8, <2>8
<1>12. [i \in 1 .. n |-> new[io.offset + i - 1]]
         = [i \in 1 .. n |-> Content'[first + i - 1]]
  <2> HIDE DEF first
  <2> QED BY <1>11
<1>13. D!Transfer(io.client, n)
  <2> DEFINE moved == [i \in 1 .. n |-> Content'[first + i - 1]]
  <2>1. req' = [req EXCEPT ![io.client].left = r.left - n,
                           ![io.client].buf = r.buf \o moved]
    <3> HIDE DEF moved
    <3>1. req' = [req EXCEPT ![io.client].left = @ - n,
                             ![io.client].buf = @ \o moved]
      BY <1>2, <1>12 DEF moved
    <3> QED BY <3>1
  <2> QED BY <1>3, <1>10, <2>1 DEF D!Transfer, D!Place
<1> QED BY <1>1, <1>13

(* What is kept until the timer runs out while no delay waits for it: neither *)
(* of the three parts needs the later ones                                    *)
Apart == IInv /\ BufferInv /\ ServedInv

(* A disk begins empty, and so does the cache                                 *)
LEMMA InitDrive == Init => D!Init
<1> SUFFICES ASSUME Init PROVE D!Init
  OBVIOUS
<1>1. \A p \in 0 .. FLOPPY_SIZE - 1 : Found(p) = 0
  <2> SUFFICES ASSUME NEW p \in 0 .. FLOPPY_SIZE - 1 PROVE Found(p) = 0
    OBVIOUS
  <2>1. /\ TrackOf(p) \in Track /\ SectorOf(p) \in Sector
        /\ ByteOf(p) \in 0 .. SECTOR_SIZE - 1
    BY Places
  <2> QED BY <2>1 DEF Init, Found, Blank, Track
<1>2. Content = [p \in 0 .. FLOPPY_SIZE - 1 |-> 0]
  BY <1>1, ContentFound
<1> QED BY <1>2 DEF Init, D!Init, D!Place

(* What is found depends on the cache and the disk alone                      *)
LEMMA FoundLater ==
  ASSUME NEW p \in 0 .. FLOPPY_SIZE - 1
  PROVE  Found(p)' = IF TrackOf(p) = fd'.track /\ "DECODED" \in state'[SectorOf(p)]
                     THEN raw'[SectorOf(p)][ByteOf(p)]
                     ELSE disk'[TrackOf(p)][SectorOf(p)][ByteOf(p)]
  BY DEF Found, TrackOf, SectorOf, ByteOf

LEMMA NotSeen ==
  ASSUME UNCHANGED <<raw, disk>>, fd'.track = fd.track,
         \A s \in Sector : "DECODED" \in state'[s] <=> "DECODED" \in state[s]
  PROVE  Content' = Content
<1> SUFFICES ASSUME NEW p \in 0 .. FLOPPY_SIZE - 1 PROVE Found(p)' = Found(p)
  BY SameContent
<1>1. SectorOf(p) \in Sector
  BY Places
<1> QED BY <1>1, FoundLater DEF Found

ContentOK == Content \in [0 .. FLOPPY_SIZE - 1 -> Byte]

(* A step of the driver is a step of the drive, or is not seen by the clients *)
LEMMA DriveStep ==
  ASSUME Apart, ContentOK', [Next]_vars
  PROVE  D!Works \/ UNCHANGED <<Content, req, refused>>
<1> USE DEF Busy, Moving, READ, WRITE
<1>0. /\ IInv /\ BufferInv /\ ServedInv
      /\ io \in Locals /\ fd \in Device /\ io.cmd \in {READ, WRITE}
      /\ req \in [Clients -> Request \cup {None}]
      /\ disk \in [Track -> [Sector -> Data]] /\ refused \in BOOLEAN
  BY DEF Apart, Locals, IInv, Core, TypeOK
<1>core. Core
  BY <1>0 DEF IInv
<1>1. CASE Content' = Content /\ UNCHANGED <<req, refused>>
  BY <1>1
<1>2. CASE Content' = Content /\ UNCHANGED req /\ refused' = TRUE
  BY <1>2 DEF D!Works, D!Refuse
<1>3. CASE /\ \/ Start \/ Outwards \/ Home \/ \E c \in Clients : GetMsg(c)
              \/ FloppyMotorOff \/ Travel \/ Transfer \/ TransferWritten
              \/ Written \/ NextTrack \/ TimerFires \/ MoveTab
              \/ \E c \in Clients : DoMsg(c)
              \/ UNCHANGED vars
  <2>1. UNCHANGED <<state, raw, disk, refused>> /\ fd'.track = fd.track
    BY <1>0, <1>3, Calm
  <2>2. Content' = Content
    BY <2>1, NotSeen
  <2>3. UNCHANGED req
    BY <1>3 DEF Start, Outwards, Home, GetMsg, FloppyMotorOff, Travel, Transfer,
         TransferWritten, Written, NextTrack, TimerFires, MoveTab, vars, DoMsg
  <2> QED BY <1>1, <2>1, <2>2, <2>3
<1>4. ASSUME NEW c \in Clients, FloppyReadWrite(c) PROVE D!Works \/ UNCHANGED <<Content, req, refused>>
  <2>1. PICK r \in Request :
          /\ req[c] = None /\ req' = [req EXCEPT ![c] = r]
          /\ r.left > 0 /\ r.offset + r.left <= FLOPPY_SIZE /\ r.buf = <<>>
    BY <1>core, <1>4, Asks
  <2>2. UNCHANGED <<state, raw, disk, refused>> /\ fd'.track = fd.track
    BY <1>0, <1>4, Calm
  <2>3. Content' = Content
    BY <2>2, NotSeen
  <2>4. r \in D!Request /\ r.offset + r.left <= FLOPPY_SIZE
    <3>1. /\ r.offset \in 0 .. FLOPPY_SIZE - 1
          /\ r.left \in 1 .. FLOPPY_SIZE
      BY <2>1, Sizes DEF Request
    <3> QED BY <2>1, <3>1 DEF Request, D!Request, D!Place
  <2>5. req'[c] = r
    BY <1>0, <2>1
  <2>6. D!Ask(c)
    BY <2>1, <2>2, <2>3, <2>4, <2>5 DEF D!Ask
  <2> QED BY <2>6 DEF D!Works
<1>5. CASE ReplyMsg
  <2>1. /\ io.client \in Clients /\ req[io.client] # None
        /\ req[io.client].left = 0
        /\ req' = [req EXCEPT ![io.client] = None]
    BY <1>0, <1>5 DEF ReplyMsg, IInv, Core, RequestInv, Serving
  <2>2. UNCHANGED <<state, raw, disk, refused>> /\ fd'.track = fd.track
    BY <1>0, <1>5, Calm
  <2>3. Content' = Content
    BY <2>2, NotSeen
  <2>4. D!Answer(io.client)
    BY <2>1, <2>2, <2>3 DEF D!Answer
  <2> QED BY <2>1, <2>4 DEF D!Works
<1>6. CASE ReadTrack
  <2>1. /\ MoveTo(READ) /\ io.pc = "serve" /\ io.track \in Track
        /\ UNCHANGED <<media, req>>
    BY <1>core, <1>6, TrackKnown DEF ReadTrack
  <2>2. fd'.track = fd.track
    BY <1>core, <2>1, Turns
  <2>3. Content' = Content
    BY <2>1, <2>2, NotSeen DEF media
  <2> QED BY <1>1, <2>1, <2>3 DEF media
<1>7. CASE WriteTrack
  <2>1. io.pc = "serve" /\ io.track \in Track /\ UNCHANGED <<raw, disk, req>>
    BY <1>core, <1>7, TrackKnown DEF WriteTrack
  <2>2. CASE WriteProtected
    <3>1. UNCHANGED <<fd, state>> /\ refused' = TRUE
      BY <1>7, <2>2 DEF WriteTrack
    <3>2. Content' = Content
      BY <2>1, <3>1, NotSeen
    <3> QED BY <1>2, <2>1, <3>1, <3>2
  <2>3. CASE ~ WriteProtected
    <3>1. /\ MoveTo(WRITE) /\ refused' = refused
          /\ state' = [s \in Sector |-> state[s] \ {"DIRTY"}]
      BY <1>7, <2>3 DEF WriteTrack
    <3>2. fd'.track = fd.track
      BY <1>core, <2>1, <3>1, Turns
    <3>3. Content' = Content
      BY <2>1, <3>1, <3>2, NotSeen
    <3> QED BY <1>1, <2>1, <3>1, <3>3
  <2> QED BY <2>2, <2>3
<1>8. CASE TransferRead
  <2>1. /\ io.cmd = READ /\ io.pc = "transfer" /\ state' = [s \in Sector |-> {}]
        /\ UNCHANGED <<req, raw, disk, refused>>
    BY <1>0, <1>8, Over DEF TransferRead, Forget
  <2>2. CASE refused
    <3>1. Content' \in [0 .. FLOPPY_SIZE - 1 -> Byte]
      BY DEF ContentOK
    <3> QED BY <2>1, <2>2, <3>1 DEF D!Works, D!Lose, D!Place
  <2>3. CASE ~ refused
    <3>1. \A p \in 0 .. FLOPPY_SIZE - 1 : Found(p)' = Found(p)
      <4> SUFFICES ASSUME NEW p \in 0 .. FLOPPY_SIZE - 1
                   PROVE  Found(p)' = Found(p)
        OBVIOUS
      <4>1. SectorOf(p) \in Sector
        BY Places
      <4>2. Found(p)' = disk[TrackOf(p)][SectorOf(p)][ByteOf(p)]
        BY <2>1, <4>1, FoundLater
      <4>3. "DECODED" \in state[SectorOf(p)] =>
              raw[SectorOf(p)] = disk[fd.track][SectorOf(p)]
        BY <1>0, <2>1, <2>3, <4>1 DEF BufferInv
      <4> QED BY <4>2, <4>3 DEF Found
    <3> QED BY <1>1, <2>1, <3>1, SameContent
  <2> QED BY <2>2, <2>3
<1>9. CASE CopySector
  <2>1. /\ io.client \in Clients /\ req[io.client] # None
        /\ \E n \in 1 .. req[io.client].left : D!Transfer(io.client, n)
    BY <1>0, <1>9, CopyTransfers
  <2> QED BY <2>1 DEF D!Works
<1>10. CASE TrackTransferDone
  <2>1. /\ dma \in {READ, WRITE} /\ UNCHANGED <<req, fd, state, raw>>
        /\ disk' = IF dma = WRITE /\ ~ protect THEN [disk EXCEPT ![Under] = buffer]
                   ELSE disk
        /\ refused' = (refused \/ (dma = WRITE /\ protect))
    BY <1>core, <1>10, WholeTrack DEF TrackTransferDone, Core
  <2>2. CASE disk' = disk
    <3>1. Content' = Content
      BY <2>1, <2>2, NotSeen
    <3> QED BY <1>0, <1>1, <1>2, <2>1, <3>1
  <2>3. CASE dma = WRITE /\ ~ protect
    <3>1. io.pc = "transfer" /\ io.cmd = WRITE
      BY <1>0, <2>3 DEF IInv, Core, WaitInv
    <3>2. Under = io.track /\ io.track \in Track /\ fd.track = io.track
      BY <1>0, <3>1 DEF IInv, Core, HeadInv, RequestInv, BufferInv
    <3>3. \A s \in Sector : "DECODED" \notin state[s] =>
            buffer[s] = disk[fd.track][s]
      BY <1>0, <3>1, <3>2 DEF BufferInv, Track
    <3>4. \A p \in 0 .. FLOPPY_SIZE - 1 : Found(p)' = Found(p)
      <4> SUFFICES ASSUME NEW p \in 0 .. FLOPPY_SIZE - 1
                   PROVE  Found(p)' = Found(p)
        OBVIOUS
      <4>1. SectorOf(p) \in Sector /\ TrackOf(p) \in Track
        BY Places
      <4>2. disk' = [disk EXCEPT ![fd.track] = buffer]
        BY <2>1, <2>3, <3>2
      <4> QED BY <1>0, <2>1, <3>2, <3>3, <4>1, <4>2, FoundLater DEF Found
    <3> QED BY <1>0, <1>1, <2>1, <2>3, <3>4, SameContent
  <2> QED BY <2>1, <2>2, <2>3
<1> QED BY <1>3, <1>4, <1>5, <1>6, <1>7, <1>8, <1>9, <1>10 DEF Next, IoTask, Hardware

(* The clients of the driver see a drive in which each byte is what was last  *)
(* written there, whatever is cached, decoded, dirty or under way; only when  *)
(* the disk has refused to be written may data be lost (drivers/floppy.c), or *)
(* once the timer has run out while no delay waited for it                    *)
THEOREM DriveImplemented == Spec => ImplementsDrive
<1> DEFINE Inv == Core /\ ServedInv /\ (~ missed => Apart)
<1>1. Init => Inv
  BY InitInv, InitBuffer, InitServed DEF Apart, IInv
<1>2. Inv /\ [Next]_vars => Inv'
  <2> SUFFICES ASSUME Inv, [Next]_vars PROVE Inv'
    OBVIOUS
  <2>1. Core' /\ ServedInv'
    BY TypesStep, RequestStep, ServedStep DEF Core
  <2>2. ASSUME ~ missed' PROVE Apart'
    <3>1. Apart
      BY <2>2, MissedStays
    <3>2. WaitInv' /\ HeadInv' /\ CacheInv' /\ BufferInv'
      BY <2>2, <3>1, WaitStep, HeadStep, CacheStep, BufferStep DEF Apart
    <3> QED BY <2>1, <3>2 DEF Apart, IInv
  <2> QED BY <2>1, <2>2
<1>3. Inv => ContentOK
  BY ContentType DEF Core, ContentOK
<1>4. Inv /\ ContentOK' /\ [Next]_vars => [D!Next]_D!vars
  <2> SUFFICES ASSUME Inv, ContentOK', [Next]_vars PROVE [D!Next]_D!vars
    OBVIOUS
  <2>1. CASE missed'
    BY <2>1 DEF D!Next
  <2>2. CASE ~ missed'
    <3>1. ~ missed /\ Apart
      BY <2>2, MissedStays
    <3>2. missed' = missed
      BY <2>2, <3>1, <1>2 DEF Core, TypeOK
    <3>3. D!Works \/ UNCHANGED <<Content, req, refused>>
      BY <3>1, DriveStep
    <3> QED BY <3>1, <3>2, <3>3 DEF D!Next, D!vars
  <2> QED BY <2>1, <2>2
<1> QED BY <1>1, <1>2, <1>3, <1>4, InitDrive, PTL DEF Spec, ImplementsDrive, D!Spec

HIDE FloppyAssumption

------------------------------------------------------------------------------
(* The timers of the CIA chips                                                *)

USE CiaAssumption

Flags == {"TA", "TB", "SP"}

(* where a task is once it has acquired a timer                               *)
Owning == {"acquired", "idle", "load", "wait", "turn on", "sleep"}

On(c) == {s \in Server : Chip(s) = c}

(* The flag of a timer has been set, and nobody has asked for it yet          *)
Up(m) == Flag(m) \in icr[Chip(m)] \cup pending[Chip(m)]

TypeInv ==
  /\ icr \in [Chips -> SUBSET Flags] /\ pending \in [Chips -> SUBSET Flags]
  /\ running \subseteq Timer
  /\ owner \in [Timer -> Task \cup {Nobody, Keyboard}]
  /\ waiter \in [Timer -> Task \cup {Nobody}]
  /\ pc \in [Task -> {"none"} \cup Owning]
  /\ notified \in [Task -> BOOLEAN]

(* The servers in a chain belong to its chip                                  *)
ChainInv ==
  /\ chain \in [Chips -> Seq(Server)] /\ \A c \in Chips : chain[c] \in Seq(On(c))
  /\ rest \in [Chips -> Seq(Server)] /\ \A c \in Chips : rest[c] \in Seq(On(c))

(* A task that is not at its start owns one timer, the keyboard owns its own  *)
OwnerInv ==
  /\ \A m \in Timer : owner[m] = Keyboard <=> m = KeyTimer
  /\ \A m, n \in Timer : owner[m] \in Task /\ owner[m] = owner[n] => m = n
  /\ \A t \in Task : pc[t] # "none" <=> \E m \in Timer : owner[m] = t

(* As long as no timer has run out for nobody, its flag is up only while its  *)
(* task sleeps and is noted as the one to notify.  A timer may count at any   *)
(* other time, left over from a delay that was cut short; its task is noted   *)
(* as soon as it is past that step.  A task that has been notified finds its  *)
(* timer at rest                                                              *)
DelayOf(m) ==
  /\ Up(m) =>
       /\ m \notin running
       /\ owner[m] \in Task /\ pc[owner[m]] = "sleep" /\ waiter[m] = owner[m]
  /\ m \in running /\ owner[m] \in Task /\ pc[owner[m]] \in {"turn on", "sleep"} =>
       waiter[m] = owner[m]
  /\ owner[m] \in Task /\ notified[owner[m]] => m \notin running /\ ~ Up(m)

DelayInv ==
  /\ \A m \in Timer \ {KeyTimer} : DelayOf(m)
  /\ \A t \in Task : notified[t] => pc[t] = "sleep"

(* The keyboard's timer counts, and its flag is up, inside WaitTimerSpin only *)
KeyInv ==
  /\ waiter[KeyTimer] = Nobody
  /\ KeyTimer \in running \/ Up(KeyTimer) => spin
  /\ Up(KeyTimer) => KeyTimer \notin running

CiaIInv == TypeInv /\ ChainInv /\ OwnerInv /\ DelayInv /\ KeyInv

------------------------------------------------------------------------------
(* Helpers *)

LEMMA TimerFlags ==
  /\ \A m \in Timer : Chip(m) \in Chips /\ Flag(m) \in {"TA", "TB"}
  /\ \A m, n \in Timer : Chip(m) = Chip(n) /\ Flag(m) = Flag(n) => m = n
<1>1. Timer = {0, 1, 2, 3}
  BY DEF Timer
<1>2. /\ Chip(0) = "A" /\ Chip(1) = "A" /\ Chip(2) = "B" /\ Chip(3) = "B"
      /\ Flag(0) = "TA" /\ Flag(1) = "TB" /\ Flag(2) = "TA" /\ Flag(3) = "TB"
  BY DEF Chip, Flag, Keyboard
<1>3. \A m \in {0, 1, 2, 3} : Chip(m) \in Chips /\ Flag(m) \in {"TA", "TB"}
  BY <1>2 DEF Chips
<1>4. \A m, n \in {0, 1, 2, 3} : Chip(m) = Chip(n) /\ Flag(m) = Flag(n) => m = n
  BY <1>2
<1> QED BY <1>1, <1>3, <1>4

(* the least element of a set of numbers                                      *)
LEMMA MinExists ==
  ASSUME NEW S, S \subseteq Nat, S # {}
  PROVE  Min(S) \in S /\ \A y \in S : Min(S) <= y
<1> DEFINE Less == OpToRel(<, Nat)
<1>1. \A x, y \in Nat : x < y => <<x, y>> \in Less
  BY DEF OpToRel
<1>2. IsWellFoundedOn(Less, Nat)
  BY NatLessThanWellFounded
<1> HIDE DEF Less
<1>3. PICK x \in S : \A y \in S : ~ <<y, x>> \in Less
  BY <1>2, WFMin
<1>4. ASSUME NEW y \in S PROVE x <= y
  <2>1. x \in Nat /\ y \in Nat
    OBVIOUS
  <2>2. ~ (y < x)
    BY <1>1, <1>3, <2>1, Zenon
  <2> QED BY <2>1, <2>2
<1> QED BY <1>3, <1>4 DEF Min

LEMMA SampleUp ==
  ASSUME TypeInv, NEW c \in Chips, NEW flags \in SUBSET Flags, SampleICR(c, flags)
  PROVE  /\ icr' \in [Chips -> SUBSET Flags] /\ pending' \in [Chips -> SUBSET Flags]
         /\ \A m \in Timer :
              Up(m)' <=> Up(m) /\ ~ (Chip(m) = c /\ Flag(m) \in flags)
<1>1. /\ icr \in [Chips -> SUBSET Flags] /\ pending \in [Chips -> SUBSET Flags]
      /\ icr' = [icr EXCEPT ![c] = {}]
      /\ pending' = [pending EXCEPT ![c] = (@ \cup icr[c]) \ flags]
  BY DEF SampleICR, TypeInv
<1>2. /\ icr' \in [Chips -> SUBSET Flags] /\ pending' \in [Chips -> SUBSET Flags]
  BY <1>1
<1>3. \A d \in Chips : icr'[d] \cup pending'[d] =
        IF d = c THEN (icr[d] \cup pending[d]) \ flags ELSE icr[d] \cup pending[d]
  BY <1>1
<1>4. ASSUME NEW m \in Timer
      PROVE  Up(m)' <=> Up(m) /\ ~ (Chip(m) = c /\ Flag(m) \in flags)
  BY <1>3, TimerFlags DEF Up
<1> QED BY <1>2, <1>4

LEMMA FlagUp ==
  ASSUME TypeInv, NEW c \in Chips, NEW f \in Flags,
         icr' = [icr EXCEPT ![c] = @ \cup {f}], pending' = pending
  PROVE  /\ icr' \in [Chips -> SUBSET Flags]
         /\ \A m \in Timer : Up(m)' <=> Up(m) \/ (Chip(m) = c /\ Flag(m) = f)
<1>1. icr \in [Chips -> SUBSET Flags]
  BY DEF TypeInv
<1>2. icr' \in [Chips -> SUBSET Flags]
  BY <1>1
<1>3. \A d \in Chips : icr'[d] = IF d = c THEN icr[d] \cup {f} ELSE icr[d]
  BY <1>1
<1>4. ASSUME NEW m \in Timer
      PROVE  Up(m)' <=> Up(m) \/ (Chip(m) = c /\ Flag(m) = f)
  BY <1>3, TimerFlags DEF Up
<1> QED BY <1>2, <1>4

LEMMA GotoType ==
  ASSUME TypeInv, NEW t \in Task, NEW l \in {"none"} \cup Owning, Goto(t, l)
  PROVE  /\ pc' \in [Task -> {"none"} \cup Owning] /\ pc'[t] = l
         /\ \A s \in Task : s # t => pc'[s] = pc[s]
  BY DEF TypeInv, Goto

(* a task past its start has exactly one timer                                *)
LEMMA OwnTimer ==
  ASSUME OwnerInv, NEW t \in Task, pc[t] # "none"
  PROVE  /\ TimerOf(t) \in Timer \ {KeyTimer} /\ owner[TimerOf(t)] = t
         /\ \A m \in Timer : owner[m] = t => m = TimerOf(t)
<1>1. \E m \in Timer : owner[m] = t
  BY DEF OwnerInv
<1>2. TimerOf(t) \in Timer /\ owner[TimerOf(t)] = t
  BY <1>1 DEF TimerOf
<1>3. t # Keyboard
  OBVIOUS
<1>4. TimerOf(t) # KeyTimer
  BY <1>2, <1>3 DEF OwnerInv
<1> QED BY <1>2, <1>4 DEF OwnerInv

LEMMA OwnerKept ==
  ASSUME OwnerInv, owner' = owner,
         \A t \in Task : pc'[t] = "none" <=> pc[t] = "none"
  PROVE  OwnerInv'
  BY DEF OwnerInv

(* a step of one task leaves the delays of the others alone                   *)
LEMMA DelayOther ==
  ASSUME NEW t \in Task, NEW n \in Timer, DelayOf(n), owner[n] # t,
         owner'[n] = owner[n], waiter'[n] = waiter[n],
         n \in running' <=> n \in running, Up(n)' <=> Up(n),
         \A s \in Task : s # t => pc'[s] = pc[s] /\ notified'[s] = notified[s]
  PROVE  DelayOf(n)'
  BY DEF DelayOf

LEMMA SeqOn ==
  ASSUME NEW c \in Chips, NEW s \in Seq(On(c))
  PROVE  s \in Seq(Server)
<1>1. On(c) \subseteq Server
  BY DEF On
<1> QED BY <1>1

------------------------------------------------------------------------------
(* Tasks *)

LEMMA AcquireTimerStep ==
  ASSUME CiaIInv, NEW t \in Task, AcquireTimer(t)
  PROVE  CiaIInv'
<1> DEFINE k == Min({m \in Timer : owner[m] = Nobody})
<1>1. /\ pc[t] = "none" /\ pc' \in [Task -> {"none"} \cup Owning] /\ pc'[t] = "acquired"
      /\ \A s \in Task : s # t => pc'[s] = pc[s]
      /\ UNCHANGED <<icr, pending, chain, rest, running, waiter, notified, spin>>
  BY GotoType DEF AcquireTimer, At, chips, keyboard, CiaIInv, Owning
<1>2. k \in Timer /\ owner[k] = Nobody /\ owner' = [owner EXCEPT ![k] = t]
  <2>1. {m \in Timer : owner[m] = Nobody} \subseteq Nat
        /\ {m \in Timer : owner[m] = Nobody} # {}
    BY DEF AcquireTimer, Timer
  <2>2. k \in {m \in Timer : owner[m] = Nobody}
    BY <2>1, MinExists
  <2> QED BY <2>2 DEF AcquireTimer
<1> HIDE DEF k
<1>3. /\ owner' \in [Timer -> Task \cup {Nobody, Keyboard}] /\ owner'[k] = t
      /\ \A m \in Timer : m # k => owner'[m] = owner[m]
      /\ \A m \in Timer : owner[m] # t
      /\ k # KeyTimer
  BY <1>1, <1>2 DEF CiaIInv, TypeInv, OwnerInv
<1>4. TypeInv' /\ ChainInv'
  BY <1>1, <1>3 DEF CiaIInv, TypeInv, ChainInv
<1>5. OwnerInv'
  <2>1. \A m \in Timer : owner'[m] = Keyboard <=> m = KeyTimer
    BY <1>2, <1>3 DEF CiaIInv, OwnerInv
  <2>2. \A m, n \in Timer : owner'[m] \in Task /\ owner'[m] = owner'[n] => m = n
    BY <1>3 DEF CiaIInv, OwnerInv
  <2>3. ASSUME NEW s \in Task
        PROVE  pc'[s] # "none" <=> \E m \in Timer : owner'[m] = s
    <3>1. CASE s = t
      BY <1>1, <1>2, <1>3, <3>1
    <3>2. CASE s # t
      <4>1. \A m \in Timer : owner'[m] = s <=> owner[m] = s
        BY <1>2, <1>3, <3>2
      <4> QED BY <1>1, <3>2, <4>1 DEF CiaIInv, OwnerInv
    <3> QED BY <3>1, <3>2
  <2> QED BY <2>1, <2>2, <2>3 DEF OwnerInv
<1>6. \A m \in Timer : Up(m)' <=> Up(m)
  BY <1>1 DEF Up
<1>7. ~ Up(k) /\ ~ notified[t]
  <2>1. DelayOf(k)
    BY <1>2, <1>3 DEF CiaIInv, DelayInv
  <2> QED BY <1>1, <1>2, <2>1 DEF DelayOf, CiaIInv, DelayInv
<1>8. DelayInv'
  <2>1. ASSUME NEW n \in Timer \ {KeyTimer} PROVE DelayOf(n)'
    <3>1. CASE n = k
      BY <1>1, <1>2, <1>3, <1>6, <1>7, <3>1 DEF DelayOf
    <3>2. CASE n # k
      BY <1>1, <1>3, <1>6, <2>1, <3>2, DelayOther DEF CiaIInv, DelayInv
    <3> QED BY <3>1, <3>2
  <2> QED BY <1>1, <1>7, <2>1 DEF CiaIInv, DelayInv
<1>9. KeyInv'
  <2>1. KeyTimer \in Timer
    BY DEF KeyTimer, Timer
  <2> QED BY <1>1, <1>6, <2>1 DEF CiaIInv, KeyInv
<1> QED BY <1>4, <1>5, <1>8, <1>9 DEF CiaIInv

LEMMA AddIntServerStep ==
  ASSUME CiaIInv, NEW t \in Task, AddIntServer(t)
  PROVE  CiaIInv'
<1> DEFINE m == TimerOf(t)
           c == Chip(m)
           later == {i \in DOMAIN chain[c] : Behind(chain[c][i]) > Behind(m)}
           place == IF later = {} THEN Len(chain[c]) + 1 ELSE Min(later)
<1>1. /\ pc[t] = "acquired" /\ pc' \in [Task -> {"none"} \cup Owning] /\ pc'[t] = "idle"
      /\ \A s \in Task : s # t => pc'[s] = pc[s]
      /\ chain' = [chain EXCEPT ![c] = InsertAt(@, place, m)]
      /\ UNCHANGED <<icr, pending, owner, rest, running, waiter, notified, spin>>
  BY GotoType DEF AddIntServer, At, keyboard, CiaIInv, Owning
<1>2. m \in Timer \ {KeyTimer} /\ owner[m] = t /\ c \in Chips
  BY <1>1, OwnTimer, TimerFlags DEF CiaIInv
<1>3. ChainInv'
  <2>1. chain \in [Chips -> Seq(Server)] /\ chain[c] \in Seq(On(c))
    BY <1>2 DEF CiaIInv, ChainInv
  <2>2. place \in 1 .. Len(chain[c]) + 1
    <3>1. CASE later = {}
      <4>1. Len(chain[c]) \in Nat /\ place = Len(chain[c]) + 1
        BY <2>1, <3>1
      <4> QED BY <4>1
    <3>2. CASE later # {}
      <4>1. later \subseteq DOMAIN chain[c] /\ later \subseteq Nat
        BY <2>1
      <4>2. Min(later) \in later
        BY <3>2, <4>1, MinExists
      <4>3. place = Min(later) /\ Min(later) \in DOMAIN chain[c]
        BY <3>2, <4>1, <4>2
      <4>4. DOMAIN chain[c] = 1 .. Len(chain[c]) /\ Len(chain[c]) \in Nat
        BY <2>1
      <4> HIDE DEF place, c
      <4> QED BY <4>3, <4>4
    <3> QED BY <3>1, <3>2
  <2> HIDE DEF place
  <2>3. m \in On(c)
    BY <1>2 DEF On, Server
  <2> HIDE DEF m, c
  <2>4. InsertAt(chain[c], place, m) \in Seq(On(c))
    <3> DEFINE S == On(c)
               s == chain[c]
    <3>1. s \in Seq(S) /\ m \in S /\ place \in 1 .. Len(s) + 1
      BY <2>1, <2>2, <2>3
    <3> HIDE DEF S, s
    <3>2. SubSeq(s, 1, place - 1) \in Seq(S) /\ SubSeq(s, place, Len(s)) \in Seq(S)
      <4>1. /\ place \in Int /\ place - 1 \in Int /\ Len(s) \in Int
            /\ \A i \in 1 .. place - 1 : s[i] \in S
            /\ \A i \in place .. Len(s) : s[i] \in S
        BY <3>1
      <4> QED BY <4>1, SubSeqProperties
    <3>3. SubSeq(s, 1, place - 1) \o <<m>> \o SubSeq(s, place, Len(s)) \in Seq(S)
      <4>1. <<m>> \in Seq(S)
        BY <3>1
      <4>2. SubSeq(s, 1, place - 1) \o <<m>> \in Seq(S)
        BY <3>2, <4>1, ConcatProperties
      <4> QED BY <3>2, <4>2, ConcatProperties
    <3> QED BY <3>3 DEF InsertAt, S, s
  <2>5. InsertAt(chain[c], place, m) \in Seq(Server)
    BY <1>2, <2>4, SeqOn
  <2>6. chain' \in [Chips -> Seq(Server)] /\ \A d \in Chips : chain'[d] \in Seq(On(d))
    BY <1>1, <1>2, <2>1, <2>4, <2>5 DEF CiaIInv, ChainInv
  <2> QED BY <1>1, <2>6 DEF CiaIInv, ChainInv
<1> HIDE DEF m, c, place
<1>4. TypeInv'
  BY <1>1 DEF CiaIInv, TypeInv
<1>5. OwnerInv'
  BY <1>1, OwnerKept DEF CiaIInv
<1>6. \A n \in Timer : Up(n)' <=> Up(n)
  BY <1>1 DEF Up
<1>7. DelayInv'
  <2>1. ASSUME NEW n \in Timer \ {KeyTimer} PROVE DelayOf(n)'
    <3>1. CASE owner[n] = t
      BY <1>1, <1>6, <2>1, <3>1 DEF CiaIInv, DelayInv, DelayOf
    <3>2. CASE owner[n] # t
      BY <1>1, <1>6, <2>1, <3>2, DelayOther DEF CiaIInv, DelayInv
    <3> QED BY <3>1, <3>2
  <2> QED BY <1>1, <2>1 DEF CiaIInv, DelayInv
<1>8. KeyInv'
  <2>1. KeyTimer \in Timer
    BY DEF KeyTimer, Timer
  <2> QED BY <1>1, <1>6, <2>1 DEF CiaIInv, KeyInv
<1> QED BY <1>3, <1>4, <1>5, <1>7, <1>8 DEF CiaIInv

LEMMA ReleaseTimerStep ==
  ASSUME CiaIInv, NEW t \in Task, ReleaseTimer(t)
  PROVE  CiaIInv'
<1> DEFINE m == TimerOf(t)
           c == Chip(m)
<1>1. /\ pc[t] = "idle" /\ pc' \in [Task -> {"none"} \cup Owning] /\ pc'[t] = "none"
      /\ \A s \in Task : s # t => pc'[s] = pc[s]
      /\ owner' = [owner EXCEPT ![m] = Nobody]
      /\ UNCHANGED <<icr, pending, rest, running, waiter, notified, spin>>
  BY GotoType DEF ReleaseTimer, At, chips, keyboard, CiaIInv, Owning
<1>2. m \in Timer \ {KeyTimer} /\ owner[m] = t /\ c \in Chips
      /\ \A n \in Timer : owner[n] = t => n = m
  BY <1>1, OwnTimer, TimerFlags DEF CiaIInv
<1>3. ChainInv'
  <2>1. PICK i \in DOMAIN chain[c] : chain' = [chain EXCEPT ![c] = RemoveAt(@, i)]
    BY DEF ReleaseTimer
  <2>2. chain \in [Chips -> Seq(Server)] /\ chain[c] \in Seq(On(c))
    BY <1>2 DEF CiaIInv, ChainInv
  <2> HIDE DEF m, c
  <2>3. RemoveAt(chain[c], i) \in Seq(On(c))
    <3> DEFINE S == On(c)
               s == chain[c]
    <3>1. s \in Seq(S) /\ i \in 1 .. Len(s)
      BY <2>1, <2>2
    <3> HIDE DEF S, s
    <3>2. SubSeq(s, 1, i - 1) \in Seq(S) /\ SubSeq(s, i + 1, Len(s)) \in Seq(S)
      <4>1. /\ i - 1 \in Int /\ i + 1 \in Int /\ Len(s) \in Int
            /\ \A j \in 1 .. i - 1 : s[j] \in S
            /\ \A j \in i + 1 .. Len(s) : s[j] \in S
        BY <3>1
      <4> QED BY <4>1, SubSeqProperties
    <3>3. SubSeq(s, 1, i - 1) \o SubSeq(s, i + 1, Len(s)) \in Seq(S)
      BY <3>2, ConcatProperties
    <3> QED BY <3>3 DEF RemoveAt, S, s
  <2>4. RemoveAt(chain[c], i) \in Seq(Server)
    BY <1>2, <2>3, SeqOn
  <2>5. chain' \in [Chips -> Seq(Server)] /\ \A d \in Chips : chain'[d] \in Seq(On(d))
    BY <1>2, <2>1, <2>2, <2>3, <2>4 DEF CiaIInv, ChainInv
  <2> QED BY <1>1, <2>5 DEF CiaIInv, ChainInv
<1> HIDE DEF m, c
<1>4. /\ owner' \in [Timer -> Task \cup {Nobody, Keyboard}] /\ owner'[m] = Nobody
      /\ \A n \in Timer : n # m => owner'[n] = owner[n] /\ owner[n] # t
  BY <1>1, <1>2 DEF CiaIInv, TypeInv
<1>5. TypeInv'
  BY <1>1, <1>4 DEF CiaIInv, TypeInv
<1>6. OwnerInv'
  BY <1>1, <1>2, <1>4 DEF CiaIInv, OwnerInv
<1>7. \A n \in Timer : Up(n)' <=> Up(n)
  BY <1>1 DEF Up
<1>8. ~ Up(m) /\ ~ notified[t]
  <2>1. DelayOf(m)
    BY <1>2 DEF CiaIInv, DelayInv
  <2> QED BY <1>1, <1>2, <2>1 DEF DelayOf, CiaIInv, DelayInv
<1>9. DelayInv'
  <2>1. ASSUME NEW n \in Timer \ {KeyTimer} PROVE DelayOf(n)'
    <3>1. CASE n = m
      BY <1>1, <1>2, <1>4, <1>7, <1>8, <3>1 DEF DelayOf
    <3>2. CASE n # m
      BY <1>1, <1>4, <1>7, <2>1, <3>2, DelayOther DEF CiaIInv, DelayInv
    <3> QED BY <3>1, <3>2
  <2> QED BY <1>1, <1>8, <2>1 DEF CiaIInv, DelayInv
<1>10. KeyInv'
  <2>1. KeyTimer \in Timer
    BY DEF KeyTimer, Timer
  <2> QED BY <1>1, <1>7, <2>1 DEF CiaIInv, KeyInv
<1> QED BY <1>3, <1>5, <1>6, <1>9, <1>10 DEF CiaIInv

LEMMA TurnOffStep ==
  ASSUME CiaIInv, NEW t \in Task, TurnOff(t)
  PROVE  CiaIInv'
<1>1. /\ pc[t] = "idle" /\ pc' \in [Task -> {"none"} \cup Owning] /\ pc'[t] = "load"
      /\ \A s \in Task : s # t => pc'[s] = pc[s]
      /\ UNCHANGED <<icr, pending, chain, owner, rest, running, waiter, notified, spin>>
  BY GotoType DEF TurnOff, At, WriteICR, keyboard, CiaIInv, Owning
<1>2. TypeInv' /\ ChainInv'
  BY <1>1 DEF CiaIInv, TypeInv, ChainInv
<1>3. OwnerInv'
  BY <1>1, OwnerKept DEF CiaIInv
<1>4. \A n \in Timer : Up(n)' <=> Up(n)
  BY <1>1 DEF Up
<1>5. DelayInv'
  <2>1. ASSUME NEW n \in Timer \ {KeyTimer} PROVE DelayOf(n)'
    <3>1. CASE owner[n] = t
      BY <1>1, <1>4, <2>1, <3>1 DEF CiaIInv, DelayInv, DelayOf
    <3>2. CASE owner[n] # t
      BY <1>1, <1>4, <2>1, <3>2, DelayOther DEF CiaIInv, DelayInv
    <3> QED BY <3>1, <3>2
  <2> QED BY <1>1, <2>1 DEF CiaIInv, DelayInv
<1>6. KeyInv'
  <2>1. KeyTimer \in Timer
    BY DEF KeyTimer, Timer
  <2> QED BY <1>1, <1>4, <2>1 DEF CiaIInv, KeyInv
<1> QED BY <1>2, <1>3, <1>5, <1>6 DEF CiaIInv

LEMMA LoadStep ==
  ASSUME CiaIInv, NEW t \in Task, Load(t)
  PROVE  CiaIInv'
<1> DEFINE m == TimerOf(t)
<1>1. /\ pc[t] = "load" /\ pc' \in [Task -> {"none"} \cup Owning] /\ pc'[t] = "wait"
      /\ \A s \in Task : s # t => pc'[s] = pc[s]
      /\ running' = running \cup {m}
      /\ UNCHANGED <<icr, pending, chain, owner, rest, waiter, notified, spin>>
  BY GotoType DEF Load, At, chips, keyboard, CiaIInv, Owning
<1>2. m \in Timer \ {KeyTimer} /\ owner[m] = t
      /\ \A n \in Timer : owner[n] = t => n = m
  BY <1>1, OwnTimer DEF CiaIInv
<1> HIDE DEF m
<1>3. TypeInv' /\ ChainInv'
  BY <1>1, <1>2 DEF CiaIInv, TypeInv, ChainInv
<1>4. OwnerInv'
  BY <1>1, OwnerKept DEF CiaIInv
<1>5. \A n \in Timer : Up(n)' <=> Up(n)
  BY <1>1 DEF Up
<1>6. DelayInv'
  <2>1. ASSUME NEW n \in Timer \ {KeyTimer} PROVE DelayOf(n)'
    <3>1. CASE n = m
      BY <1>1, <1>2, <1>5, <2>1, <3>1 DEF CiaIInv, DelayInv, DelayOf
    <3>2. CASE n # m
      <4>1. owner[n] # t /\ (n \in running' <=> n \in running) /\ notified' = notified
        BY <1>1, <1>2, <3>2 DEF Load
      <4>2. owner'[n] = owner[n] /\ waiter'[n] = waiter[n] /\ (Up(n)' <=> Up(n))
            /\ n \in Timer /\ TypeInv /\ DelayOf(n)
        BY <1>1, <1>5, <2>1 DEF CiaIInv, DelayInv
      <4>3. \A s \in Task : s # t => pc'[s] = pc[s] /\ notified'[s] = notified[s]
        BY <1>1, <4>1
      <4> QED BY <4>1, <4>2, <4>3, DelayOther
    <3> QED BY <3>1, <3>2
  <2> QED BY <1>1, <2>1 DEF CiaIInv, DelayInv
<1>7. KeyInv'
  <2>1. KeyTimer \in Timer
    BY DEF KeyTimer, Timer
  <2> QED BY <1>1, <1>2, <1>5, <2>1 DEF CiaIInv, KeyInv
<1> QED BY <1>3, <1>4, <1>6, <1>7 DEF CiaIInv

LEMMA SetWaiterStep ==
  ASSUME CiaIInv, NEW t \in Task, SetWaiter(t)
  PROVE  CiaIInv'
<1> DEFINE m == TimerOf(t)
<1>1. /\ pc[t] = "wait" /\ pc' \in [Task -> {"none"} \cup Owning] /\ pc'[t] = "turn on"
      /\ \A s \in Task : s # t => pc'[s] = pc[s]
      /\ waiter' = [waiter EXCEPT ![m] = t]
      /\ UNCHANGED <<icr, pending, chain, owner, rest, running, notified, spin>>
  BY GotoType DEF SetWaiter, At, chips, keyboard, CiaIInv, Owning
<1>2. m \in Timer \ {KeyTimer} /\ owner[m] = t
      /\ \A n \in Timer : owner[n] = t => n = m
  BY <1>1, OwnTimer DEF CiaIInv
<1> HIDE DEF m
<1>3. /\ waiter' \in [Timer -> Task \cup {Nobody}] /\ waiter'[m] = t
      /\ \A n \in Timer : n # m => waiter'[n] = waiter[n]
  BY <1>1, <1>2 DEF CiaIInv, TypeInv
<1>4. TypeInv' /\ ChainInv'
  BY <1>1, <1>3 DEF CiaIInv, TypeInv, ChainInv
<1>5. OwnerInv'
  BY <1>1, OwnerKept DEF CiaIInv
<1>6. \A n \in Timer : Up(n)' <=> Up(n)
  BY <1>1 DEF Up
<1>7. DelayInv'
  <2>1. ASSUME NEW n \in Timer \ {KeyTimer} PROVE DelayOf(n)'
    <3>1. CASE n = m
      BY <1>1, <1>2, <1>3, <1>6, <2>1, <3>1 DEF CiaIInv, DelayInv, DelayOf
    <3>2. CASE n # m
      <4>1. owner[n] # t /\ waiter'[n] = waiter[n]
        BY <1>2, <1>3, <3>2
      <4> QED BY <1>1, <1>6, <4>1, DelayOther DEF CiaIInv, DelayInv
    <3> QED BY <3>1, <3>2
  <2> QED BY <1>1, <2>1 DEF CiaIInv, DelayInv
<1>8. KeyInv'
  <2>1. KeyTimer \in Timer
    BY DEF KeyTimer, Timer
  <2>2. waiter'[KeyTimer] = waiter[KeyTimer]
    BY <1>2, <1>3, <2>1
  <2> QED BY <1>1, <1>6, <2>1, <2>2 DEF CiaIInv, KeyInv
<1> QED BY <1>4, <1>5, <1>7, <1>8 DEF CiaIInv

LEMMA TurnOnStep ==
  ASSUME CiaIInv, NEW t \in Task, TurnOn(t)
  PROVE  CiaIInv'
<1>1. /\ pc[t] = "turn on" /\ pc' \in [Task -> {"none"} \cup Owning] /\ pc'[t] = "sleep"
      /\ \A s \in Task : s # t => pc'[s] = pc[s]
      /\ UNCHANGED <<icr, pending, chain, owner, rest, running, waiter, notified, spin>>
  BY GotoType DEF TurnOn, At, WriteICR, keyboard, CiaIInv, Owning
<1>2. TypeInv' /\ ChainInv'
  BY <1>1 DEF CiaIInv, TypeInv, ChainInv
<1>3. OwnerInv'
  BY <1>1, OwnerKept DEF CiaIInv
<1>4. \A n \in Timer : Up(n)' <=> Up(n)
  BY <1>1 DEF Up
<1>5. DelayInv'
  <2>1. ASSUME NEW n \in Timer \ {KeyTimer} PROVE DelayOf(n)'
    <3>1. CASE owner[n] = t
      BY <1>1, <1>4, <2>1, <3>1 DEF CiaIInv, DelayInv, DelayOf
    <3>2. CASE owner[n] # t
      BY <1>1, <1>4, <2>1, <3>2, DelayOther DEF CiaIInv, DelayInv
    <3> QED BY <3>1, <3>2
  <2> QED BY <1>1, <2>1 DEF CiaIInv, DelayInv
<1>6. KeyInv'
  <2>1. KeyTimer \in Timer
    BY DEF KeyTimer, Timer
  <2> QED BY <1>1, <1>4, <2>1 DEF CiaIInv, KeyInv
<1> QED BY <1>2, <1>3, <1>5, <1>6 DEF CiaIInv

(* a task that has been notified finds its timer at rest                      *)
LEMMA NotifiedIsOver ==
  ASSUME CiaIInv, NEW t \in Task, notified[t], NEW m \in Timer \ {KeyTimer}, owner[m] = t
  PROVE  m \notin running /\ ~ Up(m)
  BY DEF CiaIInv, DelayInv, DelayOf

(* a task leaves its sleep with its timer at rest, or still counting          *)
LEMMA NotifyWaitStep ==
  ASSUME CiaIInv, NEW t \in Task, NotifyWait(t), ~ stray'
  PROVE  CiaIInv'
<1>1. /\ pc[t] = "sleep" /\ pc' \in [Task -> {"none"} \cup Owning] /\ pc'[t] = "idle"
      /\ \A s \in Task : s # t => pc'[s] = pc[s]
      /\ notified' = [notified EXCEPT ![t] = FALSE]
      /\ notified[t] \/ TimerOf(t) \in running
      /\ UNCHANGED <<icr, pending, chain, owner, rest, running, waiter, spin>>
  BY GotoType DEF NotifyWait, Unseen, At, chips, keyboard, CiaIInv, Owning
<1>2. /\ notified' \in [Task -> BOOLEAN] /\ ~ notified'[t]
      /\ \A s \in Task : s # t => notified'[s] = notified[s]
  BY <1>1 DEF CiaIInv, TypeInv
<1>3. TypeInv' /\ ChainInv'
  BY <1>1, <1>2 DEF CiaIInv, TypeInv, ChainInv
<1>4. OwnerInv'
  BY <1>1, OwnerKept DEF CiaIInv
<1>5. \A n \in Timer : Up(n)' <=> Up(n)
  BY <1>1 DEF Up
<1>6. DelayInv'
  <2>1. ASSUME NEW n \in Timer \ {KeyTimer} PROVE DelayOf(n)'
    <3>1. CASE owner[n] = t
      <4>1. n = TimerOf(t) /\ DelayOf(n)
        BY <1>1, <3>1, OwnTimer DEF CiaIInv, DelayInv
      <4>2. ~ Up(n)
        BY <1>1, <3>1, <4>1, NotifiedIsOver DEF DelayOf
      <4> QED BY <1>1, <1>2, <1>5, <3>1, <4>2 DEF DelayOf
    <3>2. CASE owner[n] # t
      BY <1>1, <1>2, <1>5, <2>1, <3>2, DelayOther DEF CiaIInv, DelayInv
    <3> QED BY <3>1, <3>2
  <2> QED BY <1>1, <1>2, <2>1 DEF CiaIInv, DelayInv
<1>7. KeyInv'
  <2>1. KeyTimer \in Timer
    BY DEF KeyTimer, Timer
  <2> QED BY <1>1, <1>5, <2>1 DEF CiaIInv, KeyInv
<1> QED BY <1>3, <1>4, <1>6, <1>7 DEF CiaIInv

------------------------------------------------------------------------------
(* The hardware                                                               *)

(* a timer that runs out finds the task that sleeps for it noted              *)
LEMMA UnderflowStep ==
  ASSUME CiaIInv, NEW m \in Timer, Underflow(m), ~ stray'
  PROVE  CiaIInv'
<1>1. /\ m \in running /\ running' = running \ {m}
      /\ icr' = [icr EXCEPT ![Chip(m)] = @ \cup {Flag(m)}]
      /\ UNCHANGED <<pending, chain, owner, rest, waiter, notified, spin, pc>>
  BY DEF Underflow, keyboard, tasks
<1>2. Chip(m) \in Chips /\ Flag(m) \in Flags
  BY TimerFlags DEF Flags
<1>3. icr' \in [Chips -> SUBSET Flags] /\ \A n \in Timer : Up(n)' <=> Up(n) \/ n = m
  BY <1>1, <1>2, FlagUp, TimerFlags DEF CiaIInv
<1>4. TypeInv' /\ ChainInv'
  BY <1>1, <1>3 DEF CiaIInv, TypeInv, ChainInv
<1>5. OwnerInv'
  BY <1>1, OwnerKept DEF CiaIInv
<1>6. ASSUME m # KeyTimer
      PROVE  /\ owner[m] \in Task /\ pc[owner[m]] = "sleep" /\ waiter[m] = owner[m]
             /\ ~ notified[owner[m]]
  <2>1. DelayOf(m)
    BY <1>6 DEF CiaIInv, DelayInv
  <2>2. owner[m] \in Task /\ pc[owner[m]] = "sleep"
    BY <1>6 DEF Underflow, Awaited
  <2> QED BY <1>1, <2>1, <2>2 DEF DelayOf
<1>7. DelayInv'
  <2>1. ASSUME NEW n \in Timer \ {KeyTimer} PROVE DelayOf(n)'
    <3>1. DelayOf(n)
      BY DEF CiaIInv, DelayInv
    <3>2. CASE n = m
      BY <1>1, <1>6, <3>1, <3>2 DEF DelayOf
    <3>3. CASE n # m
      <4>1. Up(n)' <=> Up(n)
        BY <1>3, <3>3
      <4> QED BY <1>1, <3>1, <3>3, <4>1 DEF DelayOf
    <3> QED BY <3>2, <3>3
  <2> QED BY <1>1, <2>1 DEF CiaIInv, DelayInv
<1>8. KeyInv'
  <2>1. KeyTimer \in Timer
    BY DEF KeyTimer, Timer
  <2> QED BY <1>1, <1>3, <2>1 DEF CiaIInv, KeyInv
<1> QED BY <1>4, <1>5, <1>7, <1>8 DEF CiaIInv

(* what a step leaves alone that touches no timer                             *)
LEMMA TimersKept ==
  ASSUME OwnerInv, DelayInv, KeyInv,
         UNCHANGED <<owner, running, waiter, notified, spin, pc>>,
         \A n \in Timer : Up(n)' <=> Up(n)
  PROVE  OwnerInv' /\ DelayInv' /\ KeyInv'
<1>1. KeyTimer \in Timer
  BY DEF KeyTimer, Timer
<1>2. OwnerInv' /\ KeyInv'
  BY <1>1 DEF OwnerInv, KeyInv
<1>3. ASSUME NEW n \in Timer \ {KeyTimer} PROVE DelayOf(n)'
  BY DEF DelayInv, DelayOf
<1>4. DelayInv'
  BY <1>3 DEF DelayInv
<1> QED BY <1>2, <1>4

LEMMA KeyStep ==
  ASSUME CiaIInv, Key
  PROVE  CiaIInv'
<1>1. /\ icr' = [icr EXCEPT !["A"] = @ \cup {"SP"}]
      /\ UNCHANGED <<pending, chain, owner, rest, running, waiter, notified, spin, pc>>
  BY DEF Key, tasks
<1>2. "A" \in Chips /\ "SP" \in Flags
  BY DEF Chips, Flags
<1>3. icr' \in [Chips -> SUBSET Flags] /\ \A n \in Timer : Up(n)' <=> Up(n)
  BY <1>1, <1>2, FlagUp, TimerFlags DEF CiaIInv
<1>4. TypeInv' /\ ChainInv'
  BY <1>1, <1>3 DEF CiaIInv, TypeInv, ChainInv
<1> QED BY <1>1, <1>3, <1>4, TimersKept DEF CiaIInv

------------------------------------------------------------------------------
(* Handlers                                                                   *)

LEMMA EnterIntrStep ==
  ASSUME CiaIInv, NEW c \in Chips, EnterIntr(c)
  PROVE  CiaIInv'
<1>1. /\ rest' = [rest EXCEPT ![c] = chain[c]]
      /\ UNCHANGED <<icr, pending, chain, owner, running, waiter, notified, spin, pc>>
  BY DEF EnterIntr, keyboard, tasks
<1>2. TypeInv'
  BY <1>1 DEF CiaIInv, TypeInv
<1>3. ChainInv'
  BY <1>1 DEF CiaIInv, ChainInv
<1>4. \A n \in Timer : Up(n)' <=> Up(n)
  BY <1>1 DEF Up
<1> QED BY <1>1, <1>2, <1>3, <1>4, TimersKept DEF CiaIInv

LEMMA ReturnsChain ==
  ASSUME ChainInv, NEW c \in Chips, rest[c] # <<>>, Returns(c), chain' = chain
  PROVE  ChainInv'
<1>1. /\ rest \in [Chips -> Seq(Server)] /\ rest[c] \in Seq(On(c))
      /\ rest' = [rest EXCEPT ![c] = Tail(rest[c])]
  BY DEF ChainInv, Returns
<1>2. Tail(rest[c]) \in Seq(On(c))
  BY <1>1, HeadTailProperties
<1>3. Tail(rest[c]) \in Seq(Server)
  BY <1>2, SeqOn
<1> QED BY <1>1, <1>2, <1>3 DEF ChainInv

LEMMA SampledUp ==
  ASSUME NEW m \in Timer
  PROVE  Sampled(Chip(m), {Flag(m)}) <=> Up(m)
  BY DEF Sampled, Up

(* the timer at the head of a chain of the chip c                             *)
LEMMA HeadOn ==
  ASSUME ChainInv, NEW c \in Chips, rest[c] # <<>>
  PROVE  Chip(Head(rest[c])) = c
<1>1. Head(rest[c]) \in On(c)
  BY HeadTailProperties DEF ChainInv
<1> QED BY <1>1 DEF On

(* A handler that takes the flag of its timer finds the task to notify        *)
LEMMA FlagHasWaiter ==
  ASSUME CiaIInv, NEW m \in Timer, Up(m), ~ (spin /\ Chip(m) = "A")
  PROVE  /\ m # KeyTimer /\ owner[m] \in Task /\ waiter[m] = owner[m]
         /\ m \notin running /\ pc[owner[m]] = "sleep"
<1>1. Chip(KeyTimer) = "A"
  BY DEF Chip, KeyTimer
<1>2. m # KeyTimer
  BY <1>1 DEF CiaIInv, KeyInv
<1>3. DelayOf(m)
  BY <1>2 DEF CiaIInv, DelayInv
<1> QED BY <1>2, <1>3 DEF DelayOf

LEMMA CIATimerHandlerStep ==
  ASSUME CiaIInv, NEW c \in Chips, CIATimerHandler(c)
  PROVE  CiaIInv'
<1> DEFINE m == Head(rest[c])
<1>1. /\ Running(c) /\ m \in Timer /\ ~ (spin /\ c = "A")
      /\ SampleICR(c, {Flag(m)}) /\ Returns(c)
      /\ UNCHANGED <<chain, owner, running, spin, pc>>
  BY DEF CIATimerHandler, keyboard, tasks
<1>2. rest[c] # <<>> /\ Chip(m) = c
  BY <1>1, HeadOn DEF Running, CiaIInv
<1>3. ChainInv'
  BY <1>1, <1>2, ReturnsChain DEF CiaIInv
<1>4. {Flag(m)} \in SUBSET Flags
  BY <1>1, TimerFlags DEF Flags
<1>5. /\ icr' \in [Chips -> SUBSET Flags] /\ pending' \in [Chips -> SUBSET Flags]
      /\ \A n \in Timer : Up(n)' <=> Up(n) /\ ~ (Chip(n) = c /\ Flag(n) \in {Flag(m)})
  BY <1>1, <1>4, SampleUp DEF CiaIInv
<1>6. \A n \in Timer : Up(n)' <=> Up(n) /\ n # m
  BY <1>1, <1>2, <1>5, TimerFlags
<1>7. Sampled(c, {Flag(m)}) <=> Up(m)
  BY <1>1, <1>2, SampledUp
<1>8. CASE ~ Up(m)
  <2>1. notified' = notified /\ waiter' = waiter
    BY <1>7, <1>8 DEF CIATimerHandler
  <2>2. \A n \in Timer : Up(n)' <=> Up(n)
    BY <1>6, <1>8
  <2>3. TypeInv'
    BY <1>1, <1>5, <2>1 DEF CiaIInv, TypeInv
  <2> QED BY <1>1, <1>3, <2>1, <2>2, <2>3, TimersKept DEF CiaIInv
<1>9. CASE Up(m)
  <2>1. /\ notified' = [notified EXCEPT ![waiter[m]] = TRUE]
        /\ waiter' = [waiter EXCEPT ![m] = Nobody]
    BY <1>7, <1>9 DEF CIATimerHandler
  <2>2. /\ m # KeyTimer /\ owner[m] \in Task /\ waiter[m] = owner[m]
        /\ m \notin running /\ pc[owner[m]] = "sleep"
    BY <1>1, <1>2, <1>9, FlagHasWaiter
  <2> DEFINE u == owner[m]
  <2>3. /\ notified' \in [Task -> BOOLEAN]
        /\ \A s \in Task : s # u => notified'[s] = notified[s]
        /\ waiter' \in [Timer -> Task \cup {Nobody}] /\ waiter'[m] = Nobody
        /\ \A n \in Timer : n # m => waiter'[n] = waiter[n]
    BY <1>1, <2>1, <2>2 DEF CiaIInv, TypeInv
  <2>4. TypeInv'
    BY <1>1, <1>5, <2>3 DEF CiaIInv, TypeInv
  <2>5. OwnerInv'
    BY <1>1, OwnerKept DEF CiaIInv
  <2>6. DelayInv'
    <3>1. ASSUME NEW n \in Timer \ {KeyTimer} PROVE DelayOf(n)'
      <4>1. CASE n = m
        BY <1>1, <1>6, <2>2, <2>3, <4>1 DEF DelayOf
      <4>2. CASE n # m
        <5>1. owner[n] # u
          BY <1>1, <2>2, <4>2 DEF CiaIInv, OwnerInv
        <5>2. (Up(n)' <=> Up(n)) /\ waiter'[n] = waiter[n]
          BY <1>6, <2>3, <4>2
        <5>3. DelayOf(n) /\ TypeInv /\ u \in Task
          BY <2>2 DEF CiaIInv, DelayInv
        <5> QED BY <1>1, <2>3, <5>1, <5>2, <5>3, DelayOther
      <4> QED BY <4>1, <4>2
    <3>2. \A s \in Task : notified'[s] => pc'[s] = "sleep"
      BY <1>1, <2>2, <2>3 DEF CiaIInv, DelayInv
    <3> QED BY <3>1, <3>2 DEF DelayInv
  <2>7. KeyInv'
    <3>1. KeyTimer \in Timer
      BY DEF KeyTimer, Timer
    <3> QED BY <1>1, <1>6, <2>2, <2>3, <3>1 DEF CiaIInv, KeyInv
  <2> QED BY <1>3, <2>4, <2>5, <2>6, <2>7 DEF CiaIInv
<1> QED BY <1>8, <1>9

LEMMA KeyboardIntHandlerStep ==
  ASSUME CiaIInv, KeyboardIntHandler
  PROVE  CiaIInv'
<1>1. /\ Running("A") /\ ~ spin /\ SampleICR("A", {"SP"})
      /\ UNCHANGED <<chain, owner, waiter, notified, pc>>
  BY DEF KeyboardIntHandler, tasks
<1>2. "A" \in Chips /\ {"SP"} \in SUBSET Flags /\ KeyTimer \in Timer
  BY DEF Chips, Flags, KeyTimer, Timer
<1>3. /\ icr' \in [Chips -> SUBSET Flags] /\ pending' \in [Chips -> SUBSET Flags]
      /\ \A n \in Timer : Up(n)' <=> Up(n)
  <2>1. /\ icr' \in [Chips -> SUBSET Flags] /\ pending' \in [Chips -> SUBSET Flags]
        /\ \A n \in Timer : Up(n)' <=> Up(n) /\ ~ (Chip(n) = "A" /\ Flag(n) \in {"SP"})
    BY <1>1, <1>2, SampleUp DEF CiaIInv
  <2> QED BY <2>1, TimerFlags
<1>4. CASE Sampled("A", {"SP"})
  <2>1. spin' = TRUE /\ running' = running \cup {KeyTimer} /\ UNCHANGED rest
    BY <1>4 DEF KeyboardIntHandler
  <2>2. TypeInv' /\ ChainInv'
    BY <1>1, <1>2, <1>3, <2>1 DEF CiaIInv, TypeInv, ChainInv
  <2>3. OwnerInv'
    BY <1>1, OwnerKept DEF CiaIInv
  <2>4. DelayInv'
    <3>1. ASSUME NEW n \in Timer \ {KeyTimer} PROVE DelayOf(n)'
      <4>1. (Up(n)' <=> Up(n)) /\ (n \in running' <=> n \in running)
        BY <1>3, <2>1
      <4>2. DelayOf(n)
        BY DEF CiaIInv, DelayInv
      <4> QED BY <1>1, <4>1, <4>2 DEF DelayOf
    <3> QED BY <1>1, <3>1 DEF CiaIInv, DelayInv
  <2>5. KeyInv'
    BY <1>1, <1>2, <1>3, <2>1 DEF CiaIInv, KeyInv
  <2> QED BY <2>2, <2>3, <2>4, <2>5 DEF CiaIInv
<1>5. CASE ~ Sampled("A", {"SP"})
  <2>1. Returns("A") /\ UNCHANGED <<spin, running>>
    BY <1>5 DEF KeyboardIntHandler
  <2>2. ChainInv'
    BY <1>1, <1>2, <2>1, ReturnsChain DEF Running, CiaIInv
  <2>3. TypeInv'
    BY <1>1, <1>3, <2>1 DEF CiaIInv, TypeInv
  <2> QED BY <1>1, <1>3, <2>1, <2>2, <2>3, TimersKept DEF CiaIInv
<1> QED BY <1>4, <1>5

LEMMA WaitTimerSpinStep ==
  ASSUME CiaIInv, WaitTimerSpin
  PROVE  CiaIInv'
<1>1. /\ Running("A") /\ spin /\ SampleICR("A", {Flag(KeyTimer)})
      /\ UNCHANGED <<chain, owner, running, waiter, notified, pc>>
  BY DEF WaitTimerSpin, tasks
<1>2. /\ KeyTimer \in Timer /\ Chip(KeyTimer) = "A" /\ "A" \in Chips
      /\ {Flag(KeyTimer)} \in SUBSET Flags
  <2>1. KeyTimer \in Timer /\ Chip(KeyTimer) = "A" /\ "A" \in Chips
    BY DEF Chips, Chip, KeyTimer, Timer
  <2> QED BY <2>1, TimerFlags DEF Flags
<1>3. /\ icr' \in [Chips -> SUBSET Flags] /\ pending' \in [Chips -> SUBSET Flags]
      /\ \A n \in Timer : Up(n)' <=> Up(n) /\ n # KeyTimer
  <2>1. /\ icr' \in [Chips -> SUBSET Flags] /\ pending' \in [Chips -> SUBSET Flags]
        /\ \A n \in Timer :
             Up(n)' <=> Up(n) /\ ~ (Chip(n) = "A" /\ Flag(n) \in {Flag(KeyTimer)})
    BY <1>1, <1>2, SampleUp DEF CiaIInv
  <2> QED BY <1>2, <2>1, TimerFlags
<1>4. Sampled("A", {Flag(KeyTimer)}) <=> Up(KeyTimer)
  BY <1>2, SampledUp
<1>5. CASE Up(KeyTimer)
  <2>1. spin' = FALSE /\ Returns("A")
    BY <1>4, <1>5 DEF WaitTimerSpin
  <2>2. ChainInv'
    BY <1>1, <1>2, <2>1, ReturnsChain DEF Running, CiaIInv
  <2>3. TypeInv'
    BY <1>1, <1>3 DEF CiaIInv, TypeInv
  <2>4. OwnerInv'
    BY <1>1, OwnerKept DEF CiaIInv
  <2>5. DelayInv'
    <3>1. ASSUME NEW n \in Timer \ {KeyTimer} PROVE DelayOf(n)'
      <4>1. (Up(n)' <=> Up(n)) /\ DelayOf(n)
        BY <1>3 DEF CiaIInv, DelayInv
      <4> QED BY <1>1, <4>1 DEF DelayOf
    <3> QED BY <1>1, <3>1 DEF CiaIInv, DelayInv
  <2>6. KeyInv'
    BY <1>1, <1>2, <1>3, <1>5 DEF CiaIInv, KeyInv
  <2> QED BY <2>2, <2>3, <2>4, <2>5, <2>6 DEF CiaIInv
<1>6. CASE ~ Up(KeyTimer)
  <2>1. UNCHANGED <<spin, rest>>
    BY <1>4, <1>6 DEF WaitTimerSpin
  <2>2. TypeInv' /\ ChainInv'
    BY <1>1, <1>3, <2>1 DEF CiaIInv, TypeInv, ChainInv
  <2>3. \A n \in Timer : Up(n)' <=> Up(n)
    BY <1>3, <1>6
  <2> QED BY <1>1, <2>1, <2>2, <2>3, TimersKept DEF CiaIInv
<1> QED BY <1>5, <1>6

------------------------------------------------------------------------------
(* Theorems *)

LEMMA InvInit == CiaInit => CiaIInv
<1> SUFFICES ASSUME CiaInit PROVE CiaIInv
  OBVIOUS
<1>1. KeyTimer \in Timer /\ Keyboard \in Server /\ KeyTimer \in Server
      /\ Chip(KeyTimer) = "A" /\ Chip(Keyboard) = "A"
  BY DEF KeyTimer, Timer, Keyboard, Server, Chip
<1>2. TypeInv
  <2>1. owner \in [Timer -> Task \cup {Nobody, Keyboard}]
    BY DEF CiaInit
  <2> QED BY <2>1 DEF CiaInit, TypeInv
<1>3. ChainInv
  <2>1. <<KeyTimer, Keyboard>> \in Seq(On("A")) /\ <<KeyTimer, Keyboard>> \in Seq(Server)
    BY <1>1 DEF On
  <2>2. \A c \in Chips : <<>> \in Seq(On(c))
    BY EmptySeq
  <2>3. <<>> \in Seq(Server)
    BY EmptySeq
  <2>4. /\ \A c \in Chips : rest[c] = <<>>
        /\ \A c \in Chips : chain[c] = IF c = "A" THEN <<KeyTimer, Keyboard>> ELSE <<>>
    BY DEF CiaInit
  <2>5. chain \in [Chips -> Seq(Server)] /\ rest \in [Chips -> Seq(Server)]
    BY <2>1, <2>3 DEF CiaInit
  <2>6. \A c \in Chips : chain[c] \in Seq(On(c))
    BY <2>1, <2>2, <2>4
  <2> QED BY <2>2, <2>4, <2>5, <2>6 DEF ChainInv
<1>4. OwnerInv
  BY DEF CiaInit, OwnerInv
<1>5. \A m \in Timer : ~ Up(m)
  BY TimerFlags DEF CiaInit, Up
<1>6. DelayInv /\ KeyInv
  BY <1>1, <1>5 DEF CiaInit, DelayInv, DelayOf, KeyInv
<1> QED BY <1>2, <1>3, <1>4, <1>6 DEF CiaIInv

(* A notification with another bit touches no timer                           *)
LEMMA NotifyOtherStep ==
  ASSUME CiaIInv, NEW t \in Task, NotifyOther(t)
  PROVE  CiaIInv'
<1>1. /\ UNCHANGED <<icr, pending, chain, rest, owner, running, waiter, notified, spin, pc>>
      /\ \A n \in Timer : Up(n)' <=> Up(n)
  BY DEF NotifyOther, chips, keyboard, tasks, Up
<1>2. TypeInv' /\ ChainInv'
  BY <1>1 DEF CiaIInv, TypeInv, ChainInv
<1> QED BY <1>1, <1>2, TimersKept DEF CiaIInv

(* A timer that has run out for nobody stays so                               *)
LEMMA StrayStays ==
  ASSUME CiaNext, ~ stray'
  PROVE  ~ stray
<1>1. ASSUME NEW t \in Task, TaskStep(t) PROVE ~ stray
  BY <1>1 DEF TaskStep, TurnOff, Load, SetWaiter, TurnOn, NotifyWait, AcquireTimer,
              AddIntServer, ReleaseTimer, sleep
<1>2. ASSUME NEW t \in Task, NotifyOther(t) PROVE ~ stray
  BY <1>2 DEF NotifyOther
<1>3. CASE HandlerStep
  BY <1>3 DEF HandlerStep, EnterIntr, CIATimerHandler, KeyboardIntHandler, WaitTimerSpin,
              sleep
<1>4. CASE \E m \in Timer : Underflow(m)
  BY <1>4 DEF Underflow
<1>5. CASE Key
  BY <1>5 DEF Key, sleep
<1> QED BY <1>1, <1>2, <1>3, <1>4, <1>5 DEF CiaNext

LEMMA CiaStep ==
  ASSUME CiaIInv, CiaNext, ~ stray'
  PROVE  CiaIInv'
<1>1. ASSUME NEW t \in Task, TaskStep(t) PROVE CiaIInv'
  BY <1>1, TurnOffStep, LoadStep, SetWaiterStep, TurnOnStep, NotifyWaitStep,
     AcquireTimerStep, AddIntServerStep, ReleaseTimerStep DEF TaskStep
<1>2. ASSUME NEW t \in Task, NotifyOther(t) PROVE CiaIInv'
  BY <1>2, NotifyOtherStep
<1>3. CASE HandlerStep
  BY <1>3, EnterIntrStep, CIATimerHandlerStep, KeyboardIntHandlerStep,
     WaitTimerSpinStep DEF HandlerStep
<1>4. CASE \E m \in Timer : Underflow(m)
  BY <1>4, UnderflowStep
<1>5. CASE Key
  BY <1>5, KeyStep
<1> QED BY <1>1, <1>2, <1>3, <1>4, <1>5 DEF CiaNext

LEMMA CiaStutters ==
  ASSUME CiaIInv, UNCHANGED ciaVars
  PROVE  CiaIInv'
<1>1. /\ UNCHANGED <<icr, pending, chain, rest, owner, running, waiter, notified, spin, pc>>
      /\ \A n \in Timer : Up(n)' <=> Up(n)
  BY DEF ciaVars, chips, keyboard, tasks, Up
<1>2. TypeInv' /\ ChainInv'
  BY <1>1 DEF CiaIInv, TypeInv, ChainInv
<1> QED BY <1>1, <1>2, TimersKept DEF CiaIInv

(* What holds until a timer runs out for nobody                               *)
CalmInv == ~ stray => CiaIInv

LEMMA CiaInvariantHolds == CiaSpec => []CalmInv
<1>1. CiaInit => CalmInv
  BY InvInit DEF CalmInv
<1>2. CalmInv /\ [CiaNext]_ciaVars => CalmInv'
  <2> SUFFICES ASSUME CalmInv, [CiaNext]_ciaVars, ~ stray' PROVE CiaIInv'
    BY DEF CalmInv
  <2>1. CASE CiaNext
    BY <2>1, StrayStays, CiaStep DEF CalmInv
  <2>2. CASE UNCHANGED ciaVars
    <3>1. stray' = stray
      BY <2>2 DEF ciaVars, sleep
    <3> QED BY <2>2, <3>1, CiaStutters DEF CalmInv
  <2> QED BY <2>1, <2>2
<1> QED BY <1>1, <1>2, PTL DEF CiaSpec

(* A handler that is about to take the flag of its timer knows the task       *)
LEMMA WaiterIsKnown == CiaIInv => WaiterKnown
<1> SUFFICES ASSUME CiaIInv, NEW c \in Chips, Running(c), ~ (spin /\ c = "A"),
                    Head(rest[c]) \in Timer, Sampled(c, {Flag(Head(rest[c]))})
             PROVE  waiter[Head(rest[c])] # Nobody
  BY DEF WaiterKnown
<1> DEFINE m == Head(rest[c])
<1>1. Chip(m) = c
  BY HeadOn DEF Running, CiaIInv
<1>2. Up(m)
  BY <1>1, SampledUp
<1>3. owner[m] \in Task /\ waiter[m] = owner[m]
  BY <1>1, <1>2, FlagHasWaiter
<1> QED BY <1>3

(* A task whose sleep no other notification ends leaves WaitTimerSleep when   *)
(* its own timer has run out, as long as no timer has run out for nobody:     *)
(* whatever delays were cut short before, and whether its timer was still     *)
(* counting from one of them when it was set again                            *)
THEOREM FullDelayHolds == CiaSpec => FullDelay
<1> DEFINE Full == \A t \in Task :
              pc[t] = "sleep" /\ pc'[t] = "idle" /\ ~ other[t] /\ ~ stray' =>
                TimerOf(t) \notin running
<1>1. CalmInv /\ [CiaNext]_ciaVars => [Full]_ciaVars
  <2> SUFFICES ASSUME CalmInv, CiaNext, NEW t \in Task, pc[t] = "sleep", pc'[t] = "idle",
                      ~ other[t], ~ stray'
               PROVE  TimerOf(t) \notin running
    OBVIOUS
  <2>1. CiaIInv
    BY StrayStays DEF CalmInv
  <2>2. PICK s \in Task : TaskStep(s)
    BY DEF CiaNext, HandlerStep, Underflow, Key, EnterIntr, CIATimerHandler,
           KeyboardIntHandler, WaitTimerSpin, NotifyOther, tasks
  <2>3. s = t
    BY <2>1, <2>2 DEF TaskStep, TurnOff, Load, SetWaiter, TurnOn, NotifyWait,
           AcquireTimer, AddIntServer, ReleaseTimer, Goto, CiaIInv, TypeInv
  <2>4. NotifyWait(t)
    BY <2>2, <2>3 DEF TaskStep, TurnOff, Load, SetWaiter, TurnOn,
           AcquireTimer, AddIntServer, ReleaseTimer, At
  <2>5. notified[t]
    BY <2>4 DEF NotifyWait
  <2>6. TimerOf(t) \in Timer \ {KeyTimer} /\ owner[TimerOf(t)] = t
    BY <2>1, OwnTimer DEF CiaIInv
  <2> QED BY <2>1, <2>5, <2>6, NotifiedIsOver
<1> QED BY <1>1, CiaInvariantHolds, PTL DEF CiaSpec, FullDelay

------------------------------------------------------------------------------
(* Flags are served.  A task that is noted as waiting while its timer no      *)
(* longer counts has its flag up; a key that has been sent and not been taken *)
(* has its own; a flag that interrupts is in INTREQ; and a flag that another  *)
(* server has read out of the chip is that of a server still to be called     *)

MaskInv ==
  /\ mask \in [Chips -> SUBSET Flags] /\ "SP" \in mask["A"]
  /\ latch \in [Chips -> BOOLEAN]
  /\ \A c \in Chips : icr[c] \cap mask[c] # {} => latch[c]

FlagInv ==
  \A m \in Timer \ {KeyTimer} :
    /\ owner[m] \in Task /\ pc[owner[m]] = "wait" => m \in running
    /\ waiter[m] # Nobody /\ m \notin running => Up(m)

SpinInv ==
  /\ key /\ ~ spin => "SP" \in icr["A"] \cup pending["A"]
  /\ spin => rest["A"] # <<>> /\ Head(rest["A"]) = Keyboard

CallInv ==
  \A c \in Chips : \A s \in Range(chain[c]) :
    Due(s) => latch[c] \/ s \in Range(rest[c])

ServeInv == MaskInv /\ FlagInv /\ SpinInv /\ CallInv

(* what INTREQ holds stays, and what interrupts is in it                      *)
LEMMA LatchedFacts ==
  ASSUME NEW held, Latched(held)
  PROVE  /\ latch' \in [Chips -> BOOLEAN]
         /\ \A c \in Chips : held[c] => latch'[c]
         /\ \A c \in Chips : icr'[c] \cap mask'[c] # {} => latch'[c]
  BY DEF Latched

LEMMA ServerKinds ==
  ASSUME ChainInv, NEW c \in Chips, NEW s \in Range(chain[c])
  PROVE  /\ s \in Server /\ Chip(s) = c
         /\ s # Keyboard => s \in Timer
<1>1. s \in On(c)
  BY DEF ChainInv, Range
<1> QED BY <1>1 DEF On, Server

LEMMA PopKeeps ==
  ASSUME ChainInv, NEW c \in Chips, rest[c] # <<>>, Returns(c),
         NEW s \in Range(rest[c]), s # Head(rest[c])
  PROVE  s \in Range(rest'[c])
<1> DEFINE r == rest[c]
           q == rest'[c]
<1>1. /\ r \in Seq(Server) /\ r # <<>> /\ q = Tail(r)
  BY DEF ChainInv, Returns
<1>2. PICK i \in 1 .. Len(r) : r[i] = s
  BY <1>1 DEF Range
<1>3. s # Head(r)
  OBVIOUS
<1>4. s \in Range(q)
  <2> HIDE DEF r, q
  <2>1. i # 1
    BY <1>1, <1>2, <1>3
  <2>2. q \in Seq(Server) /\ Len(q) = Len(r) - 1 /\ q[i - 1] = r[i]
    BY <1>1, <1>2, <2>1
  <2>3. i - 1 \in DOMAIN q
    BY <1>1, <1>2, <2>1, <2>2
  <2> QED BY <1>2, <2>2, <2>3 DEF Range
<1> QED BY <1>4

(* reading a chip, flag by flag                                               *)
LEMMA SampleFlags ==
  ASSUME TypeInv, MaskInv, NEW c \in Chips, NEW flags \in SUBSET Flags,
         SampleICR(c, flags)
  PROVE  /\ MaskInv' /\ mask' = mask
         /\ \A d \in Chips : latch[d] => latch'[d]
         /\ \A d \in Chips : \A f \in Flags :
              f \in icr'[d] \cup pending'[d] <=>
                f \in icr[d] \cup pending[d] /\ ~ (d = c /\ f \in flags)
<1>1. mask' = mask /\ Latched(latch)
  BY DEF SampleICR
<1>2. /\ icr \in [Chips -> SUBSET Flags] /\ pending \in [Chips -> SUBSET Flags]
      /\ icr' = [icr EXCEPT ![c] = {}]
      /\ pending' = [pending EXCEPT ![c] = (@ \cup icr[c]) \ flags]
  BY DEF SampleICR, TypeInv
<1>3. \A d \in Chips : icr'[d] \cup pending'[d] =
        IF d = c THEN (icr[d] \cup pending[d]) \ flags ELSE icr[d] \cup pending[d]
  BY <1>2
<1>4. MaskInv'
  BY <1>1, LatchedFacts DEF MaskInv
<1> QED BY <1>1, <1>3, <1>4, LatchedFacts

(* a step after which only those servers are due that were due before         *)
LEMMA CallKept ==
  ASSUME ChainInv, CallInv,
         \A c \in Chips : Range(chain'[c]) \subseteq Range(chain[c]),
         \A c \in Chips : latch[c] => latch'[c], rest' = rest,
         \A s \in Server : Due(s)' => Due(s)
  PROVE  CallInv'
<1> SUFFICES ASSUME NEW c \in Chips, NEW s \in Range(chain'[c]), Due(s)'
             PROVE  latch'[c] \/ s \in Range(rest'[c])
  BY DEF CallInv
<1>1. s \in Range(chain[c]) /\ s \in Server
  BY ServerKinds
<1> QED BY <1>1 DEF CallInv

(* tasks run when no handler does                                             *)
LEMMA TaskRuns ==
  ASSUME SpinInv, NEW t \in Task, NEW l, At(t, l)
  PROVE  ~ spin /\ pc[t] = l
<1>1. "A" \in Chips
  BY DEF Chips
<1> QED BY <1>1 DEF SpinInv, At

LEMMA KeyTimerIsTimer == KeyTimer \in Timer /\ Keyboard \notin Timer
  BY DEF KeyTimer, Timer, Keyboard

LEMMA AcquireTimerServes ==
  ASSUME CiaIInv, ServeInv, NEW t \in Task, AcquireTimer(t)
  PROVE  ServeInv'
<1> DEFINE k == Min({m \in Timer : owner[m] = Nobody})
<1>1. /\ pc' \in [Task -> {"none"} \cup Owning] /\ pc'[t] = "acquired"
      /\ \A s \in Task : s # t => pc'[s] = pc[s]
      /\ owner' = [owner EXCEPT ![k] = t]
      /\ UNCHANGED <<chips, chain, rest, running, waiter, keyboard>>
  BY GotoType DEF AcquireTimer, CiaIInv, Owning
<1>2. MaskInv' /\ SpinInv'
  BY <1>1 DEF ServeInv, MaskInv, SpinInv, chips, keyboard
<1>3. FlagInv'
  <2> HIDE DEF k
  <2>1. owner \in [Timer -> Task \cup {Nobody, Keyboard}]
    BY DEF CiaIInv, TypeInv
  <2> SUFFICES ASSUME NEW n \in Timer \ {KeyTimer}
               PROVE  /\ owner'[n] \in Task /\ pc'[owner'[n]] = "wait" => n \in running'
                      /\ waiter'[n] # Nobody /\ n \notin running' => Up(n)'
    BY DEF FlagInv
  <2>2. Up(n)' <=> Up(n)
    BY <1>1 DEF Up, chips
  <2>3. owner'[n] = t \/ owner'[n] = owner[n]
    BY <1>1, <2>1
  <2>4. owner'[n] \in Task /\ pc'[owner'[n]] = "wait" => n \in running'
    BY <1>1, <2>3 DEF ServeInv, FlagInv
  <2> QED BY <1>1, <2>2, <2>4 DEF ServeInv, FlagInv
<1>4. \A s \in Server : Due(s)' => Due(s)
  BY <1>1 DEF Due, chips, keyboard
<1>5. CallInv'
  BY <1>1, <1>4, CallKept DEF ServeInv, CiaIInv, chips
<1> QED BY <1>2, <1>3, <1>5 DEF ServeInv

(* a step of a task that owns a timer keeps what it knows of the others       *)
LEMMA FlagOther ==
  ASSUME FlagInv, OwnerInv, NEW t \in Task, NEW m \in Timer, owner[m] = t,
         owner' = owner, UNCHANGED <<icr, pending>>,
         \A s \in Task : s # t => pc'[s] = pc[s],
         \A n \in Timer \ {KeyTimer} : n # m =>
           waiter'[n] = waiter[n] /\ (n \in running' <=> n \in running),
         pc'[t] = "wait" => m \in running',
         waiter'[m] # Nobody /\ m \notin running' => Up(m)
  PROVE  FlagInv'
<1> SUFFICES ASSUME NEW n \in Timer \ {KeyTimer}
             PROVE  /\ owner'[n] \in Task /\ pc'[owner'[n]] = "wait" => n \in running'
                    /\ waiter'[n] # Nobody /\ n \notin running' => Up(n)'
  BY DEF FlagInv
<1>1. Up(n)' <=> Up(n)
  BY DEF Up
<1>2. CASE n = m
  BY <1>1, <1>2
<1>3. CASE n # m
  <2>1. owner[n] \in Task => owner[n] # t
    BY <1>3 DEF OwnerInv
  <2> QED BY <1>1, <1>3, <2>1 DEF FlagInv
<1> QED BY <1>2, <1>3

(* writing a mask, with what the interrupt of another task's timer keeps      *)
LEMMA WriteFlags ==
  ASSUME MaskInv, NEW c \in Chips, NEW flags \in SUBSET Flags,
         WriteICR(c, flags), "SP" \in mask[c] => "SP" \in flags
  PROVE  /\ MaskInv' /\ \A d \in Chips : latch[d] => latch'[d]
         /\ \A d \in Chips : mask'[d] = IF d = c THEN flags ELSE mask[d]
<1>1. Latched(latch) /\ mask' = [mask EXCEPT ![c] = flags]
  BY DEF WriteICR
<1>2. \A d \in Chips : mask'[d] = IF d = c THEN flags ELSE mask[d]
  BY <1>1 DEF MaskInv
<1>3. mask' \in [Chips -> SUBSET Flags] /\ "SP" \in mask'["A"]
  BY <1>1, <1>2 DEF MaskInv, Chips
<1> QED BY <1>1, <1>2, <1>3, LatchedFacts DEF MaskInv

LEMMA TurnOffServes ==
  ASSUME CiaIInv, ServeInv, NEW t \in Task, TurnOff(t)
  PROVE  ServeInv'
<1> DEFINE m == TimerOf(t)
<1>1. /\ pc[t] = "idle" /\ pc' \in [Task -> {"none"} \cup Owning] /\ pc'[t] = "load"
      /\ \A s \in Task : s # t => pc'[s] = pc[s]
      /\ WriteICR(Chip(m), mask[Chip(m)] \ {Flag(m)})
      /\ UNCHANGED <<icr, pending, chain, rest, running, waiter, owner, keyboard>>
  BY GotoType DEF TurnOff, At, WriteICR, CiaIInv, Owning
<1>2. m \in Timer \ {KeyTimer} /\ owner[m] = t /\ Chip(m) \in Chips /\ Flag(m) # "SP"
  BY <1>1, OwnTimer, TimerFlags DEF CiaIInv
<1> HIDE DEF m
<1>3. mask[Chip(m)] \ {Flag(m)} \in SUBSET Flags
  BY <1>2 DEF ServeInv, MaskInv
<1>4. /\ MaskInv' /\ \A d \in Chips : latch[d] => latch'[d]
      /\ \A d \in Chips : mask'[d] \subseteq mask[d]
  BY <1>1, <1>2, <1>3, WriteFlags DEF ServeInv
<1>5. SpinInv'
  BY <1>1 DEF ServeInv, SpinInv, keyboard
<1>6. waiter[m] # Nobody /\ m \notin running => Up(m)
  BY <1>2 DEF ServeInv, FlagInv
<1>7. FlagInv'
  BY <1>1, <1>2, <1>6, FlagOther DEF ServeInv, CiaIInv
<1>8. ASSUME NEW s \in Server, Due(s)' PROVE Due(s)
  <2>1. s # Keyboard => Chip(s) \in Chips
    BY TimerFlags DEF Server
  <2> QED BY <1>1, <1>4, <1>8, <2>1 DEF Due, keyboard
<1>9. CallInv'
  BY <1>1, <1>4, <1>8, CallKept DEF ServeInv, CiaIInv
<1> QED BY <1>4, <1>5, <1>7, <1>9 DEF ServeInv

LEMMA LoadServes ==
  ASSUME CiaIInv, ServeInv, NEW t \in Task, Load(t)
  PROVE  ServeInv'
<1> DEFINE m == TimerOf(t)
<1>1. /\ pc[t] = "load" /\ pc' \in [Task -> {"none"} \cup Owning] /\ pc'[t] = "wait"
      /\ \A s \in Task : s # t => pc'[s] = pc[s]
      /\ running' = running \cup {m}
      /\ UNCHANGED <<icr, mask, pending, latch, chain, rest, waiter, owner, keyboard>>
  BY GotoType DEF Load, At, CiaIInv, Owning, chips
<1>2. m \in Timer \ {KeyTimer} /\ owner[m] = t
  BY <1>1, OwnTimer DEF CiaIInv
<1> HIDE DEF m
<1>3. MaskInv' /\ SpinInv'
  BY <1>1 DEF ServeInv, MaskInv, SpinInv, keyboard
<1>4. FlagInv'
  BY <1>1, <1>2, FlagOther DEF ServeInv, CiaIInv
<1>5. \A s \in Server : Due(s)' => Due(s)
  BY <1>1 DEF Due, keyboard
<1>6. CallInv'
  BY <1>1, <1>5, CallKept DEF ServeInv, CiaIInv
<1> QED BY <1>3, <1>4, <1>6 DEF ServeInv

LEMMA SetWaiterServes ==
  ASSUME CiaIInv, ServeInv, NEW t \in Task, SetWaiter(t)
  PROVE  ServeInv'
<1> DEFINE m == TimerOf(t)
<1>1. /\ pc[t] = "wait" /\ pc' \in [Task -> {"none"} \cup Owning] /\ pc'[t] = "turn on"
      /\ \A s \in Task : s # t => pc'[s] = pc[s]
      /\ waiter' = [waiter EXCEPT ![m] = t]
      /\ UNCHANGED <<icr, mask, pending, latch, chain, rest, running, owner, keyboard>>
  BY GotoType DEF SetWaiter, At, CiaIInv, Owning, chips
<1>2. m \in Timer \ {KeyTimer} /\ owner[m] = t
  BY <1>1, OwnTimer DEF CiaIInv
<1> HIDE DEF m
<1>3. MaskInv' /\ SpinInv'
  BY <1>1 DEF ServeInv, MaskInv, SpinInv, keyboard
<1>4. m \in running
  BY <1>1, <1>2 DEF ServeInv, FlagInv
<1>5. \A n \in Timer : n # m => waiter'[n] = waiter[n]
  BY <1>1 DEF CiaIInv, TypeInv
<1>6. FlagInv'
  BY <1>1, <1>2, <1>4, <1>5, FlagOther DEF ServeInv, CiaIInv
<1>7. ASSUME NEW s \in Server, Due(s)' PROVE Due(s)
  <2>1. s = Keyboard \/ (s \in Timer /\ s # m)
    BY <1>1, <1>4, <1>7, KeyTimerIsTimer DEF Due, Server
  <2> QED BY <1>1, <1>5, <1>7, <2>1 DEF Due, keyboard
<1>8. CallInv'
  BY <1>1, <1>7, CallKept DEF ServeInv, CiaIInv
<1> QED BY <1>3, <1>6, <1>8 DEF ServeInv

LEMMA TurnOnServes ==
  ASSUME CiaIInv, ServeInv, NEW t \in Task, TurnOn(t)
  PROVE  ServeInv'
<1> DEFINE m == TimerOf(t)
<1>1. /\ pc[t] = "turn on" /\ pc' \in [Task -> {"none"} \cup Owning] /\ pc'[t] = "sleep"
      /\ \A s \in Task : s # t => pc'[s] = pc[s]
      /\ WriteICR(Chip(m), mask[Chip(m)] \cup {Flag(m)})
      /\ UNCHANGED <<icr, pending, chain, rest, running, waiter, owner, keyboard>>
  BY GotoType DEF TurnOn, At, WriteICR, CiaIInv, Owning
<1>2. m \in Timer \ {KeyTimer} /\ owner[m] = t /\ Chip(m) \in Chips /\ Flag(m) \in Flags
  BY <1>1, OwnTimer, TimerFlags DEF CiaIInv, Flags
<1> HIDE DEF m
<1>3. mask[Chip(m)] \cup {Flag(m)} \in SUBSET Flags
  BY <1>2 DEF ServeInv, MaskInv
<1>4. /\ MaskInv' /\ \A d \in Chips : latch[d] => latch'[d]
      /\ \A d \in Chips :
           mask'[d] = IF d = Chip(m) THEN mask[d] \cup {Flag(m)} ELSE mask[d]
  <2> DEFINE c == Chip(m)
             flags == mask[c] \cup {Flag(m)}
  <2>1. /\ c \in Chips /\ flags \in SUBSET Flags /\ WriteICR(c, flags)
        /\ "SP" \in mask[c] => "SP" \in flags
    BY <1>1, <1>2, <1>3
  <2> HIDE DEF flags
  <2>2. /\ MaskInv' /\ \A d \in Chips : latch[d] => latch'[d]
        /\ \A d \in Chips : mask'[d] = IF d = c THEN flags ELSE mask[d]
    BY <2>1, WriteFlags DEF ServeInv
  <2> QED BY <2>2 DEF flags
<1>5. SpinInv'
  BY <1>1 DEF ServeInv, SpinInv, keyboard
<1>6. waiter[m] # Nobody /\ m \notin running => Up(m)
  BY <1>2 DEF ServeInv, FlagInv
<1>7. waiter[m] = Nobody \/ m \in running
  <2>1. ~ Up(m)
    BY <1>1, <1>2 DEF CiaIInv, DelayInv, DelayOf
  <2> QED BY <1>6, <2>1
<1>8. FlagInv'
  BY <1>1, <1>2, <1>6, FlagOther DEF ServeInv, CiaIInv
<1>9. ASSUME NEW s \in Server, Due(s)' PROVE Due(s)
  <2>1. CASE s = Keyboard
    BY <1>1, <1>9, <2>1 DEF Due, keyboard
  <2>2. CASE s # Keyboard
    <3>1. s \in Timer /\ waiter[s] # Nobody /\ s \notin running /\ Flag(s) \in mask'[Chip(s)]
      BY <1>1, <1>9, <2>2 DEF Due, Server
    <3>2. s # m /\ Chip(s) \in Chips
      BY <1>7, <3>1, TimerFlags
    <3>3. Flag(s) \in mask[Chip(s)]
      BY <1>2, <1>4, <3>1, <3>2, TimerFlags
    <3> QED BY <2>2, <3>1, <3>3 DEF Due
  <2> QED BY <2>1, <2>2
<1>10. CallInv'
  BY <1>1, <1>4, <1>9, CallKept DEF ServeInv, CiaIInv
<1> QED BY <1>4, <1>5, <1>8, <1>10 DEF ServeInv

LEMMA NotifyWaitServes ==
  ASSUME CiaIInv, ServeInv, NEW t \in Task, NotifyWait(t)
  PROVE  ServeInv'
<1> DEFINE m == TimerOf(t)
<1>1. /\ pc[t] = "sleep" /\ pc' \in [Task -> {"none"} \cup Owning] /\ pc'[t] = "idle"
      /\ \A s \in Task : s # t => pc'[s] = pc[s]
      /\ UNCHANGED <<icr, mask, pending, latch, chain, rest, running, waiter, owner,
                     keyboard>>
  BY GotoType DEF NotifyWait, At, CiaIInv, Owning, chips
<1>2. m \in Timer \ {KeyTimer} /\ owner[m] = t
  BY <1>1, OwnTimer DEF CiaIInv
<1> HIDE DEF m
<1>3. MaskInv' /\ SpinInv'
  BY <1>1 DEF ServeInv, MaskInv, SpinInv, keyboard
<1>4. waiter[m] # Nobody /\ m \notin running => Up(m)
  BY <1>2 DEF ServeInv, FlagInv
<1>5. FlagInv'
  BY <1>1, <1>2, <1>4, FlagOther DEF ServeInv, CiaIInv
<1>6. \A s \in Server : Due(s)' => Due(s)
  BY <1>1 DEF Due, keyboard
<1>7. CallInv'
  BY <1>1, <1>6, CallKept DEF ServeInv, CiaIInv
<1> QED BY <1>3, <1>5, <1>7 DEF ServeInv

(* putting a server into a chain and taking one out                           *)
LEMMA InsertRange ==
  ASSUME NEW S, NEW s \in Seq(S), NEW x, NEW place \in 1 .. Len(s) + 1,
         NEW y \in Range(InsertAt(s, place, x))
  PROVE  y = x \/ y \in Range(s)
<1> DEFINE p == SubSeq(s, 1, place - 1)
           q == SubSeq(s, place, Len(s))
           T == S \cup {x}
<1>1. Len(s) \in Nat /\ place \in Int /\ place - 1 \in Int
  OBVIOUS
<1>2. /\ p \in Seq(S) /\ Len(p) = place - 1
      /\ \A j \in 1 .. Len(p) : p[j] = s[j]
  <2>1. \A i \in 1 .. place - 1 : s[i] \in S
    BY <1>1
  <2> QED BY <1>1, <2>1, SubSeqProperties
<1>3. /\ q \in Seq(S) /\ Len(q) = Len(s) - place + 1
      /\ \A j \in 1 .. Len(q) : q[j] = s[place + j - 1]
  <2>1. \A i \in place .. Len(s) : s[i] \in S
    BY <1>1
  <2> QED BY <1>1, <2>1, SubSeqProperties
<1>4. InsertAt(s, place, x) = p \o <<x>> \o q
  BY DEF InsertAt
<1> HIDE DEF p, q
<1>5. p \in Seq(T) /\ <<x>> \in Seq(T) /\ q \in Seq(T)
  BY <1>2, <1>3
<1>6. PICK i \in DOMAIN (p \o <<x>> \o q) : y = (p \o <<x>> \o q)[i]
  BY <1>4 DEF Range
<1>7. y = x \/ (\E j \in 1 .. Len(p) : y = p[j]) \/ (\E j \in 1 .. Len(q) : y = q[j])
  BY <1>5, <1>6
<1>8. DOMAIN s = 1 .. Len(s)
  OBVIOUS
<1>9. ASSUME NEW j \in 1 .. Len(p), y = p[j] PROVE y \in Range(s)
  BY <1>1, <1>2, <1>8, <1>9 DEF Range
<1>10. ASSUME NEW j \in 1 .. Len(q), y = q[j] PROVE y \in Range(s)
  <2>1. place + j - 1 \in DOMAIN s /\ y = s[place + j - 1]
    BY <1>1, <1>3, <1>8, <1>10
  <2> QED BY <2>1 DEF Range
<1> QED BY <1>7, <1>9, <1>10

LEMMA RemoveRange ==
  ASSUME NEW S, NEW s \in Seq(S), NEW k \in DOMAIN s
  PROVE  Range(RemoveAt(s, k)) \subseteq Range(s)
<1> SUFFICES ASSUME NEW y \in Range(RemoveAt(s, k)) PROVE y \in Range(s)
  OBVIOUS
<1> DEFINE p == SubSeq(s, 1, k - 1)
           q == SubSeq(s, k + 1, Len(s))
<1>1. Len(s) \in Nat /\ k \in Int /\ k - 1 \in Int /\ k + 1 \in Int /\ k \in 1 .. Len(s)
  OBVIOUS
<1>2. /\ p \in Seq(S) /\ Len(p) = k - 1
      /\ \A j \in 1 .. Len(p) : p[j] = s[j]
  <2>1. \A i \in 1 .. k - 1 : s[i] \in S
    BY <1>1
  <2> QED BY <1>1, <2>1, SubSeqProperties
<1>3. /\ q \in Seq(S) /\ Len(q) = Len(s) - k
      /\ \A j \in 1 .. Len(q) : q[j] = s[k + j]
  <2>1. \A i \in k + 1 .. Len(s) : s[i] \in S
    BY <1>1
  <2> QED BY <1>1, <2>1, SubSeqProperties
<1>4. RemoveAt(s, k) = p \o q
  BY DEF RemoveAt
<1> HIDE DEF p, q
<1>5. PICK i \in DOMAIN (p \o q) : y = (p \o q)[i]
  BY <1>4 DEF Range
<1>6. (\E j \in 1 .. Len(p) : y = p[j]) \/ (\E j \in 1 .. Len(q) : y = q[j])
  BY <1>2, <1>3, <1>5
<1>7. DOMAIN s = 1 .. Len(s)
  OBVIOUS
<1>8. ASSUME NEW j \in 1 .. Len(p), y = p[j] PROVE y \in Range(s)
  BY <1>1, <1>2, <1>7, <1>8 DEF Range
<1>9. ASSUME NEW j \in 1 .. Len(q), y = q[j] PROVE y \in Range(s)
  <2>1. k + j \in DOMAIN s /\ y = s[k + j]
    BY <1>1, <1>3, <1>7, <1>9
  <2> QED BY <2>1 DEF Range
<1> QED BY <1>6, <1>8, <1>9

LEMMA AddIntServerServes ==
  ASSUME CiaIInv, ServeInv, NEW t \in Task, AddIntServer(t)
  PROVE  ServeInv'
<1> DEFINE m == TimerOf(t)
           c == Chip(m)
           later == {i \in DOMAIN chain[c] : Behind(chain[c][i]) > Behind(m)}
           place == IF later = {} THEN Len(chain[c]) + 1 ELSE Min(later)
           held == [latch EXCEPT ![c] = @ /\ chain[c] # <<>>]
<1>1. /\ pc[t] = "acquired" /\ pc' \in [Task -> {"none"} \cup Owning] /\ pc'[t] = "idle"
      /\ \A s \in Task : s # t => pc'[s] = pc[s]
      /\ chain' = [chain EXCEPT ![c] = InsertAt(@, place, m)]
      /\ Latched(held)
      /\ UNCHANGED <<icr, mask, pending, owner, rest, running, waiter, keyboard>>
  BY GotoType DEF AddIntServer, At, CiaIInv, Owning
<1>2. m \in Timer \ {KeyTimer} /\ owner[m] = t /\ c \in Chips
  BY <1>1, OwnTimer, TimerFlags DEF CiaIInv
<1>3. chain \in [Chips -> Seq(Server)] /\ chain[c] \in Seq(Server)
  BY <1>2 DEF CiaIInv, ChainInv
<1>4. place \in 1 .. Len(chain[c]) + 1
  <2>1. CASE later = {}
    <3>1. Len(chain[c]) \in Nat /\ place = Len(chain[c]) + 1
      BY <1>3, <2>1
    <3> QED BY <3>1
  <2>2. CASE later # {}
    <3>1. later \subseteq DOMAIN chain[c] /\ later \subseteq Nat
      BY <1>3
    <3>2. Min(later) \in later
      BY <2>2, <3>1, MinExists
    <3>3. place = Min(later) /\ Min(later) \in DOMAIN chain[c]
      BY <2>2, <3>1, <3>2
    <3>4. DOMAIN chain[c] = 1 .. Len(chain[c]) /\ Len(chain[c]) \in Nat
      BY <1>3
    <3> HIDE DEF place, c
    <3> QED BY <3>3, <3>4
  <2> QED BY <2>1, <2>2
<1> HIDE DEF place
<1>5. /\ latch' \in [Chips -> BOOLEAN]
      /\ \A d \in Chips : held[d] => latch'[d]
      /\ \A d \in Chips : icr'[d] \cap mask'[d] # {} => latch'[d]
  <2> HIDE DEF held
  <2> QED BY <1>1, LatchedFacts
<1>6. \A d \in Chips : latch[d] /\ chain[d] # <<>> => latch'[d]
  BY <1>5 DEF ServeInv, MaskInv
<1> HIDE DEF m, c, held
<1>7. MaskInv' /\ SpinInv'
  BY <1>1, <1>5 DEF ServeInv, MaskInv, SpinInv, keyboard
<1>8. waiter[m] = Nobody \/ m \in running
  <2>1. ~ Up(m)
    BY <1>1, <1>2 DEF CiaIInv, DelayInv, DelayOf
  <2> QED BY <1>2, <2>1 DEF ServeInv, FlagInv
<1>9. FlagInv'
  BY <1>1, <1>2, <1>8, FlagOther DEF ServeInv, CiaIInv
<1>10. CallInv'
  <2> SUFFICES ASSUME NEW d \in Chips, NEW s \in Range(chain'[d]), Due(s)'
               PROVE  latch'[d] \/ s \in Range(rest'[d])
    BY DEF CallInv
  <2>1. Due(s)
    BY <1>1 DEF Due, keyboard
  <2>2. s # m
    BY <1>2, <1>8, <2>1, KeyTimerIsTimer DEF Due
  <2>3. s \in Range(chain[d])
    <3>1. CASE d = c
      <4>1. s \in Range(InsertAt(chain[c], place, m))
        BY <1>1, <1>3, <3>1
      <4> QED BY <1>3, <1>4, <2>2, <3>1, <4>1, InsertRange
    <3>2. CASE d # c
      BY <1>1, <1>3, <3>2
    <3> QED BY <3>1, <3>2
  <2>4. chain[d] # <<>>
    BY <2>3 DEF Range
  <2> QED BY <1>1, <1>6, <2>1, <2>3, <2>4 DEF ServeInv, CallInv
<1> QED BY <1>7, <1>9, <1>10 DEF ServeInv

LEMMA ReleaseTimerServes ==
  ASSUME CiaIInv, ServeInv, NEW t \in Task, ReleaseTimer(t)
  PROVE  ServeInv'
<1> DEFINE m == TimerOf(t)
           c == Chip(m)
<1>1. /\ pc[t] = "idle" /\ pc' \in [Task -> {"none"} \cup Owning] /\ pc'[t] = "none"
      /\ \A s \in Task : s # t => pc'[s] = pc[s]
      /\ owner' = [owner EXCEPT ![m] = Nobody]
      /\ UNCHANGED <<icr, mask, pending, latch, rest, running, waiter, keyboard>>
  BY GotoType DEF ReleaseTimer, At, chips, CiaIInv, Owning
<1>2. m \in Timer \ {KeyTimer} /\ owner[m] = t /\ c \in Chips
  BY <1>1, OwnTimer, TimerFlags DEF CiaIInv
<1>3. PICK k \in DOMAIN chain[c] : chain' = [chain EXCEPT ![c] = RemoveAt(@, k)]
  BY DEF ReleaseTimer
<1> HIDE DEF m, c
<1>4. MaskInv' /\ SpinInv'
  BY <1>1 DEF ServeInv, MaskInv, SpinInv, keyboard
<1>5. FlagInv'
  <2> SUFFICES ASSUME NEW n \in Timer \ {KeyTimer}
               PROVE  /\ owner'[n] \in Task /\ pc'[owner'[n]] = "wait" => n \in running'
                      /\ waiter'[n] # Nobody /\ n \notin running' => Up(n)'
    BY DEF FlagInv
  <2>1. Up(n)' <=> Up(n)
    BY <1>1 DEF Up
  <2>2. owner'[n] \in Task => owner'[n] = owner[n]
    BY <1>1 DEF CiaIInv, TypeInv
  <2>3. owner'[n] \in Task /\ pc'[owner'[n]] = "wait" => n \in running'
    BY <1>1, <2>2 DEF ServeInv, FlagInv
  <2> QED BY <1>1, <2>1, <2>3 DEF ServeInv, FlagInv
<1>6. \A d \in Chips : Range(chain'[d]) \subseteq Range(chain[d])
  <2>1. chain \in [Chips -> Seq(Server)] /\ chain[c] \in Seq(Server)
    BY <1>2 DEF CiaIInv, ChainInv
  <2>2. Range(RemoveAt(chain[c], k)) \subseteq Range(chain[c])
    BY <2>1, RemoveRange
  <2> QED BY <1>3, <2>1, <2>2
<1>7. \A s \in Server : Due(s)' => Due(s)
  BY <1>1 DEF Due, keyboard
<1>8. CallInv'
  BY <1>1, <1>6, <1>7, CallKept DEF ServeInv, CiaIInv
<1> QED BY <1>4, <1>5, <1>8 DEF ServeInv

(* setting a flag                                                             *)
LEMMA SetFlags ==
  ASSUME TypeInv, MaskInv, NEW c \in Chips, NEW f \in Flags,
         icr' = [icr EXCEPT ![c] = @ \cup {f}], UNCHANGED <<mask, pending>>,
         Latched(latch)
  PROVE  /\ MaskInv' /\ \A d \in Chips : latch[d] => latch'[d]
         /\ f \in icr'[c] /\ \A d \in Chips : icr[d] \subseteq icr'[d]
         /\ f \in mask[c] => latch'[c]
<1>1. f \in icr'[c] /\ \A d \in Chips : icr[d] \subseteq icr'[d]
  BY DEF TypeInv
<1>2. /\ latch' \in [Chips -> BOOLEAN]
      /\ \A d \in Chips : latch[d] => latch'[d]
      /\ \A d \in Chips : icr'[d] \cap mask'[d] # {} => latch'[d]
  BY LatchedFacts
<1>3. MaskInv'
  BY <1>2 DEF MaskInv
<1> QED BY <1>1, <1>2, <1>3

LEMMA UnderflowServes ==
  ASSUME CiaIInv, ServeInv, NEW m \in Timer, Underflow(m), ~ stray'
  PROVE  ServeInv'
<1>1. /\ m \in running /\ running' = running \ {m}
      /\ m # KeyTimer => owner[m] \in Task /\ pc[owner[m]] = "sleep"
      /\ icr' = [icr EXCEPT ![Chip(m)] = @ \cup {Flag(m)}]
      /\ Latched(latch)
      /\ UNCHANGED <<mask, pending, chain, owner, rest, waiter, keyboard, pc>>
  BY DEF Underflow, Awaited, tasks
<1>2. Chip(m) \in Chips /\ Flag(m) \in Flags
  BY TimerFlags DEF Flags
<1>3. /\ MaskInv' /\ \A d \in Chips : latch[d] => latch'[d]
      /\ \A d \in Chips : icr[d] \subseteq icr'[d]
      /\ Flag(m) \in mask[Chip(m)] => latch'[Chip(m)]
  BY <1>1, <1>2, SetFlags DEF CiaIInv, ServeInv
<1>4. \A n \in Timer : Up(n)' <=> Up(n) \/ n = m
  BY <1>1, <1>2, FlagUp, TimerFlags DEF CiaIInv
<1>5. SpinInv'
  <2>1. icr["A"] \subseteq icr'["A"]
    BY <1>3 DEF Chips
  <2> QED BY <1>1, <2>1 DEF ServeInv, SpinInv, keyboard
<1>6. FlagInv'
  <2> SUFFICES ASSUME NEW n \in Timer \ {KeyTimer}
               PROVE  /\ owner[n] \in Task /\ pc[owner[n]] = "wait" => n \in running'
                      /\ waiter[n] # Nobody /\ n \notin running' => Up(n)'
    BY <1>1 DEF FlagInv
  <2> QED BY <1>1, <1>4 DEF ServeInv, FlagInv
<1>7. CallInv'
  <2> SUFFICES ASSUME NEW d \in Chips, NEW s \in Range(chain[d]), Due(s)'
               PROVE  latch'[d] \/ s \in Range(rest[d])
    BY <1>1 DEF CallInv
  <2>1. CASE s = m /\ s # Keyboard
    <3>1. Flag(m) \in mask[Chip(m)] /\ Chip(m) = d
      BY <1>1, <2>1, ServerKinds DEF Due, CiaIInv
    <3> QED BY <1>3, <3>1
  <2>2. CASE s # m \/ s = Keyboard
    <3>1. Due(s)
      BY <1>1, <2>2 DEF Due, keyboard
    <3> QED BY <1>3, <3>1 DEF ServeInv, CallInv
  <2> QED BY <2>1, <2>2
<1> QED BY <1>3, <1>5, <1>6, <1>7 DEF ServeInv

LEMMA KeyServes ==
  ASSUME CiaIInv, ServeInv, Key
  PROVE  ServeInv'
<1>1. /\ key' = TRUE /\ icr' = [icr EXCEPT !["A"] = @ \cup {"SP"}] /\ Latched(latch)
      /\ UNCHANGED <<mask, pending, chain, owner, rest, running, waiter, spin, pc>>
  BY DEF Key, tasks
<1>2. "A" \in Chips /\ "SP" \in Flags
  BY DEF Chips, Flags
<1>3. /\ MaskInv' /\ \A d \in Chips : latch[d] => latch'[d]
      /\ "SP" \in icr'["A"] /\ latch'["A"]
  BY <1>1, <1>2, SetFlags DEF CiaIInv, ServeInv, MaskInv
<1>4. \A n \in Timer : Up(n)' <=> Up(n)
  BY <1>1, <1>2, FlagUp, TimerFlags DEF CiaIInv
<1>5. SpinInv' /\ FlagInv'
  BY <1>1, <1>3, <1>4 DEF ServeInv, SpinInv, FlagInv
<1>6. CallInv'
  <2> SUFFICES ASSUME NEW d \in Chips, NEW s \in Range(chain[d]), Due(s)'
               PROVE  latch'[d] \/ s \in Range(rest[d])
    BY <1>1 DEF CallInv
  <2>1. CASE s = Keyboard
    <3>1. d = "A"
      BY <2>1, ServerKinds DEF CiaIInv, Chip, Keyboard
    <3> QED BY <1>3, <3>1
  <2>2. CASE s # Keyboard
    <3>1. Due(s)
      BY <1>1, <2>2 DEF Due
    <3> QED BY <1>3, <3>1 DEF ServeInv, CallInv
  <2> QED BY <2>1, <2>2
<1> QED BY <1>3, <1>5, <1>6 DEF ServeInv

LEMMA EnterIntrServes ==
  ASSUME CiaIInv, ServeInv, NEW c \in Chips, EnterIntr(c)
  PROVE  ServeInv'
<1> DEFINE held == [latch EXCEPT ![c] = FALSE]
<1>1. /\ rest[c] = <<>> /\ rest' = [rest EXCEPT ![c] = chain[c]]
      /\ Latched(held)
      /\ UNCHANGED <<icr, mask, pending, chain, owner, running, waiter, keyboard, pc>>
  BY DEF EnterIntr, tasks
<1>2. /\ latch' \in [Chips -> BOOLEAN]
      /\ \A d \in Chips : held[d] => latch'[d]
      /\ \A d \in Chips : icr'[d] \cap mask'[d] # {} => latch'[d]
  <2> HIDE DEF held
  <2> QED BY <1>1, LatchedFacts
<1>3. MaskInv'
  BY <1>1, <1>2 DEF ServeInv, MaskInv
<1>4. rest'[c] = chain[c] /\ \A d \in Chips : d # c => rest'[d] = rest[d]
  BY <1>1 DEF CiaIInv, ChainInv
<1>5. \A d \in Chips : d # c /\ latch[d] => latch'[d]
  BY <1>2 DEF ServeInv, MaskInv
<1>6. FlagInv'
  BY <1>1 DEF ServeInv, FlagInv, Up
<1>7. SpinInv'
  <2>1. "A" \in Chips
    BY DEF Chips
  <2> QED BY <1>1, <1>4, <2>1 DEF ServeInv, SpinInv, keyboard
<1>8. CallInv'
  <2> SUFFICES ASSUME NEW d \in Chips, NEW s \in Range(chain[d]), Due(s)'
               PROVE  latch'[d] \/ s \in Range(rest'[d])
    BY <1>1 DEF CallInv
  <2>1. Due(s)
    BY <1>1 DEF Due, keyboard
  <2> QED BY <1>4, <1>5, <2>1 DEF ServeInv, CallInv
<1> QED BY <1>3, <1>6, <1>7, <1>8 DEF ServeInv

(* a server that returns and is not due can be taken out of the run           *)
LEMMA CallReturns ==
  ASSUME ChainInv, CallInv, NEW c \in Chips, rest[c] # <<>>, Returns(c), chain' = chain,
         \A d \in Chips : latch[d] => latch'[d],
         \A s \in Server : Due(s)' => Due(s) /\ s # Head(rest[c])
  PROVE  CallInv'
<1> SUFFICES ASSUME NEW d \in Chips, NEW s \in Range(chain[d]), Due(s)'
             PROVE  latch'[d] \/ s \in Range(rest'[d])
  BY DEF CallInv
<1>1. s \in Server
  BY ServerKinds
<1>2. latch'[d] \/ s \in Range(rest[d])
  BY <1>1 DEF CallInv
<1>3. CASE d = c
  BY <1>1, <1>2, <1>3, PopKeeps
<1>4. CASE d # c
  <2>1. rest'[d] = rest[d]
    BY <1>4 DEF Returns, ChainInv
  <2> QED BY <1>2, <2>1
<1> QED BY <1>3, <1>4

LEMMA CIATimerHandlerServes ==
  ASSUME CiaIInv, ServeInv, NEW c \in Chips, CIATimerHandler(c)
  PROVE  ServeInv'
<1> DEFINE m == Head(rest[c])
<1>1. /\ Running(c) /\ m \in Timer /\ ~ (spin /\ c = "A")
      /\ SampleICR(c, {Flag(m)}) /\ Returns(c)
      /\ UNCHANGED <<chain, owner, running, keyboard, pc>>
  BY DEF CIATimerHandler, tasks
<1>2. rest[c] # <<>> /\ Chip(m) = c
  BY <1>1, HeadOn DEF Running, CiaIInv
<1>3. {Flag(m)} \in SUBSET Flags /\ "SP" \in Flags /\ Flag(m) # "SP"
  BY <1>1, TimerFlags DEF Flags
<1>4. /\ MaskInv' /\ mask' = mask /\ \A d \in Chips : latch[d] => latch'[d]
      /\ \A d \in Chips : \A f \in Flags :
           f \in icr'[d] \cup pending'[d] <=>
             f \in icr[d] \cup pending[d] /\ ~ (d = c /\ f \in {Flag(m)})
  BY <1>1, <1>3, SampleFlags DEF CiaIInv, ServeInv
<1>5. \A n \in Timer : Up(n)' <=> Up(n) /\ n # m
  <2>1. \A n \in Timer : Up(n)' <=> Up(n) /\ ~ (Chip(n) = c /\ Flag(n) \in {Flag(m)})
    BY <1>1, <1>3, SampleUp DEF CiaIInv
  <2> QED BY <1>1, <1>2, <2>1, TimerFlags
<1>6. /\ m # KeyTimer /\ Up(m) => waiter'[m] = Nobody
      /\ ~ Up(m) => waiter' = waiter
      /\ \A n \in Timer : n # m => waiter'[n] = waiter[n]
  <2>1. Sampled(c, {Flag(m)}) <=> Up(m)
    BY <1>1, <1>2, SampledUp
  <2> QED BY <1>1, <2>1 DEF CIATimerHandler, CiaIInv, TypeInv
<1>7. waiter[KeyTimer] = Nobody
  BY DEF CiaIInv, KeyInv
<1>8. SpinInv'
  <2>1. "A" \in Chips
    BY DEF Chips
  <2>2. spin => rest'["A"] = rest["A"]
    BY <1>1, <2>1 DEF Returns, CiaIInv, ChainInv
  <2>3. "SP" \in icr'["A"] \cup pending'["A"] <=> "SP" \in icr["A"] \cup pending["A"]
    BY <1>3, <1>4, <2>1
  <2> QED BY <1>1, <2>2, <2>3 DEF ServeInv, SpinInv, keyboard
<1> HIDE DEF m
<1>9. FlagInv'
  <2> SUFFICES ASSUME NEW n \in Timer \ {KeyTimer}
               PROVE  /\ owner[n] \in Task /\ pc[owner[n]] = "wait" => n \in running
                      /\ waiter'[n] # Nobody /\ n \notin running => Up(n)'
    BY <1>1 DEF FlagInv
  <2>1. CASE n = m
    BY <1>5, <1>6, <2>1 DEF ServeInv, FlagInv
  <2>2. CASE n # m
    BY <1>5, <1>6, <2>2 DEF ServeInv, FlagInv
  <2> QED BY <2>1, <2>2
<1>10. ASSUME NEW s \in Server, Due(s)' PROVE Due(s) /\ s # m
  <2>1. CASE s = Keyboard
    BY <1>1, <1>10, <2>1, KeyTimerIsTimer DEF Due, keyboard
  <2>2. CASE s # Keyboard
    <3>1. /\ s \in Timer /\ waiter'[s] # Nobody /\ s \notin running
          /\ Flag(s) \in mask[Chip(s)]
      BY <1>1, <1>4, <1>10, <2>2 DEF Due, Server
    <3>2. s # m
      <4>1. ASSUME s = m PROVE FALSE
        <5>1. ~ Up(m) \/ m = KeyTimer
          BY <1>6, <3>1, <4>1
        <5>2. CASE ~ Up(m)
          BY <1>6, <1>7, <3>1, <4>1, <5>2 DEF ServeInv, FlagInv
        <5>3. CASE m = KeyTimer /\ Up(m)
          BY <1>1, <1>2, <5>3, FlagHasWaiter
        <5> QED BY <5>1, <5>2, <5>3
      <4> QED BY <4>1
    <3> QED BY <1>6, <2>2, <3>1, <3>2 DEF Due
  <2> QED BY <2>1, <2>2
<1>11. CallInv'
  BY <1>1, <1>2, <1>4, <1>10, CallReturns DEF ServeInv, CiaIInv, m
<1> QED BY <1>4, <1>8, <1>9, <1>11 DEF ServeInv

LEMMA KeyboardIntHandlerServes ==
  ASSUME CiaIInv, ServeInv, KeyboardIntHandler
  PROVE  ServeInv'
<1>1. /\ Running("A") /\ Head(rest["A"]) = Keyboard /\ ~ spin
      /\ SampleICR("A", {"SP"})
      /\ UNCHANGED <<chain, owner, waiter, key, pc>>
  BY DEF KeyboardIntHandler, tasks
<1>2. "A" \in Chips /\ {"SP"} \in SUBSET Flags /\ rest["A"] # <<>>
  BY <1>1 DEF Chips, Flags, Running
<1>3. MaskInv' /\ mask' = mask /\ \A d \in Chips : latch[d] => latch'[d]
  BY <1>1, <1>2, SampleFlags DEF CiaIInv, ServeInv
<1>4. \A n \in Timer : Up(n)' <=> Up(n)
  <2>1. \A n \in Timer : Up(n)' <=> Up(n) /\ ~ (Chip(n) = "A" /\ Flag(n) \in {"SP"})
    BY <1>1, <1>2, SampleUp DEF CiaIInv
  <2> QED BY <2>1, TimerFlags
<1>5. running \subseteq running' /\ \A n \in Timer \ {KeyTimer} : n \in running' => n \in running
  BY DEF KeyboardIntHandler
<1>6. FlagInv'
  BY <1>1, <1>4, <1>5 DEF ServeInv, FlagInv
<1>7. CASE Sampled("A", {"SP"})
  <2>1. spin' = TRUE /\ UNCHANGED rest
    BY <1>7 DEF KeyboardIntHandler
  <2>2. SpinInv'
    BY <1>1, <1>2, <2>1 DEF SpinInv
  <2>3. \A s \in Server : Due(s)' => Due(s)
    BY <1>1, <1>3, <1>5, <2>1 DEF Due
  <2>4. CallInv'
    BY <1>1, <1>3, <2>1, <2>3, CallKept DEF ServeInv, CiaIInv
  <2> QED BY <1>3, <1>6, <2>2, <2>4 DEF ServeInv
<1>8. CASE ~ Sampled("A", {"SP"})
  <2>1. Returns("A") /\ UNCHANGED <<spin, running>>
    BY <1>8 DEF KeyboardIntHandler
  <2>2. "SP" \notin icr["A"] \cup pending["A"]
    BY <1>8 DEF Sampled
  <2>3. ~ key
    BY <1>1, <2>2 DEF ServeInv, SpinInv
  <2>4. SpinInv'
    BY <1>1, <2>1, <2>3 DEF SpinInv
  <2>5. \A s \in Server : Due(s)' => Due(s) /\ s # Keyboard
    BY <1>1, <1>3, <2>1, <2>3 DEF Due
  <2>6. CallInv'
    BY <1>1, <1>2, <1>3, <2>1, <2>5, CallReturns DEF ServeInv, CiaIInv
  <2> QED BY <1>3, <1>6, <2>4, <2>6 DEF ServeInv
<1> QED BY <1>7, <1>8

LEMMA WaitTimerSpinServes ==
  ASSUME CiaIInv, ServeInv, WaitTimerSpin
  PROVE  ServeInv'
<1>1. /\ Running("A") /\ spin /\ SampleICR("A", {Flag(KeyTimer)})
      /\ UNCHANGED <<chain, owner, running, waiter, pc>>
  BY DEF WaitTimerSpin, tasks
<1>2. /\ "A" \in Chips /\ Chip(KeyTimer) = "A" /\ rest["A"] # <<>>
      /\ Head(rest["A"]) = Keyboard
  BY <1>1 DEF Chips, Chip, KeyTimer, Running, ServeInv, SpinInv
<1>3. {Flag(KeyTimer)} \in SUBSET Flags
  BY KeyTimerIsTimer, TimerFlags DEF Flags
<1>4. MaskInv' /\ mask' = mask /\ \A d \in Chips : latch[d] => latch'[d]
  BY <1>1, <1>2, <1>3, SampleFlags DEF CiaIInv, ServeInv
<1>5. \A n \in Timer : Up(n)' <=> Up(n) /\ n # KeyTimer
  <2>1. \A n \in Timer :
          Up(n)' <=> Up(n) /\ ~ (Chip(n) = "A" /\ Flag(n) \in {Flag(KeyTimer)})
    BY <1>1, <1>2, <1>3, SampleUp DEF CiaIInv
  <2> QED BY <1>2, <2>1, KeyTimerIsTimer, TimerFlags
<1>6. FlagInv'
  BY <1>1, <1>5 DEF ServeInv, FlagInv
<1>7. CASE Sampled("A", {Flag(KeyTimer)})
  <2>1. spin' = FALSE /\ key' = FALSE /\ Returns("A")
    BY <1>7 DEF WaitTimerSpin
  <2>2. SpinInv'
    BY <2>1 DEF SpinInv
  <2>3. \A s \in Server : Due(s)' => Due(s) /\ s # Keyboard
    BY <1>1, <1>4, <2>1 DEF Due
  <2>4. CallInv'
    BY <1>1, <1>2, <1>4, <2>1, <2>3, CallReturns DEF ServeInv, CiaIInv
  <2> QED BY <1>4, <1>6, <2>2, <2>4 DEF ServeInv
<1>8. CASE ~ Sampled("A", {Flag(KeyTimer)})
  <2>1. UNCHANGED <<spin, key, rest>>
    BY <1>8 DEF WaitTimerSpin
  <2>2. SpinInv'
    BY <1>1, <2>1 DEF ServeInv, SpinInv
  <2>3. \A s \in Server : Due(s)' => Due(s)
    BY <1>1, <1>4, <2>1 DEF Due
  <2>4. CallInv'
    BY <1>1, <1>4, <2>1, <2>3, CallKept DEF ServeInv, CiaIInv
  <2> QED BY <1>4, <1>6, <2>2, <2>4 DEF ServeInv
<1> QED BY <1>7, <1>8

LEMMA ServeInit == CiaInit => ServeInv
<1> SUFFICES ASSUME CiaInit PROVE ServeInv
  OBVIOUS
<1>1. "A" \in Chips
  BY DEF Chips
<1>2. \A c \in Chips : icr[c] = {}
  BY DEF CiaInit
<1>3. MaskInv
  BY <1>1, <1>2 DEF CiaInit, MaskInv, Flags
<1>4. FlagInv /\ SpinInv
  BY DEF CiaInit, FlagInv, SpinInv
<1>5. ASSUME NEW s \in Server PROVE ~ Due(s)
  BY <1>5 DEF CiaInit, Due, Server
<1>6. ChainInv
  BY InvInit DEF CiaIInv
<1>7. CallInv
  BY <1>5, <1>6, ServerKinds DEF CallInv
<1> QED BY <1>3, <1>4, <1>7 DEF ServeInv

LEMMA NotifyOtherServes ==
  ASSUME ServeInv, UNCHANGED <<chips, chain, rest, running, waiter, keyboard, tasks>>
  PROVE  ServeInv'
<1>1. /\ UNCHANGED <<icr, mask, pending, latch, chain, rest, running, waiter>>
      /\ UNCHANGED <<key, spin, owner, pc>>
  BY DEF chips, keyboard, tasks
<1>2. MaskInv' /\ FlagInv' /\ SpinInv'
  BY <1>1 DEF ServeInv, MaskInv, FlagInv, SpinInv, Up
<1>3. CallInv'
  BY <1>1 DEF ServeInv, CallInv, Due
<1> QED BY <1>2, <1>3 DEF ServeInv

LEMMA ServesStep ==
  ASSUME CiaIInv, ServeInv, CiaNext, ~ stray'
  PROVE  ServeInv'
<1>1. ASSUME NEW t \in Task, TaskStep(t) PROVE ServeInv'
  BY <1>1, TurnOffServes, LoadServes, SetWaiterServes, TurnOnServes, NotifyWaitServes,
     AcquireTimerServes, AddIntServerServes, ReleaseTimerServes DEF TaskStep
<1>2. ASSUME NEW t \in Task, NotifyOther(t) PROVE ServeInv'
  BY <1>2, NotifyOtherServes DEF NotifyOther
<1>3. CASE HandlerStep
  BY <1>3, EnterIntrServes, CIATimerHandlerServes, KeyboardIntHandlerServes,
     WaitTimerSpinServes DEF HandlerStep
<1>4. CASE \E m \in Timer : Underflow(m)
  BY <1>4, UnderflowServes
<1>5. CASE Key
  BY <1>5, KeyServes
<1> QED BY <1>1, <1>2, <1>3, <1>4, <1>5 DEF CiaNext

LEMMA FlagsAreServed == CiaIInv /\ ServeInv => FlagsServed
<1> SUFFICES ASSUME CiaIInv, ServeInv, NEW c \in Chips, NEW s \in Range(chain[c]), Due(s)
             PROVE  /\ Flag(s) \in icr[c] \cup pending[c]
                    /\ latch[c] \/ s \in Range(rest[c])
  BY DEF FlagsServed
<1>1. s \in Server /\ Chip(s) = c /\ (s # Keyboard => s \in Timer)
  BY ServerKinds DEF CiaIInv
<1>2. Flag(s) \in icr[c] \cup pending[c]
  <2>1. CASE s = Keyboard
    BY <1>1, <2>1 DEF Due, ServeInv, SpinInv, Chip, Flag, Keyboard
  <2>2. CASE s # Keyboard
    <3>1. s \in Timer /\ waiter[s] # Nobody /\ s \notin running /\ s # KeyTimer
      BY <1>1, <2>2 DEF Due, CiaIInv, KeyInv
    <3> QED BY <1>1, <3>1 DEF ServeInv, FlagInv, Up
  <2> QED BY <2>1, <2>2
<1> QED BY <1>2 DEF ServeInv, CallInv

CalmServes == ~ stray => ServeInv

(* Until a timer runs out for nobody, handlers find their flags, and the      *)
(* tasks they serve: a handler that takes the flag of its timer knows whom to *)
(* notify, as xTaskNotifyFromISR asserts, and what a server waits for is not  *)
(* lost in the register its chip clears when it is read, although tasks leave *)
(* their sleep early, and set or release a timer that counts                  *)
THEOREM TimersSoundHolds == CiaSpec => []TimersSound
<1>1. CiaInit => CalmServes
  BY ServeInit DEF CalmServes
<1>2. CalmInv /\ CalmServes /\ [CiaNext]_ciaVars => CalmServes'
  <2> SUFFICES ASSUME CalmInv, CalmServes, [CiaNext]_ciaVars, ~ stray' PROVE ServeInv'
    BY DEF CalmServes
  <2>1. CASE CiaNext
    BY <2>1, StrayStays, ServesStep DEF CalmInv, CalmServes
  <2>2. CASE UNCHANGED ciaVars
    <3>1. stray' = stray /\ UNCHANGED <<chips, chain, rest, running, waiter, keyboard, tasks>>
      BY <2>2 DEF ciaVars, sleep
    <3> QED BY <3>1, NotifyOtherServes DEF CalmServes
  <2> QED BY <2>1, <2>2
<1>3. CalmInv /\ CalmServes => TimersSound
  BY WaiterIsKnown, FlagsAreServed DEF CalmInv, CalmServes, TimersSound
<1> QED BY <1>1, <1>2, <1>3, CiaInvariantHolds, PTL DEF CiaSpec

------------------------------------------------------------------------------
(* Devices                                                                    *)

HIDE CiaAssumption
USE DevicesAssumption DEF Tasks

UsedBy == {t \in Tasks : doing[t] \in Using}

(* The use count is the number of tasks that have the device open             *)
CountInv == usecnt = Cardinality(UsedBy)

(* The scheduler is suspended for the task that is in an open routine, and    *)
(* only one task at a time is in an open or a close routine that finds the    *)
(* device unused                                                              *)
AloneInv ==
  /\ \A t \in Tasks : doing[t] = "opening" => suspended = t
  /\ usecnt = 0 =>
       \A s, t \in Tasks : doing[s] \in Changing /\ doing[t] \in Changing => s = t

(* How far the device is set up shows in where the tasks are                  *)
SetUpInv ==
  /\ linked \in {0, 1}
  /\ \A t \in Tasks :
       /\ doing[t] \in {"opening", "closing", "removed"} => usecnt = 0
       /\ doing[t] \in {"opening", "removed"} => linked = 0
       /\ doing[t] \in Using \cup {"dropped", "closing"} => linked = 1
       /\ doing[t] # "idle" => Live(eventQ)
       /\ doing[t] = "reading" => reading[t] = eventQ
  /\ linked = 1 => \E t \in Tasks : doing[t] \in Using \cup {"dropped", "closing"}
  /\ Live(eventQ) => \E t \in Tasks : doing[t] # "idle"
  /\ \A q \in DOMAIN queues : Live(q) => q = eventQ

(* Who listens has a note, and an event in the queue that it has not read is  *)
(* announced to it until it starts to read                                    *)
ListenInv ==
  /\ \A t \in Listeners : doing[t] \in {"waiting", "draining"} => Listed(t)
  /\ \A t \in Users : doing[t] \notin {"waiting", "draining"}
  /\ Live(eventQ) =>
       \A t \in Listeners \ event : doing[t] # "draining" =>
         \A i \in 1 .. Len(queues[eventQ]) : t \notin queues[eventQ][i]

DevicesInv == DevicesTypeOK /\ CountInv /\ AloneInv /\ SetUpInv /\ ListenInv

-----------------------------------------------------------------------------
(* Helpers *)

Doings == Using \cup Changing \cup {"idle"}

LEMMA GoesOnType ==
  ASSUME DevicesTypeOK, NEW t \in Tasks, NEW x \in Doings, GoesOn(t, x)
  PROVE  /\ doing' \in [Tasks -> Doings] /\ doing'[t] = x
         /\ \A s \in Tasks : s # t => doing'[s] = doing[s]
  BY DEF DevicesTypeOK, GoesOn, Doings

LEMMA FiniteUse == IsFiniteSet(UsedBy)
<1>1. UsedBy \subseteq Tasks
  BY DEF UsedBy
<1> QED BY <1>1, FS_Subset

(* one more task uses the device, one less, or the same ones                  *)
LEMMA CountUp ==
  ASSUME CountInv, NEW t \in Tasks, doing[t] \notin Using, doing'[t] \in Using,
         \A s \in Tasks : s # t => doing'[s] = doing[s], usecnt' = usecnt + 1
  PROVE  CountInv'
<1>1. UsedBy' = UsedBy \cup {t} /\ t \notin UsedBy
  BY DEF UsedBy
<1>2. Cardinality(UsedBy') = Cardinality(UsedBy) + 1
  BY <1>1, FiniteUse, FS_AddElement
<1> QED BY <1>2 DEF CountInv

LEMMA CountDown ==
  ASSUME CountInv, NEW t \in Tasks, doing[t] \in Using, doing'[t] \notin Using,
         \A s \in Tasks : s # t => doing'[s] = doing[s], usecnt' = usecnt - 1
  PROVE  CountInv'
<1>1. UsedBy' = UsedBy \ {t} /\ t \in UsedBy
  BY DEF UsedBy
<1>2. Cardinality(UsedBy') = Cardinality(UsedBy) - 1
  BY <1>1, FiniteUse, FS_RemoveElement
<1> QED BY <1>2 DEF CountInv

LEMMA CountSame ==
  ASSUME CountInv, NEW t \in Tasks, doing[t] \in Using <=> doing'[t] \in Using,
         \A s \in Tasks : s # t => doing'[s] = doing[s], usecnt' = usecnt
  PROVE  CountInv'
<1>1. UsedBy' = UsedBy
  BY DEF UsedBy
<1> QED BY <1>1 DEF CountInv

LEMMA NobodyUses ==
  ASSUME CountInv
  PROVE  /\ usecnt \in Nat
         /\ usecnt = 0 <=> \A t \in Tasks : doing[t] \notin Using
<1>1. usecnt = 0 <=> UsedBy = {}
  BY FiniteUse, FS_EmptySet DEF CountInv
<1>2. usecnt \in Nat
  BY FiniteUse, FS_CardinalityType DEF CountInv
<1> QED BY <1>1, <1>2 DEF UsedBy

(* nobody is in an open or close routine when the first open begins, ...      *)
LEMMA NobodyChanges ==
  ASSUME DevicesTypeOK, AloneInv, NEW t \in Tasks, doing[t] # "opening",
         Runs(t), Closing = {}
  PROVE  \A s \in Tasks : doing[s] \notin Changing
  BY DEF Runs, Closing, AloneInv, Changing

(* ... and only close routines with nothing to do run while the device is in  *)
(* use                                                                        *)
LEMMA InUse ==
  ASSUME SetUpInv, usecnt # 0
  PROVE  \A t \in Tasks : doing[t] \notin {"opening", "closing", "removed"}
  BY DEF SetUpInv

(* the current queue gets new contents                                        *)
LEMMA QueueChange ==
  ASSUME DevicesTypeOK, Live(eventQ), NEW s \in Seq(SUBSET Listeners), Len(s) <= QueueSize,
         queues' = [queues EXCEPT ![eventQ] = s], eventQ' = eventQ
  PROVE  /\ queues' \in Seq({Nil} \cup Seq(SUBSET Listeners))
         /\ Len(queues') = Len(queues)
         /\ \A q \in DOMAIN queues' : Live(q)' => Len(queues'[q]) <= QueueSize
         /\ \A q : Live(q)' <=> Live(q)
         /\ queues'[eventQ] = s
<1>1. queues \in Seq({Nil} \cup Seq(SUBSET Listeners)) /\ eventQ \in 1 .. Len(queues)
  BY DEF DevicesTypeOK, Live
<1>2. /\ queues' \in Seq({Nil} \cup Seq(SUBSET Listeners))
      /\ Len(queues') = Len(queues) /\ DOMAIN queues' = DOMAIN queues
      /\ queues'[eventQ] = s
      /\ \A q \in DOMAIN queues : q # eventQ => queues'[q] = queues[q]
  BY <1>1
<1>3. s # Nil
  OBVIOUS
<1>4. \A q : Live(q)' <=> Live(q)
  BY <1>2, <1>3 DEF Live
<1>5. \A q \in DOMAIN queues' : Live(q)' => Len(queues'[q]) <= QueueSize
  BY <1>2, <1>4 DEF DevicesTypeOK
<1> QED BY <1>2, <1>4, <1>5

-----------------------------------------------------------------------------
(* Opening *)

LEMMA OpenAgainStep ==
  ASSUME DevicesInv, NEW t \in Tasks, OpenAgain(t)
  PROVE  DevicesInv'
<1>1. /\ doing' \in [Tasks -> Doings] /\ doing[t] = "idle" /\ doing'[t] = "open"
      /\ \A s \in Tasks : s # t => doing'[s] = doing[s]
      /\ usecnt # 0 /\ usecnt' = usecnt + 1
      /\ UNCHANGED <<linked, eventQ, queues, notes, suspended, reading, event>>
  BY GoesOnType DEF OpenAgain, Does, DevicesInv, Doings, Using
<1>2. \A s \in Tasks : doing[s] \notin {"opening", "closing", "removed"}
  BY <1>1, InUse DEF DevicesInv
<1>3. usecnt' # 0 /\ \E s \in Tasks : doing[s] \in Using
  BY <1>1, NobodyUses DEF DevicesInv
<1>4. DevicesTypeOK'
  BY <1>1 DEF DevicesInv, DevicesTypeOK, Doings, Live
<1>5. CountInv'
  BY <1>1, CountUp DEF DevicesInv, Using
<1>6. AloneInv'
  BY <1>1, <1>2, <1>3 DEF AloneInv
<1>7. SetUpInv'
  BY <1>1, <1>2, <1>3 DEF DevicesInv, SetUpInv, Using, Live
<1>8. ListenInv'
  BY <1>1 DEF DevicesInv, ListenInv, Listed, Live
<1> QED BY <1>4, <1>5, <1>6, <1>7, <1>8 DEF DevicesInv

LEMMA CreateQueueStep ==
  ASSUME DevicesInv, NEW t \in Tasks, CreateQueue(t), ~ raced'
  PROVE  DevicesInv'
<1>1. /\ doing' \in [Tasks -> Doings] /\ doing[t] = "idle" /\ doing'[t] = "opening"
      /\ \A s \in Tasks : s # t => doing'[s] = doing[s]
      /\ usecnt = 0 /\ Closing = {} /\ Runs(t)
      /\ queues' = Append(queues, <<>>) /\ eventQ' = Len(queues')
      /\ suspended' = t
      /\ UNCHANGED <<usecnt, linked, notes, reading, event>>
  BY GoesOnType DEF CreateQueue, Races, Does, DevicesInv, Doings, Changing
<1>2. \A s \in Tasks : doing[s] = "idle"
  <2>1. \A s \in Tasks : doing[s] \notin Changing
    BY <1>1, NobodyChanges DEF DevicesInv
  <2>2. \A s \in Tasks : doing[s] \notin Using
    BY <1>1, NobodyUses DEF DevicesInv
  <2> QED BY <2>1, <2>2 DEF DevicesInv, DevicesTypeOK
<1>3. linked = 0 /\ \A q \in DOMAIN queues : ~ Live(q)
  BY <1>2 DEF DevicesInv, SetUpInv, Using
<1>4. /\ queues \in Seq({Nil} \cup Seq(SUBSET Listeners))
      /\ <<>> \in Seq(SUBSET Listeners) /\ <<>> # Nil
  <2>1. <<>> \in Seq(SUBSET Listeners)
    BY EmptySeq
  <2> QED BY <2>1 DEF DevicesInv, DevicesTypeOK
<1>5. /\ queues' \in Seq({Nil} \cup Seq(SUBSET Listeners))
      /\ Len(queues') = Len(queues) + 1 /\ eventQ' = Len(queues) + 1
      /\ queues'[eventQ'] = <<>>
      /\ \A q \in DOMAIN queues' :
           q = eventQ' \/ (q \in DOMAIN queues /\ queues'[q] = queues[q])
  <2> DEFINE Q == {Nil} \cup Seq(SUBSET Listeners)
  <2>1. queues \in Seq(Q) /\ <<>> \in Q
    BY <1>4
  <2> HIDE DEF Q
  <2>2. /\ queues' \in Seq(Q) /\ Len(queues') = Len(queues) + 1
        /\ queues'[Len(queues) + 1] = <<>>
        /\ \A q \in 1 .. Len(queues) : queues'[q] = queues[q]
    BY <1>1, <2>1, AppendProperties
  <2>3. DOMAIN queues = 1 .. Len(queues) /\ DOMAIN queues' = 1 .. Len(queues) + 1
        /\ Len(queues) \in Nat
    BY <2>1, <2>2
  <2>4. queues' \in Seq({Nil} \cup Seq(SUBSET Listeners))
    BY <2>2 DEF Q
  <2>5. eventQ' = Len(queues) + 1 /\ queues'[eventQ'] = <<>>
    BY <1>1, <2>2
  <2>6. ASSUME NEW q \in DOMAIN queues', q # eventQ'
        PROVE  q \in DOMAIN queues /\ queues'[q] = queues[q]
    <3>1. q \in 1 .. Len(queues)
      BY <2>3, <2>5, <2>6
    <3> QED BY <2>2, <2>3, <3>1
  <2> QED BY <2>2, <2>4, <2>5, <2>6
<1>6. Live(eventQ)' /\ \A q \in DOMAIN queues' : Live(q)' => q = eventQ'
  BY <1>3, <1>4, <1>5 DEF Live
<1>7. DevicesTypeOK'
  <2>1. \A q \in DOMAIN queues' : Live(q)' => Len(queues'[q]) <= QueueSize
    BY <1>5, <1>6
  <2>2. reading' \in [Tasks -> 0 .. Len(queues')] /\ eventQ' \in 0 .. Len(queues')
    BY <1>1, <1>4, <1>5 DEF DevicesInv, DevicesTypeOK
  <2> QED BY <1>1, <1>5, <2>1, <2>2 DEF DevicesInv, DevicesTypeOK, Doings
<1>8. CountInv'
  BY <1>1, CountSame DEF DevicesInv, Using
<1>9. AloneInv'
  BY <1>1, <1>2 DEF AloneInv, Changing
<1>10. SetUpInv'
  BY <1>1, <1>2, <1>3, <1>6 DEF SetUpInv, Using
<1>11. ListenInv'
  BY <1>1, <1>2, <1>5 DEF DevicesInv, ListenInv, Listed
<1> QED BY <1>7, <1>8, <1>9, <1>10, <1>11 DEF DevicesInv

LEMMA AddServerStep ==
  ASSUME DevicesInv, NEW t \in Tasks, AddServer(t)
  PROVE  DevicesInv'
<1>1. /\ doing' \in [Tasks -> Doings] /\ doing[t] = "opening" /\ doing'[t] = "open"
      /\ \A s \in Tasks : s # t => doing'[s] = doing[s]
      /\ linked' = linked + 1 /\ usecnt' = usecnt + 1 /\ suspended' = Nil
      /\ UNCHANGED <<eventQ, queues, notes, reading, event>>
  BY GoesOnType DEF AddServer, Does, DevicesInv, Doings, Using
<1>2. linked = 0 /\ usecnt = 0 /\ Live(eventQ)
  BY <1>1 DEF DevicesInv, SetUpInv
<1>3. \A s \in Tasks : s # t => doing[s] \notin Changing
  BY <1>1, <1>2 DEF DevicesInv, AloneInv, Changing
<1>4. DevicesTypeOK'
  BY <1>1 DEF DevicesInv, DevicesTypeOK, Doings, Live
<1>5. CountInv'
  BY <1>1, CountUp DEF DevicesInv, Using
<1>6. AloneInv'
  <2>1. usecnt' # 0 /\ \A s \in Tasks : doing'[s] # "opening"
    BY <1>1, <1>2, <1>3 DEF Changing
  <2> QED BY <2>1 DEF AloneInv
<1>7. SetUpInv'
  BY <1>1, <1>2, <1>3 DEF DevicesInv, SetUpInv, Changing, Using, Live
<1>8. ListenInv'
  BY <1>1 DEF DevicesInv, ListenInv, Listed, Live
<1> QED BY <1>4, <1>5, <1>6, <1>7, <1>8 DEF DevicesInv

-----------------------------------------------------------------------------
(* Closing *)

LEMMA DropStep ==
  ASSUME DevicesInv, NEW t \in Tasks, Drop(t), ~ raced'
  PROVE  DevicesInv'
<1>1. /\ doing' \in [Tasks -> Doings] /\ doing[t] \in {"open", "waiting"} /\ doing'[t] = "dropped"
      /\ \A s \in Tasks : s # t => doing'[s] = doing[s]
      /\ usecnt' = usecnt - 1
      /\ UNCHANGED <<linked, eventQ, queues, notes, suspended, reading, event>>
  BY GoesOnType DEF Drop, Does, DevicesInv, Doings, Changing
<1>2. \A s \in Tasks : doing[s] \notin {"opening", "closing", "removed"}
  <2>1. usecnt # 0
    BY <1>1, NobodyUses DEF DevicesInv, Using
  <2> QED BY <2>1, InUse DEF DevicesInv
<1>3. usecnt' = 0 => \A s \in Tasks : doing[s] \notin Changing
  BY <1>1, <1>2 DEF Drop, Races, Closing, Changing
<1>4. DevicesTypeOK'
  BY <1>1 DEF DevicesInv, DevicesTypeOK, Doings, Live
<1>5. CountInv'
  BY <1>1, CountDown DEF DevicesInv, Using
<1>6. AloneInv'
  <2>1. \A s \in Tasks : doing'[s] # "opening"
    BY <1>1, <1>2
  <2>2. ASSUME usecnt' = 0, NEW r \in Tasks, doing'[r] \in Changing PROVE r = t
    BY <1>1, <1>3, <2>2
  <2> QED BY <2>1, <2>2 DEF AloneInv
<1>7. SetUpInv'
  BY <1>1, <1>2 DEF DevicesInv, SetUpInv, Using, Live
<1>8. ListenInv'
  BY <1>1 DEF DevicesInv, ListenInv, Listed, Live
<1> QED BY <1>4, <1>5, <1>6, <1>7, <1>8 DEF DevicesInv

LEMMA CloseLastStep ==
  ASSUME DevicesInv, NEW t \in Tasks, CloseLast(t)
  PROVE  DevicesInv'
<1>1. /\ doing' \in [Tasks -> Doings] /\ doing[t] = "dropped"
      /\ doing'[t] = IF usecnt = 0 THEN "closing" ELSE "idle"
      /\ \A s \in Tasks : s # t => doing'[s] = doing[s]
      /\ UNCHANGED <<usecnt, linked, eventQ, queues, notes, suspended, reading, event>>
  BY GoesOnType DEF CloseLast, Does, DevicesInv, Doings, Changing
<1>2. usecnt = 0 => \A s \in Tasks : s # t => doing[s] \notin Changing
  BY <1>1 DEF DevicesInv, AloneInv, Changing
<1>3. usecnt # 0 => \E s \in Tasks : s # t /\ doing[s] \in Using
  BY <1>1, NobodyUses DEF DevicesInv, Using
<1>4. DevicesTypeOK'
  BY <1>1 DEF DevicesInv, DevicesTypeOK, Doings, Live
<1>5. CountInv'
  BY <1>1, CountSame DEF DevicesInv, Using
<1>6. AloneInv'
  BY <1>1, <1>2 DEF DevicesInv, AloneInv, Changing
<1>7. SetUpInv'
  <2>1. CASE usecnt = 0
    BY <1>1, <1>2, <2>1 DEF DevicesInv, SetUpInv, Changing, Using, Live
  <2>2. CASE usecnt # 0
    BY <1>1, <1>3, <2>2, InUse DEF DevicesInv, SetUpInv, Using, Live
  <2> QED BY <2>1, <2>2
<1>8. ListenInv'
  BY <1>1 DEF DevicesInv, ListenInv, Listed, Live
<1> QED BY <1>4, <1>5, <1>6, <1>7, <1>8 DEF DevicesInv

LEMMA RemServerStep ==
  ASSUME DevicesInv, NEW t \in Tasks, RemServer(t)
  PROVE  DevicesInv'
<1>1. /\ doing' \in [Tasks -> Doings] /\ doing[t] = "closing" /\ doing'[t] = "removed"
      /\ \A s \in Tasks : s # t => doing'[s] = doing[s]
      /\ linked' = linked - 1
      /\ UNCHANGED <<usecnt, eventQ, queues, notes, suspended, reading, event>>
  BY GoesOnType DEF RemServer, Does, DevicesInv, Doings, Changing
<1>2. \A s \in Tasks : s # t => doing[s] \notin Changing
  <2>1. usecnt = 0
    BY <1>1 DEF DevicesInv, SetUpInv
  <2> QED BY <1>1, <2>1 DEF DevicesInv, AloneInv, Changing
<1>3. linked = 1 /\ usecnt = 0 /\ Live(eventQ)
  BY <1>1 DEF DevicesInv, SetUpInv
<1>4. \A s \in Tasks : doing[s] \notin Using
  BY <1>3, NobodyUses DEF DevicesInv
<1>5. DevicesTypeOK'
  BY <1>1, <1>3 DEF DevicesInv, DevicesTypeOK, Doings, Live
<1>6. CountInv'
  BY <1>1, CountSame DEF DevicesInv, Using
<1>7. AloneInv'
  BY <1>1, <1>2 DEF DevicesInv, AloneInv, Changing
<1>8. SetUpInv'
  BY <1>1, <1>2, <1>3, <1>4 DEF DevicesInv, SetUpInv, Changing, Using, Live
<1>9. ListenInv'
  BY <1>1 DEF DevicesInv, ListenInv, Listed, Live
<1> QED BY <1>5, <1>6, <1>7, <1>8, <1>9 DEF DevicesInv

LEMMA DeleteQueueStep ==
  ASSUME DevicesInv, NEW t \in Tasks, DeleteQueue(t)
  PROVE  DevicesInv'
<1>1. /\ doing' \in [Tasks -> Doings] /\ doing[t] = "removed" /\ doing'[t] = "idle"
      /\ \A s \in Tasks : s # t => doing'[s] = doing[s]
      /\ queues' = [queues EXCEPT ![eventQ] = Nil]
      /\ UNCHANGED <<usecnt, linked, eventQ, notes, suspended, reading, event>>
  BY GoesOnType DEF DeleteQueue, Does, DevicesInv, Doings, Changing
<1>2. \A s \in Tasks : s # t => doing[s] \notin Changing
  <2>1. usecnt = 0
    BY <1>1 DEF DevicesInv, SetUpInv
  <2> QED BY <1>1, <2>1 DEF DevicesInv, AloneInv, Changing
<1>3. linked = 0 /\ usecnt = 0 /\ Live(eventQ)
  BY <1>1 DEF DevicesInv, SetUpInv
<1>4. \A s \in Tasks : doing[s] \notin Using
  BY <1>3, NobodyUses DEF DevicesInv
<1>5. /\ queues' \in Seq({Nil} \cup Seq(SUBSET Listeners))
      /\ Len(queues') = Len(queues) /\ DOMAIN queues' = DOMAIN queues
      /\ queues'[eventQ] = Nil
      /\ \A q \in DOMAIN queues : q # eventQ => queues'[q] = queues[q]
  BY <1>1, <1>3 DEF DevicesInv, DevicesTypeOK, Live
<1>6. ~ Live(eventQ)' /\ \A q \in DOMAIN queues' : ~ Live(q)'
  BY <1>1, <1>5 DEF DevicesInv, SetUpInv, Live
<1>7. DevicesTypeOK'
  BY <1>1, <1>5, <1>6 DEF DevicesInv, DevicesTypeOK, Doings
<1>8. CountInv'
  BY <1>1, CountSame DEF DevicesInv, Using
<1>9. AloneInv'
  BY <1>1, <1>2 DEF DevicesInv, AloneInv, Changing
<1>10. SetUpInv'
  <2>1. \A s \in Tasks : doing'[s] = "idle"
    BY <1>1, <1>2, <1>4 DEF DevicesInv, DevicesTypeOK
  <2> QED BY <1>1, <1>3, <1>6, <2>1 DEF SetUpInv, Using
<1>11. ListenInv'
  BY <1>1, <1>6 DEF DevicesInv, ListenInv, Listed
<1> QED BY <1>7, <1>8, <1>9, <1>10, <1>11 DEF DevicesInv

-----------------------------------------------------------------------------
(* Events *)

LEMMA MonitorAddStep ==
  ASSUME DevicesInv, NEW t \in Tasks, MonitorAdd(t)
  PROVE  DevicesInv'
<1>1. /\ doing' \in [Tasks -> Doings] /\ doing[t] = "open" /\ doing'[t] = "waiting"
      /\ \A s \in Tasks : s # t => doing'[s] = doing[s]
      /\ t \in Listeners
      /\ UNCHANGED <<usecnt, linked, eventQ, queues, suspended, reading, event>>
  BY GoesOnType DEF MonitorAdd, Does, DevicesInv, Doings, Using
<1>2. /\ notes' \in [Listeners -> {0, 1}] /\ notes'[t] = 1
      /\ \A l \in Listeners : l # t => notes'[l] = notes[l]
  BY <1>1 DEF MonitorAdd, Listed, DevicesInv, DevicesTypeOK
<1>3. DevicesTypeOK'
  BY <1>1, <1>2 DEF DevicesInv, DevicesTypeOK, Doings, Live
<1>4. CountInv'
  BY <1>1, CountSame DEF DevicesInv, Using
<1>5. AloneInv'
  BY <1>1 DEF DevicesInv, AloneInv, Changing
<1>6. SetUpInv'
  BY <1>1 DEF DevicesInv, SetUpInv, Using, Live
<1>7. ListenInv'
  BY <1>1, <1>2 DEF DevicesInv, ListenInv, Listed, Live
<1> QED BY <1>3, <1>4, <1>5, <1>6, <1>7 DEF DevicesInv

LEMMA MonitorDeleteStep ==
  ASSUME DevicesInv, NEW t \in Tasks, MonitorDelete(t)
  PROVE  DevicesInv'
<1>1. /\ doing' \in [Tasks -> Doings] /\ doing[t] = "waiting" /\ doing'[t] = "open"
      /\ \A s \in Tasks : s # t => doing'[s] = doing[s]
      /\ UNCHANGED <<usecnt, linked, eventQ, queues, suspended, reading, event>>
  BY GoesOnType DEF MonitorDelete, Does, DevicesInv, Doings, Using
<1>2. /\ notes' \in [Listeners -> {0, 1}]
      /\ \A l \in Listeners : l # t => notes'[l] = notes[l]
  <2>1. t \in Listeners /\ notes \in [Listeners -> {0, 1}]
    BY <1>1 DEF DevicesInv, ListenInv, DevicesTypeOK
  <2> QED BY <2>1 DEF MonitorDelete, Listed
<1>3. DevicesTypeOK'
  BY <1>1, <1>2 DEF DevicesInv, DevicesTypeOK, Doings, Live
<1>4. CountInv'
  BY <1>1, CountSame DEF DevicesInv, Using
<1>5. AloneInv'
  BY <1>1 DEF DevicesInv, AloneInv, Changing
<1>6. SetUpInv'
  BY <1>1 DEF DevicesInv, SetUpInv, Using, Live
<1>7. ListenInv'
  BY <1>1, <1>2 DEF DevicesInv, ListenInv, Listed, Live
<1> QED BY <1>3, <1>4, <1>5, <1>6, <1>7 DEF DevicesInv

LEMMA InterruptStep ==
  ASSUME DevicesInv, NEW n \in Group, Interrupt(n)
  PROVE  DevicesInv'
<1> DEFINE listening == {l \in Listeners : doing[l] \in {"waiting", "draining"}}
           group == [i \in 1 .. n |-> listening]
           longer == queues[eventQ] \o group
<1>1. /\ Live(eventQ) /\ event' = event \cup {l \in Listeners : Listed(l)}
      /\ queues' = IF n <= QueueSize - Len(queues[eventQ])
                   THEN [queues EXCEPT ![eventQ] = longer] ELSE queues
      /\ UNCHANGED <<usecnt, linked, eventQ, notes, suspended, doing, reading>>
  BY DEF Interrupt
<1>2. queues[eventQ] \in Seq(SUBSET Listeners) /\ n \in Nat
  BY <1>1 DEF DevicesInv, DevicesTypeOK, Live
<1>3. group \in Seq(SUBSET Listeners) /\ Len(group) = n
      /\ \A i \in 1 .. n : group[i] = listening
  BY <1>2
<1>4. /\ longer \in Seq(SUBSET Listeners) /\ Len(longer) = Len(queues[eventQ]) + n
      /\ \A i \in 1 .. Len(longer) :
           \/ i \in 1 .. Len(queues[eventQ]) /\ longer[i] = queues[eventQ][i]
           \/ longer[i] = listening
  <2> DEFINE before == queues[eventQ]
  <2> HIDE DEF group, listening
  <2>1. /\ longer \in Seq(SUBSET Listeners) /\ Len(longer) = Len(before) + n
        /\ \A i \in 1 .. Len(before) + n :
             longer[i] = IF i <= Len(before) THEN before[i] ELSE group[i - Len(before)]
    <3> DEFINE S == SUBSET Listeners
    <3>1. before \in Seq(S) /\ group \in Seq(S)
      BY <1>2, <1>3
    <3> HIDE DEF S, before
    <3>2. /\ before \o group \in Seq(S)
          /\ Len(before \o group) = Len(before) + Len(group)
          /\ \A i \in 1 .. Len(before) + Len(group) :
               (before \o group)[i] =
                 IF i <= Len(before) THEN before[i] ELSE group[i - Len(before)]
      BY <3>1, ConcatProperties
    <3>3. longer = before \o group
      BY DEF before
    <3> QED BY <1>3, <3>2, <3>3 DEF S
  <2>2. ASSUME NEW i \in 1 .. Len(longer), i \notin 1 .. Len(before)
        PROVE  longer[i] = listening
    <3>1. i - Len(before) \in 1 .. n /\ ~ i <= Len(before)
      BY <1>2, <2>1, <2>2
    <3> QED BY <1>3, <2>1, <3>1
  <2> QED BY <2>1, <2>2
<1> HIDE DEF longer, group
<1>5. \A l \in listening : l \in event'
  BY <1>1 DEF DevicesInv, ListenInv
<1>6. /\ queues' \in Seq({Nil} \cup Seq(SUBSET Listeners))
      /\ Len(queues') = Len(queues)
      /\ \A q \in DOMAIN queues' : Live(q)' => Len(queues'[q]) <= QueueSize
      /\ \A q : Live(q)' <=> Live(q)
      /\ \A l \in Listeners \ event : doing[l] # "draining" /\ l \notin listening =>
           \A i \in 1 .. Len(queues'[eventQ]) : l \notin queues'[eventQ][i]
  <2>1. CASE n <= QueueSize - Len(queues[eventQ])
    <3>1. Len(longer) <= QueueSize
      BY <1>2, <1>4, <2>1
    <3>2. /\ queues' \in Seq({Nil} \cup Seq(SUBSET Listeners))
          /\ Len(queues') = Len(queues)
          /\ \A q \in DOMAIN queues' : Live(q)' => Len(queues'[q]) <= QueueSize
          /\ \A q : Live(q)' <=> Live(q)
          /\ queues'[eventQ] = longer
      BY <1>1, <1>4, <2>1, <3>1, QueueChange DEF DevicesInv
    <3>3. \A l \in Listeners \ event : doing[l] # "draining" /\ l \notin listening =>
            \A i \in 1 .. Len(longer) : l \notin longer[i]
      BY <1>1, <1>4 DEF DevicesInv, ListenInv
    <3> QED BY <3>2, <3>3
  <2>2. CASE ~ n <= QueueSize - Len(queues[eventQ])
    BY <1>1, <2>2 DEF DevicesInv, DevicesTypeOK, ListenInv, Live
  <2> QED BY <2>1, <2>2
<1>7. DevicesTypeOK'
  BY <1>1, <1>6 DEF DevicesInv, DevicesTypeOK
<1>8. CountInv'
  BY <1>1 DEF DevicesInv, CountInv, UsedBy
<1>9. AloneInv'
  BY <1>1 DEF DevicesInv, AloneInv
<1>10. SetUpInv'
  <2>1. DOMAIN queues' = DOMAIN queues
    BY <1>6 DEF DevicesInv, DevicesTypeOK
  <2> QED BY <1>1, <1>6, <2>1 DEF DevicesInv, SetUpInv
<1>11. ListenInv'
  BY <1>1, <1>5, <1>6 DEF DevicesInv, ListenInv, Listed
<1> QED BY <1>7, <1>8, <1>9, <1>10, <1>11 DEF DevicesInv

LEMMA WakeStep ==
  ASSUME DevicesInv, NEW t \in Tasks, Wake(t)
  PROVE  DevicesInv'
<1>1. /\ doing' \in [Tasks -> Doings] /\ doing[t] = "waiting" /\ doing'[t] = "draining"
      /\ \A s \in Tasks : s # t => doing'[s] = doing[s]
      /\ event' = event \ {t}
      /\ UNCHANGED <<usecnt, linked, eventQ, queues, notes, suspended, reading>>
  BY GoesOnType DEF Wake, Does, DevicesInv, Doings, Using
<1>2. DevicesTypeOK'
  BY <1>1 DEF DevicesInv, DevicesTypeOK, Doings, Live
<1>3. CountInv'
  BY <1>1, CountSame DEF DevicesInv, Using
<1>4. AloneInv'
  BY <1>1 DEF DevicesInv, AloneInv, Changing
<1>5. SetUpInv'
  BY <1>1 DEF DevicesInv, SetUpInv, Using, Live
<1>6. ListenInv'
  BY <1>1 DEF DevicesInv, ListenInv, Listed, Live
<1> QED BY <1>2, <1>3, <1>4, <1>5, <1>6 DEF DevicesInv

(* one item less in the current queue                                         *)
LEMMA Shorter ==
  ASSUME DevicesInv, Live(eventQ), queues[eventQ] # <<>>, eventQ' = eventQ,
         queues' = [queues EXCEPT ![eventQ] = Tail(@)]
  PROVE  /\ queues' \in Seq({Nil} \cup Seq(SUBSET Listeners))
         /\ Len(queues') = Len(queues)
         /\ \A q \in DOMAIN queues' : Live(q)' => Len(queues'[q]) <= QueueSize
         /\ \A q : Live(q)' <=> Live(q)
         /\ \A l : (\A i \in 1 .. Len(queues[eventQ]) : l \notin queues[eventQ][i])
               => \A i \in 1 .. Len(queues'[eventQ]) : l \notin queues'[eventQ][i]
<1> DEFINE before == queues[eventQ]
<1>1. before \in Seq(SUBSET Listeners) /\ Len(before) <= QueueSize
  BY DEF DevicesInv, DevicesTypeOK, Live
<1>2. /\ Tail(before) \in Seq(SUBSET Listeners) /\ Len(Tail(before)) = Len(before) - 1
      /\ \A i \in 1 .. Len(Tail(before)) : Tail(before)[i] = before[i + 1]
      /\ Len(before) \in Nat
  BY <1>1, HeadTailProperties
<1>3. queues' = [queues EXCEPT ![eventQ] = Tail(before)] /\ Len(Tail(before)) <= QueueSize
  BY <1>1, <1>2
<1>4. /\ queues' \in Seq({Nil} \cup Seq(SUBSET Listeners))
      /\ Len(queues') = Len(queues)
      /\ \A q \in DOMAIN queues' : Live(q)' => Len(queues'[q]) <= QueueSize
      /\ \A q : Live(q)' <=> Live(q)
      /\ queues'[eventQ] = Tail(before)
  BY <1>2, <1>3, QueueChange DEF DevicesInv
<1>5. ASSUME NEW l, \A i \in 1 .. Len(before) : l \notin before[i],
             NEW i \in 1 .. Len(Tail(before))
      PROVE  l \notin Tail(before)[i]
  <2>1. i + 1 \in 1 .. Len(before)
    BY <1>2
  <2> QED BY <1>2, <1>5, <2>1
<1> QED BY <1>4, <1>5

LEMMA DrainStep ==
  ASSUME DevicesInv, NEW t \in Tasks, Drain(t)
  PROVE  DevicesInv'
<1>1. /\ doing[t] = "draining"
      /\ UNCHANGED <<usecnt, linked, eventQ, notes, suspended, reading, event>>
  BY DEF Drain, Does
<1>2. Live(eventQ)
  BY <1>1 DEF DevicesInv, SetUpInv
<1>3. CASE queues[eventQ] = <<>>
  <2>1. /\ doing' \in [Tasks -> Doings] /\ doing'[t] = "waiting"
        /\ \A s \in Tasks : s # t => doing'[s] = doing[s]
        /\ queues' = queues
    BY <1>3, GoesOnType DEF Drain, DevicesInv, Doings, Using
  <2>2. DevicesTypeOK'
    BY <1>1, <2>1 DEF DevicesInv, DevicesTypeOK, Doings, Live
  <2>3. CountInv'
    BY <1>1, <2>1, CountSame DEF DevicesInv, Using
  <2>4. AloneInv'
    BY <1>1, <2>1 DEF DevicesInv, AloneInv, Changing
  <2>5. SetUpInv'
    BY <1>1, <2>1 DEF DevicesInv, SetUpInv, Using, Live
  <2>6. ListenInv'
    <3>1. 1 .. Len(queues'[eventQ']) = {}
      BY <1>1, <1>3, <2>1
    <3> QED BY <1>1, <2>1, <3>1 DEF DevicesInv, ListenInv, Listed
  <2> QED BY <2>2, <2>3, <2>4, <2>5, <2>6 DEF DevicesInv
<1>4. CASE queues[eventQ] # <<>>
  <2>1. queues' = [queues EXCEPT ![eventQ] = Tail(@)] /\ doing' = doing
    BY <1>4 DEF Drain
  <2>2. /\ queues' \in Seq({Nil} \cup Seq(SUBSET Listeners))
        /\ Len(queues') = Len(queues)
        /\ \A q \in DOMAIN queues' : Live(q)' => Len(queues'[q]) <= QueueSize
        /\ \A q : Live(q)' <=> Live(q)
        /\ \A l : (\A i \in 1 .. Len(queues[eventQ]) : l \notin queues[eventQ][i])
              => \A i \in 1 .. Len(queues'[eventQ]) : l \notin queues'[eventQ][i]
    BY <1>1, <1>2, <1>4, <2>1, Shorter
  <2>3. DevicesTypeOK'
    BY <1>1, <2>1, <2>2 DEF DevicesInv, DevicesTypeOK
  <2>4. CountInv' /\ AloneInv'
    BY <1>1, <2>1 DEF DevicesInv, CountInv, AloneInv, UsedBy
  <2>5. SetUpInv'
    <3>1. DOMAIN queues' = DOMAIN queues
      BY <2>2 DEF DevicesInv, DevicesTypeOK
    <3> QED BY <1>1, <2>1, <2>2, <3>1 DEF DevicesInv, SetUpInv
  <2>6. ListenInv'
    BY <1>1, <1>2, <2>1, <2>2 DEF DevicesInv, ListenInv, Listed
  <2> QED BY <2>3, <2>4, <2>5, <2>6 DEF DevicesInv
<1> QED BY <1>3, <1>4

LEMMA ReadStep ==
  ASSUME DevicesInv, NEW t \in Tasks, Read(t)
  PROVE  DevicesInv'
<1>1. /\ doing' \in [Tasks -> Doings] /\ doing[t] = "open" /\ doing'[t] = "reading"
      /\ \A s \in Tasks : s # t => doing'[s] = doing[s]
      /\ t \in Users /\ reading' = [reading EXCEPT ![t] = eventQ]
      /\ UNCHANGED <<usecnt, linked, eventQ, queues, notes, suspended, event>>
  BY GoesOnType DEF Read, Does, DevicesInv, Doings, Using
<1>2. /\ reading' \in [Tasks -> 0 .. Len(queues)] /\ reading'[t] = eventQ
      /\ \A s \in Tasks : s # t => reading'[s] = reading[s]
  BY <1>1 DEF DevicesInv, DevicesTypeOK
<1>3. DevicesTypeOK'
  BY <1>1, <1>2 DEF DevicesInv, DevicesTypeOK, Doings, Live
<1>4. CountInv'
  BY <1>1, CountSame DEF DevicesInv, Using
<1>5. AloneInv'
  BY <1>1 DEF DevicesInv, AloneInv, Changing
<1>6. SetUpInv'
  BY <1>1, <1>2 DEF DevicesInv, SetUpInv, Using, Live
<1>7. ListenInv'
  BY <1>1 DEF DevicesInv, ListenInv, Listed, Live
<1> QED BY <1>3, <1>4, <1>5, <1>6, <1>7 DEF DevicesInv

LEMMA ReceiveStep ==
  ASSUME DevicesInv, NEW t \in Tasks, Receive(t)
  PROVE  DevicesInv'
<1>1. /\ doing' \in [Tasks -> Doings] /\ doing[t] = "reading" /\ doing'[t] = "open"
      /\ \A s \in Tasks : s # t => doing'[s] = doing[s]
      /\ reading' = [reading EXCEPT ![t] = 0]
      /\ UNCHANGED <<usecnt, linked, eventQ, notes, suspended, event>>
  BY GoesOnType DEF Receive, Does, DevicesInv, Doings, Using
<1>2. Live(eventQ) /\ reading[t] = eventQ
  BY <1>1 DEF DevicesInv, SetUpInv, Using
<1>3. /\ queues' \in Seq({Nil} \cup Seq(SUBSET Listeners))
      /\ Len(queues') = Len(queues)
      /\ \A q \in DOMAIN queues' : Live(q)' => Len(queues'[q]) <= QueueSize
      /\ \A q : Live(q)' <=> Live(q)
      /\ \A l : (\A i \in 1 .. Len(queues[eventQ]) : l \notin queues[eventQ][i])
            => \A i \in 1 .. Len(queues'[eventQ]) : l \notin queues'[eventQ][i]
  <2>1. queues[eventQ] # <<>> /\ queues' = [queues EXCEPT ![eventQ] = Tail(@)]
    BY <1>2 DEF Receive
  <2> QED BY <1>1, <1>2, <2>1, Shorter
<1>4. /\ reading' \in [Tasks -> 0 .. Len(queues)]
      /\ \A s \in Tasks : s # t => reading'[s] = reading[s]
  <2>1. reading \in [Tasks -> 0 .. Len(queues)] /\ 0 \in 0 .. Len(queues)
    BY DEF DevicesInv, DevicesTypeOK
  <2> QED BY <1>1, <2>1
<1>5. DevicesTypeOK'
  BY <1>1, <1>3, <1>4 DEF DevicesInv, DevicesTypeOK, Doings
<1>6. CountInv'
  BY <1>1, CountSame DEF DevicesInv, Using
<1>7. AloneInv'
  BY <1>1 DEF DevicesInv, AloneInv, Changing
<1>8. SetUpInv'
  <2>1. DOMAIN queues' = DOMAIN queues
    BY <1>3 DEF DevicesInv, DevicesTypeOK
  <2>2. linked = 1 /\ usecnt \in Int
    BY <1>1 DEF DevicesInv, SetUpInv, DevicesTypeOK, Using
  <2>3. \A s \in Tasks :
          /\ doing'[s] \in {"opening", "closing", "removed"} => usecnt' = 0
          /\ doing'[s] \in {"opening", "removed"} => linked' = 0
          /\ doing'[s] \in Using \cup {"dropped", "closing"} => linked' = 1
          /\ doing'[s] = "reading" => reading'[s] = eventQ'
    BY <1>1, <1>4, <2>2 DEF DevicesInv, SetUpInv, Using
  <2>4. Live(eventQ)' /\ \A q \in DOMAIN queues' : Live(q)' => q = eventQ'
    BY <1>1, <1>2, <1>3, <2>1 DEF DevicesInv, SetUpInv
  <2>5. doing'[t] \in Using
    BY <1>1 DEF Using
  <2> QED BY <1>1, <2>2, <2>3, <2>4, <2>5 DEF SetUpInv, Using
<1>9. ListenInv'
  <2>1. \A s \in Listeners : doing'[s] \in {"waiting", "draining"} => Listed(s)'
    BY <1>1 DEF DevicesInv, ListenInv, Listed
  <2>2. \A s \in Users : doing'[s] \notin {"waiting", "draining"}
    BY <1>1 DEF DevicesInv, ListenInv
  <2>3. ASSUME NEW l \in Listeners \ event, doing'[l] # "draining"
        PROVE  \A i \in 1 .. Len(queues'[eventQ]) : l \notin queues'[eventQ][i]
    <3>1. doing[l] # "draining"
      BY <1>1, <2>3
    <3> QED BY <1>2, <1>3, <2>3, <3>1 DEF DevicesInv, ListenInv
  <2> QED BY <1>1, <2>1, <2>2, <2>3 DEF ListenInv
<1> QED BY <1>5, <1>6, <1>7, <1>8, <1>9 DEF DevicesInv

-----------------------------------------------------------------------------
(* Theorems *)

LEMMA DevicesInvInit == DevicesInit => DevicesInv
<1> SUFFICES ASSUME DevicesInit PROVE DevicesInv
  OBVIOUS
<1>1. \A t \in Tasks : doing[t] = "idle"
  BY DEF DevicesInit
<1>2. DOMAIN queues = {} /\ Len(queues) = 0 /\ \A q : ~ Live(q)
  BY DEF DevicesInit, Live
<1>3. DevicesTypeOK
  <2>1. queues \in Seq({Nil} \cup Seq(SUBSET Listeners))
    BY EmptySeq DEF DevicesInit
  <2> QED BY <1>2, <2>1 DEF DevicesInit, DevicesTypeOK, Using, Changing
<1>4. CountInv
  <2>1. UsedBy = {}
    BY <1>1 DEF UsedBy, Using
  <2> QED BY <2>1, FS_EmptySet DEF DevicesInit, CountInv
<1>5. AloneInv /\ SetUpInv /\ ListenInv
  BY <1>1, <1>2 DEF DevicesInit, AloneInv, SetUpInv, ListenInv, Using, Changing
<1> QED BY <1>3, <1>4, <1>5 DEF DevicesInv

(* A race that has happened is not forgotten                                  *)
LEMMA RacedStays ==
  ASSUME DevicesNext, ~ raced'
  PROVE  ~ raced
  BY DEF DevicesNext, OpenAgain, CreateQueue, AddServer, Drop, CloseLast, RemServer,
         DeleteQueue, MonitorAdd, MonitorDelete, Wake, Drain, Read, Receive, Interrupt

LEMMA DevicesStep ==
  ASSUME DevicesInv, DevicesNext, ~ raced'
  PROVE  DevicesInv'
<1>1. ASSUME NEW t \in Tasks, OpenAgain(t) \/ CreateQueue(t) \/ AddServer(t)
      PROVE  DevicesInv'
  BY <1>1, OpenAgainStep, CreateQueueStep, AddServerStep
<1>2. ASSUME NEW t \in Tasks, Drop(t) \/ CloseLast(t) \/ RemServer(t) \/ DeleteQueue(t)
      PROVE  DevicesInv'
  BY <1>2, DropStep, CloseLastStep, RemServerStep, DeleteQueueStep
<1>3. ASSUME NEW t \in Tasks, MonitorAdd(t) \/ MonitorDelete(t) \/ Wake(t) \/ Drain(t)
      PROVE  DevicesInv'
  BY <1>3, MonitorAddStep, MonitorDeleteStep, WakeStep, DrainStep
<1>4. ASSUME NEW t \in Tasks, Read(t) \/ Receive(t)
      PROVE  DevicesInv'
  BY <1>4, ReadStep, ReceiveStep
<1>5. ASSUME NEW n \in Group, Interrupt(n)
      PROVE  DevicesInv'
  BY <1>5, InterruptStep
<1> QED BY <1>1, <1>2, <1>3, <1>4, <1>5 DEF DevicesNext

(* What holds until an open or a close comes in the way of the last close     *)
UnracedInv == ~ raced => DevicesInv

LEMMA UnracedInvHolds == DevicesSpec => []UnracedInv
<1>1. DevicesInit => UnracedInv
  BY DevicesInvInit DEF UnracedInv
<1>2. UnracedInv /\ [DevicesNext]_deviceVars => UnracedInv'
  <2> SUFFICES ASSUME UnracedInv, [DevicesNext]_deviceVars, ~ raced' PROVE DevicesInv'
    BY DEF UnracedInv
  <2>1. CASE DevicesNext
    BY <2>1, RacedStays, DevicesStep DEF UnracedInv
  <2>2. CASE UNCHANGED deviceVars
    <3>1. DevicesInv /\ UNCHANGED deviceVars
      BY <2>2 DEF deviceVars, UnracedInv
    <3> QED BY <3>1 DEF deviceVars, DevicesInv, DevicesTypeOK, CountInv, AloneInv, SetUpInv,
                        ListenInv, UsedBy, Live, Listed
  <2> QED BY <2>1, <2>2
<1> QED BY <1>1, <1>2, PTL DEF DevicesSpec

(* While a file refers to the device its server is linked, once, and its      *)
(* queue exists; when nobody has it open, nothing of it is left: until an     *)
(* open finds the device unused, or a close leaves it unused, while another   *)
(* close is on its way, and however the other opens and closes overlap        *)
THEOREM SetUpWhileUsedHolds == DevicesSpec => []SetUpWhileUsed
<1>1. DevicesInv => SetUp
  <2> SUFFICES ASSUME DevicesInv PROVE SetUp
    OBVIOUS
  <2>1. DevicesTypeOK
    BY DEF DevicesInv
  <2>2. HandlerHasQueue
    BY DEF DevicesInv, SetUpInv, HandlerHasQueue, Using
  <2>3. \A t \in Tasks : doing[t] \in Using => linked = 1 /\ Live(eventQ)
    BY DEF DevicesInv, SetUpInv, Using
  <2>4. \A t \in Tasks : doing[t] = "reading" => Live(reading[t])
    BY DEF DevicesInv, SetUpInv
  <2>5. (\A t \in Tasks : doing[t] = "idle")
          => linked = 0 /\ \A q \in DOMAIN queues : ~ Live(q)
    BY DEF DevicesInv, SetUpInv, Using
  <2> QED BY <2>1, <2>2, <2>3, <2>4, <2>5 DEF SetUp
<1>2. UnracedInv => SetUpWhileUsed
  BY <1>1 DEF UnracedInv, SetUpWhileUsed
<1> QED BY <1>2, UnracedInvHolds, PTL

(* Until then, a listener that sleeps has been told of every event that it    *)
(* has not read                                                               *)
THEOREM NothingOverlookedHolds == DevicesSpec => []NothingOverlooked
<1>1. UnracedInv => NothingOverlooked
  <2> SUFFICES ASSUME DevicesInv, NEW t \in Listeners, doing[t] = "waiting",
                      t \notin event, Live(eventQ), NEW i \in DOMAIN queues[eventQ]
               PROVE  t \notin queues[eventQ][i]
    BY DEF NothingOverlooked, UnracedInv
  <2>1. queues[eventQ] \in Seq(SUBSET Listeners)
    BY DEF DevicesInv, DevicesTypeOK, Live
  <2>2. i \in 1 .. Len(queues[eventQ])
    BY <2>1
  <2> QED BY <2>2 DEF DevicesInv, ListenInv
<1> QED BY <1>1, UnracedInvHolds, PTL
==============================================================================
