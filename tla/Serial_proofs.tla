---------------------------- MODULE Serial_proofs ----------------------------
(* Nobody sleeps in the serial driver without an interrupt on its way that    *)
(* ends it, blocking writes are complete, and the ring buffers stay           *)
(* well-formed, for any sizes, tasks and requests.                            *)
EXTENDS Serial, SequenceTheorems, TLAPS

USE SerialAssumption

------------------------------------------------------------------------------
(* Ring buffers: head and tail are as far apart as there are bytes            *)

WellFormed(buf) ==
  /\ buf \in R!Buffer
  /\ buf.head = buf.tail + buf.count \/ buf.head + BufLen = buf.tail + buf.count

LEMMA BufferFields ==
  ASSUME NEW buf \in R!Buffer
  PROVE  /\ buf.head \in 0 .. BufLen - 1 /\ buf.tail \in 0 .. BufLen - 1
         /\ buf.count \in 0 .. BufLen
         /\ buf.data \in [0 .. BufLen - 1 -> Byte]
         /\ buf = [head |-> buf.head, tail |-> buf.tail, count |-> buf.count,
                   data |-> buf.data]
  BY DEF R!Buffer

LEMMA ConsumeWell ==
  ASSUME NEW buf, WellFormed(buf), NEW n \in Nat, n <= R!UsedChunk(buf)
  PROVE  /\ WellFormed(R!RingConsume(buf, n))
         /\ R!RingConsume(buf, n).count = buf.count - n
<1> DEFINE h == buf.head
           t == buf.tail
           k == buf.count
           tt == IF t + n = BufLen THEN 0 ELSE t + n
<1>1. /\ h \in 0 .. BufLen - 1 /\ t \in 0 .. BufLen - 1 /\ k \in 0 .. BufLen
      /\ buf.data \in [0 .. BufLen - 1 -> Byte] /\ (h = t + k \/ h + BufLen = t + k)
  BY BufferFields DEF WellFormed
<1>2. n <= IF k = 0 THEN 0 ELSE IF t < h THEN h - t ELSE BufLen - t
  BY DEF R!UsedChunk, R!RingEmpty
<1>3. R!RingConsume(buf, n) = [head |-> h, tail |-> tt, count |-> k - n, data |-> buf.data]
  <2> DEFINE one == [buf EXCEPT !.count = k - n]
  <2>1. one = [head |-> h, tail |-> t, count |-> k - n, data |-> buf.data]
    BY BufferFields DEF WellFormed
  <2>2. R!RingConsume(buf, n) = [one EXCEPT !.tail = tt]
    BY DEF R!RingConsume, R!Wrap
  <2> HIDE DEF one, tt, h, t, k
  <2> QED BY <2>1, <2>2
<1> HIDE DEF h, t, k, tt
<1>4. /\ k - n \in 0 .. BufLen /\ tt \in 0 .. BufLen - 1
      /\ (h = tt + (k - n) \/ h + BufLen = tt + (k - n))
  BY <1>1, <1>2 DEF tt
<1> QED BY <1>1, <1>3, <1>4 DEF WellFormed, R!Buffer, k

LEMMA ProduceWell ==
  ASSUME NEW buf, WellFormed(buf), NEW n \in Nat, n <= R!FreeChunk(buf)
  PROVE  /\ WellFormed(R!RingProduce(buf, n))
         /\ R!RingProduce(buf, n).count = buf.count + n
<1> DEFINE h == buf.head
           t == buf.tail
           k == buf.count
           hh == IF h + n = BufLen THEN 0 ELSE h + n
<1>1. /\ h \in 0 .. BufLen - 1 /\ t \in 0 .. BufLen - 1 /\ k \in 0 .. BufLen
      /\ buf.data \in [0 .. BufLen - 1 -> Byte] /\ (h = t + k \/ h + BufLen = t + k)
  BY BufferFields DEF WellFormed
<1>2. n <= IF k = BufLen THEN 0 ELSE IF h < t THEN t - h ELSE BufLen - h
  BY DEF R!FreeChunk, R!RingFull
<1>3. R!RingProduce(buf, n) = [head |-> hh, tail |-> t, count |-> k + n, data |-> buf.data]
  <2> DEFINE one == [buf EXCEPT !.count = k + n]
  <2>1. one = [head |-> h, tail |-> t, count |-> k + n, data |-> buf.data]
    BY BufferFields DEF WellFormed
  <2>2. R!RingProduce(buf, n) = [one EXCEPT !.head = hh]
    BY DEF R!RingProduce, R!Wrap
  <2> HIDE DEF one, hh, h, t, k
  <2> QED BY <2>1, <2>2
<1> HIDE DEF h, t, k, hh
<1>4. /\ k + n \in 0 .. BufLen /\ hh \in 0 .. BufLen - 1
      /\ (hh = t + (k + n) \/ hh + BufLen = t + (k + n))
  BY <1>1, <1>2 DEF hh
<1> QED BY <1>1, <1>3, <1>4 DEF WellFormed, R!Buffer, k

LEMMA ChunkBounds ==
  ASSUME NEW buf, WellFormed(buf)
  PROVE  /\ R!UsedChunk(buf) \in Nat /\ R!FreeChunk(buf) \in Nat
         /\ R!RingEmpty(buf) <=> R!UsedChunk(buf) = 0
         /\ R!RingFull(buf) <=> R!FreeChunk(buf) = 0
         /\ buf.tail + R!UsedChunk(buf) <= BufLen
         /\ buf.head + R!FreeChunk(buf) <= BufLen
<1>1. /\ buf.head \in 0 .. BufLen - 1 /\ buf.tail \in 0 .. BufLen - 1
      /\ buf.count \in 0 .. BufLen
      /\ (buf.head = buf.tail + buf.count \/ buf.head + BufLen = buf.tail + buf.count)
  BY BufferFields DEF WellFormed
<1> QED BY <1>1 DEF R!UsedChunk, R!FreeChunk, R!RingEmpty, R!RingFull

(* storing bytes in the space behind the head changes no count                *)
LEMMA StoreWell ==
  ASSUME NEW buf, WellFormed(buf), NEW data \in [0 .. BufLen - 1 -> Byte]
  PROVE  /\ WellFormed([buf EXCEPT !.data = data])
         /\ R!FreeChunk([buf EXCEPT !.data = data]) = R!FreeChunk(buf)
         /\ [buf EXCEPT !.data = data].count = buf.count
<1> DEFINE new == [buf EXCEPT !.data = data]
<1>1. /\ new.head = buf.head /\ new.tail = buf.tail /\ new.count = buf.count
      /\ new \in R!Buffer
  BY DEF WellFormed, R!Buffer
<1> QED BY <1>1 DEF WellFormed, R!FreeChunk, R!RingFull

LEMMA LeastOf ==
  ASSUME NEW m \in Nat, NEW n \in Nat
  PROVE  /\ R!AtMost(m, n) \in Nat /\ R!AtMost(m, n) <= m /\ R!AtMost(m, n) <= n
         /\ R!AtMost(m, n) = m \/ R!AtMost(m, n) = n
  BY DEF R!AtMost

LEMMA PutByteWell ==
  ASSUME NEW buf, WellFormed(buf), ~ R!RingFull(buf), NEW byte \in Byte
  PROVE  WellFormed(R!RingPutByte(buf, byte)) /\ R!RingPutByte(buf, byte).count = buf.count + 1
<1> DEFINE data == [buf.data EXCEPT ![buf.head] = byte]
           new == [buf EXCEPT !.data = data]
<1>1. data \in [0 .. BufLen - 1 -> Byte]
  BY BufferFields DEF WellFormed
<1>2. R!FreeChunk(buf) \in Nat /\ R!FreeChunk(buf) # 0
  BY ChunkBounds
<1> HIDE DEF data
<1>3. WellFormed(new) /\ 1 <= R!FreeChunk(new) /\ new.count = buf.count
  BY <1>1, <1>2, StoreWell
<1>4. R!RingPutByte(buf, byte) = R!RingProduce(new, 1)
  BY DEF R!RingPutByte, data
<1> HIDE DEF new
<1> QED BY <1>3, <1>4, ProduceWell

LEMMA GetByteType ==
  ASSUME NEW buf, WellFormed(buf)
  PROVE  R!RingGetByte(buf) \in Byte
  BY BufferFields DEF WellFormed, R!RingGetByte

LEMMA ReadChunkWell ==
  ASSUME NEW buf, WellFormed(buf), NEW n \in Nat
  PROVE  /\ WellFormed(R!ReadChunk(buf, n).buf)
         /\ R!ReadChunk(buf, n).bytes \in Seq(Byte)
         /\ Len(R!ReadChunk(buf, n).bytes) \in 0 .. n
<1> DEFINE k == R!AtMost(R!UsedChunk(buf), n)
           bytes == [i \in 1 .. k |-> buf.data[buf.tail + i - 1]]
<1>1. k \in Nat /\ k <= R!UsedChunk(buf) /\ k <= n
  BY ChunkBounds, LeastOf
<1>2. WellFormed(R!RingConsume(buf, k))
  <2> HIDE DEF k
  <2> QED BY <1>1, ConsumeWell
<1>3. /\ R!ReadChunk(buf, n).buf = R!RingConsume(buf, k)
      /\ R!ReadChunk(buf, n).bytes = bytes
  BY DEF R!ReadChunk
<1> HIDE DEF k
<1>4. \A i \in 1 .. k : buf.data[buf.tail + i - 1] \in Byte
  <2>1. /\ buf.tail \in 0 .. BufLen - 1 /\ buf.data \in [0 .. BufLen - 1 -> Byte]
        /\ buf.tail + k <= BufLen
    BY <1>1, BufferFields, ChunkBounds DEF WellFormed
  <2>2. \A i \in 1 .. k : buf.tail + i - 1 \in 0 .. BufLen - 1
    BY <1>1, <2>1
  <2> QED BY <2>1, <2>2
<1>5. bytes \in Seq(Byte) /\ Len(bytes) = k
  BY <1>1, <1>4
<1> HIDE DEF bytes
<1> QED BY <1>1, <1>2, <1>3, <1>5

LEMMA ReadWell ==
  ASSUME NEW buf, WellFormed(buf), NEW n \in Nat
  PROVE  WellFormed(R!RingRead(buf, n).buf) /\ R!RingRead(buf, n).bytes \in Seq(Byte)
<1> DEFINE one == R!ReadChunk(buf, n)
           rest == n - Len(one.bytes)
           two == R!ReadChunk(one.buf, rest)
<1>1. WellFormed(one.buf) /\ one.bytes \in Seq(Byte) /\ Len(one.bytes) \in 0 .. n
  BY ReadChunkWell
<1>2. /\ R!RingRead(buf, n).buf = two.buf
      /\ R!RingRead(buf, n).bytes = one.bytes \o two.bytes
  BY DEF R!RingRead
<1> HIDE DEF one
<1>3. rest \in Nat
  BY <1>1
<1> HIDE DEF rest
<1>4. WellFormed(two.buf) /\ two.bytes \in Seq(Byte)
  BY <1>1, <1>3, ReadChunkWell
<1> HIDE DEF two
<1>5. one.bytes \o two.bytes \in Seq(Byte)
  BY <1>1, <1>4, ConcatProperties
<1> QED BY <1>2, <1>4, <1>5

(* a buffer that did not take all bytes is not empty                          *)
LEMMA WriteChunkWell ==
  ASSUME NEW buf, WellFormed(buf), NEW bytes \in Seq(Byte)
  PROVE  /\ WellFormed(R!WriteChunk(buf, bytes).buf)
         /\ R!WriteChunk(buf, bytes).left \in Seq(Byte)
         /\ Len(R!WriteChunk(buf, bytes).left) <= Len(bytes)
         /\ Len(bytes) # 0 \/ buf.count # 0 => R!WriteChunk(buf, bytes).buf.count # 0
<1> DEFINE k == R!AtMost(R!FreeChunk(buf), Len(bytes))
           data == [i \in 0 .. BufLen - 1 |->
                      IF i \in buf.head .. buf.head + k - 1
                        THEN bytes[i - buf.head + 1] ELSE buf.data[i]]
           new == [buf EXCEPT !.data = data]
<1>1. /\ k \in Nat /\ k <= R!FreeChunk(buf) /\ k <= Len(bytes) /\ Len(bytes) \in Nat
      /\ k = R!FreeChunk(buf) \/ k = Len(bytes)
  BY ChunkBounds, LeastOf
<1>2. /\ R!WriteChunk(buf, bytes).buf = R!RingProduce(new, k)
      /\ R!WriteChunk(buf, bytes).left = SubSeq(bytes, k + 1, Len(bytes))
  BY DEF R!WriteChunk
<1> HIDE DEF k
<1>3. data \in [0 .. BufLen - 1 -> Byte]
  <2>1. buf.head \in 0 .. BufLen - 1 /\ buf.data \in [0 .. BufLen - 1 -> Byte]
    BY BufferFields DEF WellFormed
  <2>2. \A i \in 0 .. BufLen - 1 : i \in buf.head .. buf.head + k - 1 =>
          i - buf.head + 1 \in 1 .. Len(bytes)
    BY <1>1, <2>1
  <2> QED BY <2>1, <2>2
<1> HIDE DEF data
<1>4. WellFormed(new) /\ k <= R!FreeChunk(new) /\ new.count = buf.count
  BY <1>1, <1>3, StoreWell
<1> HIDE DEF new
<1>5. WellFormed(R!RingProduce(new, k)) /\ R!RingProduce(new, k).count = buf.count + k
  BY <1>1, <1>4, ProduceWell
<1>6. /\ SubSeq(bytes, k + 1, Len(bytes)) \in Seq(Byte)
      /\ Len(SubSeq(bytes, k + 1, Len(bytes))) <= Len(bytes)
  <2>1. \A i \in k + 1 .. Len(bytes) : bytes[i] \in Byte
    BY <1>1
  <2> QED BY <1>1, <2>1, SubSeqProperties
<1>7. ASSUME Len(bytes) # 0 \/ buf.count # 0 PROVE buf.count + k # 0
  <2>1. buf.count \in Nat
    BY BufferFields DEF WellFormed
  <2>2. R!RingFull(buf) => buf.count # 0
    BY DEF R!RingFull
  <2>3. buf.count = 0 => R!FreeChunk(buf) # 0
    BY <2>2, ChunkBounds
  <2> QED BY <1>1, <1>7, <2>1, <2>3
<1> QED BY <1>2, <1>5, <1>6, <1>7

LEMMA WriteWell ==
  ASSUME NEW buf, WellFormed(buf), NEW bytes \in Seq(Byte)
  PROVE  /\ WellFormed(R!RingWrite(buf, bytes).buf)
         /\ Len(R!RingWrite(buf, bytes).left) \in Nat
         /\ Len(R!RingWrite(buf, bytes).left) # 0 =>
              ~ R!RingEmpty(R!RingWrite(buf, bytes).buf)
<1> DEFINE one == R!WriteChunk(buf, bytes)
           two == R!WriteChunk(one.buf, one.left)
<1>1. WellFormed(one.buf) /\ one.left \in Seq(Byte)
  BY WriteChunkWell
<1>2. R!RingWrite(buf, bytes) = two
  BY DEF R!RingWrite
<1> HIDE DEF one
<1>3. /\ WellFormed(two.buf) /\ two.left \in Seq(Byte) /\ Len(two.left) <= Len(one.left)
      /\ Len(one.left) # 0 => two.buf.count # 0
  BY <1>1, WriteChunkWell
<1> HIDE DEF two
<1>4. Len(two.left) \in Nat /\ Len(one.left) \in Nat
  BY <1>1, <1>3
<1> QED BY <1>2, <1>3, <1>4 DEF R!RingEmpty

------------------------------------------------------------------------------
(* The invariant *)

(* the buffers, the hardware and the requests                                 *)
DriverTypes ==
  /\ WellFormed(rxBuf) /\ WellFormed(txBuf)
  /\ {rxData, txData, txShift, wire} \subseteq Byte \cup {None}
  /\ txData # None => txShift # None
  /\ intreq \subseteq Interrupts
  /\ isr \in [Interrupts -> {"off", "entered", "sent"}]
  /\ lost \in BOOLEAN

TaskTypes ==
  /\ critical \in Tasks \cup {None}
  /\ pc \in [Tasks -> {"idle", "loop", "waiting", "ready"}]
  /\ tcb \in [Tasks -> TN!TCB]
  /\ left \in [Tasks -> Nat] /\ nonblock \in [Tasks -> BOOLEAN]
  /\ rxTask \in Readers \cup {None} /\ txTask \in Writers \cup {None}
  /\ got \in Seq(Byte)

(* A task is in its critical section while it loops, and no handler is        *)
(* active then; the task inside SerialRead or SerialWrite is the one noted    *)
ControlInv ==
  /\ \A t \in Tasks : pc[t] = "loop" <=> critical = t
  /\ critical # None => \A i \in Interrupts : isr[i] = "off"
  /\ \A t \in Readers : pc[t] # "idle" <=> rxTask = t
  /\ \A t \in Writers : pc[t] # "idle" <=> txTask = t

(* A received byte has its interrupt, and the send handler that has fed       *)
(* SERDAT leaves an empty buffer or another interrupt behind                  *)
PendingInv ==
  /\ rxData # None => "RBF" \in intreq \/ isr["RBF"] # "off"
  /\ isr["TBE"] = "sent" =>
       R!RingEmpty(txBuf) \/ txData # None \/ "TBE" \in intreq \/ lost

(* A writer that nothing else notifies is woken up by serial interrupts       *)
WriterInv ==
  \A t \in Writers \ Noisy :
    /\ pc[t] = "ready" => "NB_IRQ" \in tcb[t].value
    /\ pc[t] = "idle" => left[t] = 0

IInv ==
  /\ DriverTypes /\ TaskTypes /\ ControlInv /\ PendingInv /\ WriterInv
  /\ StrandedOnlyByLoss /\ ReaderAwake

LEMMA Names ==
  /\ "TBE" \in Interrupts /\ "RBF" \in Interrupts
  /\ IntLevel["TBE"] = 1 /\ IntLevel["RBF"] = 5 /\ IntLevel["VERTB"] = 3
  /\ \A t \in Tasks : t # None
  /\ Readers \cap Writers = {} /\ Readers \subseteq Tasks /\ Writers \subseteq Tasks
  /\ \A b \in Byte : b # None
  BY DEF Interrupts, IntLevel, Tasks

------------------------------------------------------------------------------
(* Moving bytes *)

LEMMA ReceiveFacts ==
  ASSUME WellFormed(rxBuf), rxData \in Byte \cup {None}, Receive(rxBuf)
  PROVE  /\ WellFormed(rxBuf') /\ rxData' = None
         /\ rxData = None => rxBuf' = rxBuf
<1>1. CASE rxData # None /\ ~ R!RingFull(rxBuf)
  BY <1>1, PutByteWell DEF Receive
<1>2. CASE ~ (rxData # None /\ ~ R!RingFull(rxBuf))
  BY <1>2 DEF Receive
<1> QED BY <1>1, <1>2

(* after Feed nothing is left to send, or an interrupt will say so            *)
LEMMA FeedFacts ==
  ASSUME NEW tx, WellFormed(tx), DriverTypes, Feed(tx)
  PROVE  /\ WellFormed(txBuf')
         /\ txData' \in Byte \cup {None} /\ txShift' \in Byte \cup {None}
         /\ txData' # None => txShift' # None
         /\ txData # None => txData' # None
         /\ intreq \subseteq intreq' /\ intreq' \subseteq Interrupts
         /\ "RBF" \in intreq' => "RBF" \in intreq
         /\ ~ R!RingEmpty(tx) => txData' # None \/ "TBE" \in intreq'
         /\ R!RingEmpty(tx) => R!RingEmpty(txBuf')
<1> DEFINE one == R!RingConsume(tx, 1)
           two == R!RingConsume(one, 1)
<1>1. /\ txData \in Byte \cup {None} /\ txShift \in Byte \cup {None}
      /\ txData # None => txShift # None
      /\ intreq \subseteq Interrupts
  BY DEF DriverTypes
<1>2. ~ R!RingEmpty(tx) => WellFormed(one)
  <2>1. ~ R!RingEmpty(tx) => 1 <= R!UsedChunk(tx)
    BY ChunkBounds
  <2> QED BY <2>1, ConsumeWell
<1>3. R!RingGetByte(tx) \in Byte
  BY GetByteType
<1> HIDE DEF one
<1>4. WellFormed(one) => R!RingGetByte(one) \in Byte
  BY GetByteType
<1>5. WellFormed(one) /\ ~ R!RingEmpty(one) => WellFormed(two)
  <2>1. WellFormed(one) /\ ~ R!RingEmpty(one) => 1 <= R!UsedChunk(one)
    BY ChunkBounds
  <2> QED BY <2>1, ConsumeWell
<1> HIDE DEF two
<1>6. CASE txData # None \/ R!RingEmpty(tx)
  <2>1. txBuf' = tx /\ UNCHANGED <<txData, txShift, intreq>>
    BY <1>6 DEF Feed
  <2> QED BY <1>1, <1>6, <2>1
<1>7. CASE txData = None /\ ~ R!RingEmpty(tx) /\ txShift # None
  <2>1. txBuf' = one /\ txData' = R!RingGetByte(tx) /\ UNCHANGED <<txShift, intreq>>
    BY <1>7 DEF Feed, one
  <2> QED BY <1>1, <1>2, <1>3, <1>7, <2>1, Names
<1>8. CASE txData = None /\ ~ R!RingEmpty(tx) /\ txShift = None
  <2>1. /\ txShift' = R!RingGetByte(tx) /\ intreq' = intreq \cup {"TBE"}
        /\ IF R!RingEmpty(one) THEN txBuf' = one /\ UNCHANGED txData
           ELSE txBuf' = two /\ txData' = R!RingGetByte(one)
    BY <1>8 DEF Feed, one, two
  <2>2. WellFormed(txBuf') /\ txData' \in Byte \cup {None}
    BY <1>1, <1>2, <1>4, <1>5, <1>8, <2>1
  <2> QED BY <1>1, <1>3, <1>8, <2>1, <2>2, Names
<1> QED BY <1>6, <1>7, <1>8

(* what a handler that moves bytes does to the types and to who is stranded   *)
LEMMA MovesFacts ==
  ASSUME NEW tx, WellFormed(tx), DriverTypes, Receive(rxBuf), Feed(tx), wire' = wire
  PROVE  /\ WellFormed(rxBuf') /\ WellFormed(txBuf')
         /\ {rxData', txData', txShift', wire'} \subseteq Byte \cup {None}
         /\ txData' # None => txShift' # None
         /\ intreq' \subseteq Interrupts /\ intreq \subseteq intreq'
         /\ rxData' = None /\ (rxData = None => rxBuf' = rxBuf)
         /\ txData # None => txData' # None
         /\ ~ R!RingEmpty(tx) => txData' # None \/ "TBE" \in intreq'
         /\ R!RingEmpty(tx) => R!RingEmpty(txBuf')
<1>1. WellFormed(rxBuf) /\ rxData \in Byte \cup {None} /\ wire \in Byte \cup {None}
  BY DEF DriverTypes
<1> QED BY <1>1, ReceiveFacts, FeedFacts

(* notifying a task that serves a wait                                        *)
LEMMA NotifyFacts ==
  ASSUME TaskTypes, NEW t \in Tasks, NEW bits \in SUBSET NB, NotifySendFromISR(t, bits)
  PROVE  /\ pc' \in [Tasks -> {"idle", "loop", "waiting", "ready"}]
         /\ tcb' \in [Tasks -> TN!TCB]
         /\ pc'[t] # "waiting" /\ tcb'[t].value = tcb[t].value \cup bits
         /\ pc[t] # "waiting" => pc'[t] = pc[t]
         /\ pc[t] = "waiting" => pc'[t] = "ready"
         /\ \A s \in Tasks : s # t => pc'[s] = pc[s] /\ tcb'[s] = tcb[s]
<1>1. TN!Notified(tcb[t], bits) \in TN!TCB
      /\ TN!Notified(tcb[t], bits).value = tcb[t].value \cup bits
  <2>1. tcb[t].value \in SUBSET NB
    BY DEF TaskTypes, TN!TCB
  <2> QED BY <2>1 DEF TN!Notified, TN!TCB
<1>2. tcb' = [tcb EXCEPT ![t] = TN!Notified(tcb[t], bits)]
  BY DEF NotifySendFromISR
<1>3. pc' = IF pc[t] = "waiting" THEN [pc EXCEPT ![t] = "ready"] ELSE pc
  BY DEF NotifySendFromISR
<1>4. /\ pc \in [Tasks -> {"idle", "loop", "waiting", "ready"}]
      /\ tcb \in [Tasks -> TN!TCB]
  BY DEF TaskTypes
<1>5. /\ tcb' \in [Tasks -> TN!TCB] /\ tcb'[t].value = tcb[t].value \cup bits
      /\ \A s \in Tasks : s # t => tcb'[s] = tcb[s]
  BY <1>1, <1>2, <1>4
<1> QED BY <1>3, <1>4, <1>5

------------------------------------------------------------------------------
(* Hardware and handlers *)

LEMMA ArriveStep ==
  ASSUME IInv, Arrive
  PROVE  IInv'
<1>1. /\ rxData' = NextByte(rxBuf) /\ intreq' = intreq \cup {"RBF"}
      /\ UNCHANGED <<rxBuf, txBuf, txData, txShift, wire, isr, critical, pc, tcb, left,
                     nonblock, rxTask, txTask, got, lost>>
  BY DEF Arrive, buffers, request, users
<1>2. NextByte(rxBuf) \in Byte
  <2> DEFINE k == IF rxBuf.head = 0 THEN BufLen - 1 ELSE rxBuf.head - 1
  <2>1. rxBuf.data \in [0 .. BufLen - 1 -> Byte] /\ rxBuf.head \in 0 .. BufLen - 1
    BY BufferFields DEF IInv, DriverTypes, WellFormed
  <2>2. k \in 0 .. BufLen - 1
    BY <2>1
  <2>3. rxBuf.data[k] \in Nat
    BY <2>1, <2>2 DEF Byte
  <2> HIDE DEF k
  <2>4. (rxBuf.data[k] + 1) % Bytes \in 0 .. Bytes - 1
    BY <2>3
  <2> QED BY <2>4 DEF NextByte, k, Byte
<1>3. DriverTypes'
  BY <1>1, <1>2, Names DEF IInv, DriverTypes
<1>4. TaskTypes' /\ ControlInv' /\ WriterInv'
  BY <1>1 DEF IInv, TaskTypes, ControlInv, WriterInv
<1>5. PendingInv' /\ StrandedOnlyByLoss' /\ ReaderAwake'
  BY <1>1 DEF IInv, PendingInv, StrandedOnlyByLoss, ReaderAwake
<1> QED BY <1>3, <1>4, <1>5 DEF IInv

LEMMA ShiftOutStep ==
  ASSUME IInv, ShiftOut
  PROVE  IInv'
<1>1. /\ txShift # None /\ wire' = txShift /\ txShift' = txData /\ txData' = None
      /\ intreq' = IF txData = None THEN intreq ELSE intreq \cup {"TBE"}
      /\ UNCHANGED <<rxBuf, txBuf, rxData, isr, critical, pc, tcb, left, nonblock,
                     rxTask, txTask, got, lost>>
  BY DEF ShiftOut, buffers, request, users
<1>2. DriverTypes'
  BY <1>1, Names DEF IInv, DriverTypes
<1>3. TaskTypes' /\ ControlInv' /\ WriterInv'
  BY <1>1 DEF IInv, TaskTypes, ControlInv, WriterInv
<1>4. PendingInv' /\ StrandedOnlyByLoss' /\ ReaderAwake'
  BY <1>1 DEF IInv, PendingInv, StrandedOnlyByLoss, ReaderAwake
<1> QED BY <1>2, <1>3, <1>4 DEF IInv

LEMMA LoseTBEStep ==
  ASSUME IInv, LoseTBE
  PROVE  IInv'
<1>1. /\ intreq' = intreq \ {"TBE"} /\ lost' = TRUE
      /\ UNCHANGED <<rxBuf, txBuf, rxData, txData, txShift, wire, isr, critical, pc, tcb,
                     left, nonblock, rxTask, txTask, got>>
  BY DEF LoseTBE, buffers, hardware, request, users
<1>2. DriverTypes'
  BY <1>1 DEF IInv, DriverTypes
<1>3. TaskTypes' /\ ControlInv' /\ WriterInv'
  BY <1>1 DEF IInv, TaskTypes, ControlInv, WriterInv
<1>4. PendingInv' /\ StrandedOnlyByLoss' /\ ReaderAwake'
  BY <1>1 DEF IInv, PendingInv, StrandedOnlyByLoss, ReaderAwake
<1> QED BY <1>2, <1>3, <1>4 DEF IInv

LEMMA EnterIntrStep ==
  ASSUME IInv, NEW i \in Interrupts, EnterIntr(i)
  PROVE  IInv'
<1>1. /\ intreq' = intreq \ {i} /\ isr' = [isr EXCEPT ![i] = "entered"]
      /\ lost' = IF i = "TBE" THEN FALSE ELSE lost
      /\ critical = None /\ Unmasked(i)
      /\ UNCHANGED <<rxBuf, txBuf, rxData, txData, txShift, wire, critical, pc, tcb,
                     left, nonblock, rxTask, txTask, got>>
  BY DEF EnterIntr, Unmasked, buffers, hardware, request, users
<1>2. /\ isr' \in [Interrupts -> {"off", "entered", "sent"}] /\ isr'[i] = "entered"
      /\ \A j \in Interrupts : j # i => isr'[j] = isr[j]
  BY <1>1 DEF IInv, DriverTypes
<1>3. DriverTypes'
  BY <1>1, <1>2 DEF IInv, DriverTypes
<1>4. TaskTypes' /\ ControlInv' /\ WriterInv'
  BY <1>1 DEF IInv, TaskTypes, ControlInv, WriterInv
<1>5. i = "TBE" \/ i = "RBF"
  BY DEF Interrupts
<1>6. PendingInv' /\ StrandedOnlyByLoss' /\ ReaderAwake'
  BY <1>1, <1>2, <1>5, Names DEF IInv, PendingInv, StrandedOnlyByLoss, ReaderAwake
<1> QED BY <1>3, <1>4, <1>6 DEF IInv

LEMMA SendTransmitStep ==
  ASSUME IInv, SendTransmit
  PROVE  IInv'
<1>1. /\ isr["TBE"] = "entered" /\ isr' = [isr EXCEPT !["TBE"] = "sent"]
      /\ Receive(rxBuf) /\ Feed(txBuf) /\ wire' = wire
      /\ UNCHANGED <<critical, pc, tcb, left, nonblock, rxTask, txTask, got, lost>>
  BY DEF SendTransmit, SerialTransmit, request, users
<1>2. WellFormed(txBuf) /\ DriverTypes
  BY DEF IInv, DriverTypes
<1>3. /\ WellFormed(rxBuf') /\ WellFormed(txBuf')
      /\ {rxData', txData', txShift', wire'} \subseteq Byte \cup {None}
      /\ txData' # None => txShift' # None
      /\ intreq' \subseteq Interrupts /\ intreq \subseteq intreq'
      /\ rxData' = None /\ (rxData = None => rxBuf' = rxBuf)
      /\ txData # None => txData' # None
      /\ ~ R!RingEmpty(txBuf) => txData' # None \/ "TBE" \in intreq'
      /\ R!RingEmpty(txBuf) => R!RingEmpty(txBuf')
  BY <1>1, <1>2, MovesFacts
<1>4. /\ isr' \in [Interrupts -> {"off", "entered", "sent"}] /\ isr'["TBE"] = "sent"
      /\ isr'["RBF"] = isr["RBF"]
  BY <1>1, <1>2, Names DEF DriverTypes
<1>5. DriverTypes'
  BY <1>1, <1>3, <1>4 DEF IInv, DriverTypes
<1>6. critical = None
  BY <1>1, Names DEF IInv, ControlInv
<1>7. TaskTypes' /\ ControlInv' /\ WriterInv'
  BY <1>1, <1>6 DEF IInv, TaskTypes, ControlInv, WriterInv
<1>8. PendingInv'
  BY <1>3 DEF PendingInv
<1>9. StrandedOnlyByLoss' /\ ReaderAwake'
  BY <1>1, <1>3, <1>4 DEF IInv, PendingInv, StrandedOnlyByLoss, ReaderAwake
<1> QED BY <1>5, <1>7, <1>8, <1>9 DEF IInv

LEMMA SendNotifyStep ==
  ASSUME IInv, SendNotify
  PROVE  IInv'
<1>1. /\ isr["TBE"] = "sent" /\ isr' = [isr EXCEPT !["TBE"] = "off"]
      /\ UNCHANGED <<rxBuf, txBuf, rxData, txData, txShift, wire, intreq, critical, left,
                     nonblock, rxTask, txTask, got, lost>>
  BY DEF SendNotify, buffers, hardware, request, users
<1>2. /\ isr' \in [Interrupts -> {"off", "entered", "sent"}] /\ isr'["TBE"] = "off"
      /\ isr'["RBF"] = isr["RBF"]
  BY <1>1, Names DEF IInv, DriverTypes
<1>3. DriverTypes'
  BY <1>1, <1>2 DEF IInv, DriverTypes
<1>4. critical = None
  BY <1>1, Names DEF IInv, ControlInv
<1>5. PendingInv'
  BY <1>1, <1>2 DEF IInv, PendingInv
<1>6. CASE R!RingEmpty(txBuf) /\ txTask # None
  <2>1. txTask \in Writers /\ txTask \in Tasks /\ NotifySendFromISR(txTask, {"NB_IRQ"})
    BY <1>6, Names DEF SendNotify, IInv, TaskTypes
  <2>2. {"NB_IRQ"} \in SUBSET NB
    BY DEF NB
  <2>3. /\ pc' \in [Tasks -> {"idle", "loop", "waiting", "ready"}]
        /\ tcb' \in [Tasks -> TN!TCB]
        /\ pc'[txTask] # "waiting" /\ "NB_IRQ" \in tcb'[txTask].value
        /\ pc[txTask] # "waiting" => pc'[txTask] = pc[txTask]
        /\ pc[txTask] = "waiting" => pc'[txTask] = "ready"
        /\ \A s \in Tasks : s # txTask => pc'[s] = pc[s] /\ tcb'[s] = tcb[s]
    BY <2>1, <2>2, NotifyFacts DEF IInv
  <2>4. TaskTypes'
    BY <1>1, <2>3 DEF IInv, TaskTypes
  <2>5. ControlInv'
    BY <1>1, <1>4, <2>1, <2>3, Names DEF IInv, ControlInv
  <2>6. WriterInv'
    BY <1>1, <2>1, <2>3, Names DEF IInv, WriterInv
  <2>7. StrandedOnlyByLoss'
    <3>1. ASSUME NEW t \in Writers PROVE pc'[t] # "waiting"
      BY <2>1, <2>3, Names DEF IInv, ControlInv
    <3> QED BY <3>1 DEF StrandedOnlyByLoss
  <2>8. ReaderAwake'
    BY <1>1, <1>2, <2>1, <2>3, Names DEF IInv, ReaderAwake
  <2> QED BY <1>3, <1>5, <2>4, <2>5, <2>6, <2>7, <2>8 DEF IInv
<1>7. CASE ~ (R!RingEmpty(txBuf) /\ txTask # None)
  <2>1. UNCHANGED <<pc, tcb>>
    BY <1>7 DEF SendNotify
  <2>2. TaskTypes' /\ ControlInv' /\ WriterInv' /\ ReaderAwake'
    BY <1>1, <1>2, <1>4, <2>1 DEF IInv, TaskTypes, ControlInv, WriterInv, ReaderAwake
  <2>3. StrandedOnlyByLoss'
    <3>1. ASSUME NEW t \in Writers, pc[t] = "waiting"
          PROVE  lost \/ "TBE" \in intreq \/ txData # None
      <4>1. txTask = t /\ t # None
        BY <3>1, Names DEF IInv, ControlInv
      <4> QED BY <1>1, <1>7, <4>1 DEF IInv, PendingInv
    <3> QED BY <1>1, <2>1, <3>1 DEF StrandedOnlyByLoss
  <2> QED BY <1>3, <1>5, <2>2, <2>3 DEF IInv
<1> QED BY <1>6, <1>7

LEMMA RecvIntHandlerStep ==
  ASSUME IInv, RecvIntHandler
  PROVE  IInv'
<1>1. /\ isr["RBF"] = "entered" /\ isr' = [isr EXCEPT !["RBF"] = "off"]
      /\ Receive(rxBuf) /\ Feed(txBuf) /\ wire' = wire
      /\ UNCHANGED <<critical, left, nonblock, rxTask, txTask, got, lost>>
  BY DEF RecvIntHandler, request, users
<1>2. WellFormed(txBuf) /\ DriverTypes
  BY DEF IInv, DriverTypes
<1>3. /\ WellFormed(rxBuf') /\ WellFormed(txBuf')
      /\ {rxData', txData', txShift', wire'} \subseteq Byte \cup {None}
      /\ txData' # None => txShift' # None
      /\ intreq' \subseteq Interrupts /\ intreq \subseteq intreq'
      /\ rxData' = None /\ (rxData = None => rxBuf' = rxBuf)
      /\ txData # None => txData' # None
      /\ ~ R!RingEmpty(txBuf) => txData' # None \/ "TBE" \in intreq'
      /\ R!RingEmpty(txBuf) => R!RingEmpty(txBuf')
  BY <1>1, <1>2, MovesFacts
<1>4. /\ isr' \in [Interrupts -> {"off", "entered", "sent"}] /\ isr'["RBF"] = "off"
      /\ isr'["TBE"] = isr["TBE"]
  BY <1>1, <1>2, Names DEF DriverTypes
<1>5. DriverTypes'
  BY <1>1, <1>3, <1>4 DEF IInv, DriverTypes
<1>6. critical = None
  BY <1>1, Names DEF IInv, ControlInv
<1>7. PendingInv'
  BY <1>1, <1>3, <1>4 DEF IInv, PendingInv
<1>8. CASE ~ R!RingEmpty(rxBuf') /\ rxTask # None
  <2>1. rxTask \in Readers /\ rxTask \in Tasks /\ NotifySendFromISR(rxTask, {"NB_IRQ"})
    BY <1>8, Names DEF RecvIntHandler, IInv, TaskTypes
  <2>2. {"NB_IRQ"} \in SUBSET NB
    BY DEF NB
  <2>3. /\ pc' \in [Tasks -> {"idle", "loop", "waiting", "ready"}]
        /\ tcb' \in [Tasks -> TN!TCB]
        /\ pc'[rxTask] # "waiting"
        /\ pc[rxTask] # "waiting" => pc'[rxTask] = pc[rxTask]
        /\ pc[rxTask] = "waiting" => pc'[rxTask] = "ready"
        /\ \A s \in Tasks : s # rxTask => pc'[s] = pc[s] /\ tcb'[s] = tcb[s]
    BY <2>1, <2>2, NotifyFacts DEF IInv
  <2>4. TaskTypes'
    BY <1>1, <2>3 DEF IInv, TaskTypes
  <2>5. ControlInv'
    BY <1>1, <1>6, <2>1, <2>3, Names DEF IInv, ControlInv
  <2>6. \A t \in Writers : pc'[t] = pc[t] /\ tcb'[t] = tcb[t]
    BY <2>1, <2>3, Names
  <2>7. WriterInv'
    BY <1>1, <2>6 DEF IInv, WriterInv
  <2>8. StrandedOnlyByLoss'
    BY <1>1, <1>3, <1>4, <2>6 DEF IInv, StrandedOnlyByLoss
  <2>9. ReaderAwake'
    <3>1. ASSUME NEW t \in Readers PROVE pc'[t] # "waiting"
      BY <2>1, <2>3, Names DEF IInv, ControlInv
    <3> QED BY <3>1 DEF ReaderAwake
  <2> QED BY <1>5, <1>7, <2>4, <2>5, <2>7, <2>8, <2>9 DEF IInv
<1>9. CASE ~ (~ R!RingEmpty(rxBuf') /\ rxTask # None)
  <2>1. UNCHANGED <<pc, tcb>>
    BY <1>9 DEF RecvIntHandler
  <2>2. TaskTypes' /\ ControlInv' /\ WriterInv'
    BY <1>1, <1>6, <2>1 DEF IInv, TaskTypes, ControlInv, WriterInv
  <2>3. StrandedOnlyByLoss'
    BY <1>1, <1>3, <1>4, <2>1 DEF IInv, StrandedOnlyByLoss
  <2>4. ReaderAwake'
    <3>1. ASSUME NEW t \in Readers, pc[t] = "waiting" PROVE R!RingEmpty(rxBuf')
      BY <1>9, <3>1, Names DEF IInv, ControlInv
    <3> QED BY <2>1, <3>1 DEF ReaderAwake
  <2> QED BY <1>5, <1>7, <2>2, <2>3, <2>4 DEF IInv
<1> QED BY <1>8, <1>9

LEMMA RecoverIntHandlerStep ==
  ASSUME IInv, RecoverIntHandler
  PROVE  IInv'
<1>1. /\ Receive(rxBuf) /\ Feed(txBuf) /\ wire' = wire
      /\ UNCHANGED <<isr, critical, pc, tcb, left, nonblock, rxTask, txTask, got, lost>>
  BY DEF RecoverIntHandler, SerialTransmit, request, users
<1>2. WellFormed(txBuf) /\ DriverTypes
  BY DEF IInv, DriverTypes
<1>3. /\ WellFormed(rxBuf') /\ WellFormed(txBuf')
      /\ {rxData', txData', txShift', wire'} \subseteq Byte \cup {None}
      /\ txData' # None => txShift' # None
      /\ intreq' \subseteq Interrupts /\ intreq \subseteq intreq'
      /\ rxData' = None /\ (rxData = None => rxBuf' = rxBuf)
      /\ txData # None => txData' # None
      /\ ~ R!RingEmpty(txBuf) => txData' # None \/ "TBE" \in intreq'
      /\ R!RingEmpty(txBuf) => R!RingEmpty(txBuf')
  BY <1>1, <1>2, MovesFacts
<1>4. DriverTypes'
  BY <1>1, <1>3 DEF IInv, DriverTypes
<1>5. TaskTypes' /\ ControlInv' /\ WriterInv'
  BY <1>1 DEF IInv, TaskTypes, ControlInv, WriterInv
<1>6. PendingInv' /\ StrandedOnlyByLoss' /\ ReaderAwake'
  BY <1>1, <1>3 DEF IInv, PendingInv, StrandedOnlyByLoss, ReaderAwake
<1> QED BY <1>4, <1>5, <1>6 DEF IInv

LEMMA OtherEventStep ==
  ASSUME IInv, NEW t \in Tasks, OtherEvent(t)
  PROVE  IInv'
<1>1. /\ t \in Noisy /\ NotifySendFromISR(t, {"NB_EVENT"})
      /\ UNCHANGED <<rxBuf, txBuf, rxData, txData, txShift, wire, intreq, isr, critical,
                     left, nonblock, rxTask, txTask, got, lost>>
  BY DEF OtherEvent, buffers, hardware, request, users
<1>2. {"NB_EVENT"} \in SUBSET NB
  BY DEF NB
<1>3. /\ pc' \in [Tasks -> {"idle", "loop", "waiting", "ready"}]
      /\ tcb' \in [Tasks -> TN!TCB]
      /\ pc'[t] # "waiting"
      /\ pc[t] # "waiting" => pc'[t] = pc[t]
      /\ pc[t] = "waiting" => pc'[t] = "ready"
      /\ \A s \in Tasks : s # t => pc'[s] = pc[s] /\ tcb'[s] = tcb[s]
  BY <1>1, <1>2, NotifyFacts DEF IInv
<1>4. DriverTypes' /\ TaskTypes' /\ PendingInv'
  BY <1>1, <1>3 DEF IInv, DriverTypes, TaskTypes, PendingInv
<1>5. ControlInv'
  BY <1>1, <1>3, Names DEF IInv, ControlInv
<1>6. WriterInv'
  BY <1>1, <1>3, Names DEF IInv, WriterInv
<1>7. StrandedOnlyByLoss' /\ ReaderAwake'
  BY <1>1, <1>3, Names DEF IInv, StrandedOnlyByLoss, ReaderAwake
<1> QED BY <1>4, <1>5, <1>6, <1>7 DEF IInv

------------------------------------------------------------------------------
(* Tasks *)

LEMMA NumberedType ==
  ASSUME NEW buf, WellFormed(buf), NEW n \in Nat
  PROVE  Numbered(buf, n) \in Seq(Byte)
<1> DEFINE k == IF buf.head = 0 THEN BufLen - 1 ELSE buf.head - 1
<1>1. buf.data \in [0 .. BufLen - 1 -> Byte] /\ buf.head \in 0 .. BufLen - 1
  BY BufferFields DEF WellFormed
<1>2. k \in 0 .. BufLen - 1
  BY <1>1
<1>3. buf.data[k] \in Nat
  BY <1>1, <1>2 DEF Byte
<1> HIDE DEF k
<1>4. NextByte(buf) \in Nat
  BY <1>3 DEF NextByte, k
<1>5. \A i \in 1 .. n : (NextByte(buf) + i - 1) % Bytes \in Byte
  BY <1>4 DEF Byte
<1> QED BY <1>5 DEF Numbered

(* what NotifyWait and returning leave in the task                            *)
LEMMA WaitFacts ==
  ASSUME TaskTypes, NEW t \in Tasks, NEW fields \in TN!TCB,
         NotifyWait(t, fields) \/ Return(t, fields)
  PROVE  /\ pc' \in [Tasks -> {"idle", "loop", "waiting", "ready"}]
         /\ tcb' \in [Tasks -> TN!TCB] /\ critical' \in Tasks \cup {None}
         /\ \A s \in Tasks : s # t => pc'[s] = pc[s] /\ tcb'[s] = tcb[s]
         /\ \/ pc'[t] = "loop" /\ critical' = t
            \/ pc'[t] \in {"idle", "waiting"} /\ critical' = None
         /\ NotifyWait(t, fields) => pc'[t] \in {"loop", "waiting"}
         /\ Return(t, fields) => pc'[t] = "idle"
<1>1. /\ pc \in [Tasks -> {"idle", "loop", "waiting", "ready"}]
      /\ tcb \in [Tasks -> TN!TCB]
  BY DEF TaskTypes
<1> DEFINE polled == TN!Polled(fields, {"NB_IRQ"})
           blocked == TN!Blocked(polled)
<1>2. polled \in TN!TCB
  BY DEF TN!Polled, TN!TCB
<1> HIDE DEF polled
<1>3. blocked \in TN!TCB
  BY <1>2 DEF TN!Blocked, TN!TCB
<1> HIDE DEF blocked
<1>4. CASE NotifyWait(t, fields)
  <2> DEFINE taken == "NB_IRQ" \in fields.value
  <2>1. /\ tcb' = [tcb EXCEPT ![t] = IF taken THEN polled ELSE blocked]
        /\ pc' = [pc EXCEPT ![t] = IF taken THEN "loop" ELSE "waiting"]
        /\ critical' = IF taken THEN t ELSE None
    BY <1>4 DEF NotifyWait, polled, blocked
  <2> HIDE DEF taken
  <2>2. ~ Return(t, fields)
    BY <1>1, <2>1 DEF Return
  <2> QED BY <1>1, <1>2, <1>3, <2>1, <2>2
<1>5. CASE Return(t, fields)
  <2>1. /\ tcb' = [tcb EXCEPT ![t] = fields] /\ pc' = [pc EXCEPT ![t] = "idle"]
        /\ critical' = None
    BY <1>5 DEF Return
  <2>2. pc'[t] = "idle"
    BY <1>1, <2>1
  <2>3. ~ NotifyWait(t, fields)
    BY <1>1, <2>2 DEF NotifyWait
  <2> QED BY <1>1, <2>1, <2>2, <2>3
<1> QED BY <1>4, <1>5

(* where a task may run: no handler is active, and no other task is critical  *)
Runs(t) == critical \in {None, t} /\ \A i \in Interrupts : isr[i] = "off"

LEMMA WriteLoopStep ==
  ASSUME IInv, NEW t \in Writers, NEW n \in Nat, NEW nb \in BOOLEAN,
         NEW fields \in TN!TCB, Runs(t), txTask \in {None, t},
         WriteLoop(t, n, nb, fields)
  PROVE  IInv'
<1> DEFINE written == R!RingWrite(txBuf, Numbered(txBuf, n))
           rest == Len(written.left)
           tx == written.buf
<1>1. WellFormed(txBuf) /\ DriverTypes /\ TaskTypes /\ t \in Tasks
  BY Names DEF IInv, DriverTypes
<1>2. WellFormed(tx) /\ rest \in Nat /\ (rest # 0 => ~ R!RingEmpty(tx))
  BY <1>1, NumberedType, WriteWell
<1>3. /\ Receive(rxBuf) /\ Feed(tx) /\ wire' = wire
      /\ UNCHANGED <<isr, rxTask, got, lost>>
      /\ \/ /\ Return(t, fields) /\ txTask' = None
            /\ left' = [left EXCEPT ![t] = 0] /\ nonblock' = [nonblock EXCEPT ![t] = FALSE]
         \/ /\ rest # 0 /\ NotifyWait(t, fields) /\ txTask' = t
            /\ left' = [left EXCEPT ![t] = rest] /\ nonblock' = [nonblock EXCEPT ![t] = nb]
  BY DEF WriteLoop, SerialTransmit
<1> HIDE DEF tx, rest, written
<1>4. /\ WellFormed(rxBuf') /\ WellFormed(txBuf')
      /\ {rxData', txData', txShift', wire'} \subseteq Byte \cup {None}
      /\ txData' # None => txShift' # None
      /\ intreq' \subseteq Interrupts /\ intreq \subseteq intreq'
      /\ rxData' = None /\ (rxData = None => rxBuf' = rxBuf)
      /\ ~ R!RingEmpty(tx) => txData' # None \/ "TBE" \in intreq'
  BY <1>1, <1>2, <1>3, MovesFacts
<1>5. /\ pc' \in [Tasks -> {"idle", "loop", "waiting", "ready"}]
      /\ tcb' \in [Tasks -> TN!TCB] /\ critical' \in Tasks \cup {None}
      /\ \A s \in Tasks : s # t => pc'[s] = pc[s] /\ tcb'[s] = tcb[s]
      /\ \/ pc'[t] = "loop" /\ critical' = t
         \/ pc'[t] \in {"idle", "waiting"} /\ critical' = None
      /\ NotifyWait(t, fields) => pc'[t] \in {"loop", "waiting"}
      /\ Return(t, fields) => pc'[t] = "idle"
  BY <1>1, <1>3, WaitFacts
<1>6. /\ left' \in [Tasks -> Nat] /\ nonblock' \in [Tasks -> BOOLEAN]
      /\ \A s \in Tasks : s # t => left'[s] = left[s]
      /\ txTask' \in {None, t} /\ (pc'[t] # "idle" <=> txTask' = t)
      /\ pc'[t] = "idle" => left'[t] = 0
      /\ pc'[t] = "waiting" => rest # 0
  <2>1. t # None
    BY <1>1, Names
  <2>2. left \in [Tasks -> Nat] /\ nonblock \in [Tasks -> BOOLEAN]
    BY <1>1 DEF TaskTypes
  <2>3. CASE Return(t, fields) /\ txTask' = None /\ left' = [left EXCEPT ![t] = 0]
             /\ nonblock' = [nonblock EXCEPT ![t] = FALSE]
    BY <1>1, <1>5, <2>1, <2>2, <2>3
  <2>4. CASE rest # 0 /\ NotifyWait(t, fields) /\ txTask' = t
             /\ left' = [left EXCEPT ![t] = rest] /\ nonblock' = [nonblock EXCEPT ![t] = nb]
    BY <1>1, <1>2, <1>5, <2>1, <2>2, <2>4
  <2> QED BY <1>3, <2>3, <2>4
<1>7. DriverTypes'
  BY <1>1, <1>3, <1>4 DEF DriverTypes
<1>8. TaskTypes'
  BY <1>1, <1>3, <1>5, <1>6 DEF TaskTypes
<1>9. \A s \in Writers : s # t => pc[s] = "idle" /\ pc'[s] = "idle"
  BY <1>1, <1>5, Names DEF IInv, ControlInv
<1>10. ControlInv'
  <2>1. \A s \in Tasks : pc'[s] = "loop" <=> critical' = s
    <3>1. \A s \in Tasks : s # t => pc[s] # "loop"
      BY Names DEF IInv, ControlInv, Runs
    <3> QED BY <1>1, <1>5, <3>1, Names
  <2>2. \A s \in Readers : pc'[s] # "idle" <=> rxTask' = s
    BY <1>3, <1>5, Names DEF IInv, ControlInv
  <2>3. \A s \in Writers : pc'[s] # "idle" <=> txTask' = s
    BY <1>6, <1>9, Names
  <2> QED BY <1>3, <2>1, <2>2, <2>3 DEF ControlInv, Runs
<1>11. PendingInv'
  BY <1>3, <1>4, Names DEF PendingInv, Runs
<1>12. WriterInv'
  BY <1>5, <1>6, <1>9, Names DEF IInv, WriterInv
<1>13. StrandedOnlyByLoss'
  BY <1>2, <1>4, <1>6, <1>9 DEF StrandedOnlyByLoss
<1>14. ReaderAwake'
  <2>1. ASSUME NEW s \in Readers, pc'[s] = "waiting"
        PROVE  R!RingEmpty(rxBuf') \/ "RBF" \in intreq'
    <3>1. pc[s] = "waiting"
      BY <1>5, <2>1, Names
    <3> QED BY <1>4, <3>1, Names DEF IInv, ReaderAwake, PendingInv, Runs
  <2> QED BY <2>1 DEF ReaderAwake
<1> QED BY <1>7, <1>8, <1>10, <1>11, <1>12, <1>13, <1>14 DEF IInv

LEMMA ReadLoopStep ==
  ASSUME IInv, NEW t \in Readers, NEW n \in Nat, NEW nb \in BOOLEAN,
         NEW fields \in TN!TCB, Runs(t), rxTask \in {None, t},
         ReadLoop(t, n, nb, fields)
  PROVE  IInv'
<1> DEFINE read == R!RingRead(rxBuf, n)
<1>1. WellFormed(rxBuf) /\ DriverTypes /\ TaskTypes /\ t \in Tasks
  BY Names DEF IInv, DriverTypes
<1>2. WellFormed(read.buf) /\ read.bytes \in Seq(Byte)
  BY <1>1, ReadWell
<1>3. /\ IF ~ R!RingEmpty(rxBuf) THEN rxBuf' = read.buf /\ got' = read.bytes
         ELSE UNCHANGED <<rxBuf, got>>
      /\ \/ /\ Return(t, fields) /\ rxTask' = None
            /\ left' = [left EXCEPT ![t] = 0] /\ nonblock' = [nonblock EXCEPT ![t] = FALSE]
         \/ /\ R!RingEmpty(rxBuf) /\ NotifyWait(t, fields) /\ rxTask' = t
            /\ left' = [left EXCEPT ![t] = n] /\ nonblock' = [nonblock EXCEPT ![t] = nb]
      /\ UNCHANGED <<txBuf, rxData, txData, txShift, wire, intreq, isr, txTask, lost>>
  BY DEF ReadLoop, hardware
<1> HIDE DEF read
<1>4. /\ WellFormed(rxBuf') /\ got' \in Seq(Byte)
      /\ R!RingEmpty(rxBuf) => rxBuf' = rxBuf
  BY <1>1, <1>2, <1>3 DEF TaskTypes
<1>5. /\ pc' \in [Tasks -> {"idle", "loop", "waiting", "ready"}]
      /\ tcb' \in [Tasks -> TN!TCB] /\ critical' \in Tasks \cup {None}
      /\ \A s \in Tasks : s # t => pc'[s] = pc[s] /\ tcb'[s] = tcb[s]
      /\ \/ pc'[t] = "loop" /\ critical' = t
         \/ pc'[t] \in {"idle", "waiting"} /\ critical' = None
      /\ NotifyWait(t, fields) => pc'[t] \in {"loop", "waiting"}
      /\ Return(t, fields) => pc'[t] = "idle"
  BY <1>1, <1>3, WaitFacts
<1>6. /\ left' \in [Tasks -> Nat] /\ nonblock' \in [Tasks -> BOOLEAN]
      /\ \A s \in Tasks : s # t => left'[s] = left[s]
      /\ rxTask' \in {None, t} /\ (pc'[t] # "idle" <=> rxTask' = t)
      /\ pc'[t] = "waiting" => R!RingEmpty(rxBuf)
  <2>1. t # None
    BY <1>1, Names
  <2>2. left \in [Tasks -> Nat] /\ nonblock \in [Tasks -> BOOLEAN]
    BY <1>1 DEF TaskTypes
  <2>3. CASE Return(t, fields) /\ rxTask' = None /\ left' = [left EXCEPT ![t] = 0]
             /\ nonblock' = [nonblock EXCEPT ![t] = FALSE]
    BY <1>1, <1>5, <2>1, <2>2, <2>3
  <2>4. CASE R!RingEmpty(rxBuf) /\ NotifyWait(t, fields) /\ rxTask' = t
             /\ left' = [left EXCEPT ![t] = n] /\ nonblock' = [nonblock EXCEPT ![t] = nb]
    BY <1>1, <1>2, <1>5, <2>1, <2>2, <2>4
  <2> QED BY <1>3, <2>3, <2>4
<1>7. DriverTypes'
  BY <1>1, <1>3, <1>4 DEF DriverTypes
<1>8. TaskTypes'
  BY <1>1, <1>3, <1>4, <1>5, <1>6 DEF TaskTypes
<1>9. \A s \in Readers : s # t => pc[s] = "idle" /\ pc'[s] = "idle"
  BY <1>1, <1>5, Names DEF IInv, ControlInv
<1>10. \A s \in Writers : pc'[s] = pc[s] /\ tcb'[s] = tcb[s] /\ left'[s] = left[s]
  BY <1>5, <1>6, Names
<1>11. ControlInv'
  <2>1. \A s \in Tasks : pc'[s] = "loop" <=> critical' = s
    <3>1. \A s \in Tasks : s # t => pc[s] # "loop"
      BY Names DEF IInv, ControlInv, Runs
    <3> QED BY <1>1, <1>5, <3>1, Names
  <2>2. \A s \in Readers : pc'[s] # "idle" <=> rxTask' = s
    BY <1>6, <1>9, Names
  <2>3. \A s \in Writers : pc'[s] # "idle" <=> txTask' = s
    BY <1>3, <1>10 DEF IInv, ControlInv
  <2> QED BY <1>3, <2>1, <2>2, <2>3 DEF ControlInv, Runs
<1>12. PendingInv'
  BY <1>3 DEF IInv, PendingInv
<1>13. WriterInv'
  BY <1>10 DEF IInv, WriterInv
<1>14. StrandedOnlyByLoss'
  BY <1>3, <1>10 DEF IInv, StrandedOnlyByLoss
<1>15. ReaderAwake'
  BY <1>4, <1>6, <1>9 DEF ReaderAwake
<1> QED BY <1>7, <1>8, <1>11, <1>12, <1>13, <1>14, <1>15 DEF IInv

(* a task that goes on with its request                                       *)
LEMMA GoOnFacts ==
  ASSUME IInv, NEW t \in Tasks, GoOn(t)
  PROVE  /\ Runs(t) /\ pc[t] # "idle" /\ Fields(t) \in TN!TCB
         /\ left[t] \in Nat /\ nonblock[t] \in BOOLEAN
<1>1. tcb[t] \in TN!TCB /\ left[t] \in Nat /\ nonblock[t] \in BOOLEAN
  BY DEF IInv, TaskTypes
<1>2. Fields(t) \in TN!TCB
  BY <1>1 DEF Fields, TN!Resumed, TN!TCB
<1>3. Runs(t) /\ pc[t] # "idle"
  BY Names DEF GoOn, CanRun, Runs, IInv, ControlInv
<1> QED BY <1>1, <1>2, <1>3

LEMMA WriteOnStep ==
  ASSUME IInv, NEW t \in Writers, WriteOn(t)
  PROVE  IInv'
<1>1. /\ Runs(t) /\ pc[t] # "idle" /\ Fields(t) \in TN!TCB /\ t \in Tasks
      /\ left[t] \in Nat /\ nonblock[t] \in BOOLEAN
  BY GoOnFacts, Names DEF WriteOn
<1>2. txTask = t
  BY <1>1 DEF IInv, ControlInv
<1>3. CASE pc[t] = "loop" \/ "NB_IRQ" \in tcb[t].value
  <2>1. WriteLoop(t, left[t], nonblock[t], Fields(t))
    BY <1>3 DEF WriteOn
  <2> QED BY <1>1, <1>2, <2>1, WriteLoopStep
<1>4. CASE ~ (pc[t] = "loop" \/ "NB_IRQ" \in tcb[t].value)
  <2>1. /\ Return(t, Fields(t)) /\ txTask' = None
        /\ UNCHANGED <<rxBuf, txBuf, rxData, txData, txShift, wire, intreq, isr, left,
                       nonblock, rxTask, got, lost>>
    BY <1>4 DEF WriteOn, buffers, hardware, request
  <2>2. /\ pc' \in [Tasks -> {"idle", "loop", "waiting", "ready"}]
        /\ tcb' \in [Tasks -> TN!TCB] /\ critical' = None
        /\ \A s \in Tasks : s # t => pc'[s] = pc[s] /\ tcb'[s] = tcb[s]
        /\ pc'[t] = "idle"
    BY <1>1, <2>1, WaitFacts DEF IInv, Return
  <2>3. t \in Noisy
    BY <1>1, <1>4 DEF IInv, WriterInv, WriteOn, GoOn
  <2>4. DriverTypes' /\ TaskTypes' /\ PendingInv'
    BY <2>1, <2>2 DEF IInv, DriverTypes, TaskTypes, PendingInv
  <2>5. ControlInv'
    <3>1. \A s \in Tasks : s # t => pc[s] # "loop"
      BY <1>1, Names DEF IInv, ControlInv, Runs
    <3>2. \A s \in Tasks : pc'[s] # "loop" /\ s # None
      BY <2>2, <3>1, Names
    <3>3. \A s \in Readers : pc'[s] = pc[s]
      BY <2>2, Names
    <3>4. \A s \in Writers : pc'[s] = "idle" /\ s # None
      BY <1>2, <2>2, Names DEF IInv, ControlInv
    <3> QED BY <2>1, <2>2, <3>2, <3>3, <3>4 DEF IInv, ControlInv
  <2>6. WriterInv'
    BY <2>1, <2>2, <2>3, Names DEF IInv, WriterInv
  <2>7. StrandedOnlyByLoss' /\ ReaderAwake'
    BY <2>1, <2>2, Names DEF IInv, StrandedOnlyByLoss, ReaderAwake
  <2> QED BY <2>4, <2>5, <2>6, <2>7 DEF IInv
<1> QED BY <1>3, <1>4

LEMMA ReadOnStep ==
  ASSUME IInv, NEW t \in Readers, ReadOn(t)
  PROVE  IInv'
<1>1. /\ Runs(t) /\ pc[t] # "idle" /\ Fields(t) \in TN!TCB
      /\ left[t] \in Nat /\ nonblock[t] \in BOOLEAN
  BY GoOnFacts, Names DEF ReadOn
<1>2. rxTask = t
  BY <1>1 DEF IInv, ControlInv
<1> QED BY <1>1, <1>2, ReadLoopStep DEF ReadOn

LEMMA CallStep ==
  ASSUME IInv, NEW t \in Tasks, NEW nb \in BOOLEAN,
         \/ t \in Readers /\ \E n \in ReadLens : SerialRead(t, n, nb)
         \/ t \in Writers /\ \E n \in WriteLens : SerialWrite(t, n, nb)
  PROVE  IInv'
<1>1. tcb[t] \in TN!TCB
  BY DEF IInv, TaskTypes
<1>2. ASSUME t \in Readers, NEW n \in ReadLens, SerialRead(t, n, nb) PROVE IInv'
  <2>1. n \in Nat /\ Runs(t) /\ rxTask \in {None, t} /\ ReadLoop(t, n, nb, tcb[t])
    BY <1>2 DEF SerialRead, CanRun, Runs
  <2> QED BY <1>1, <1>2, <2>1, ReadLoopStep
<1>3. ASSUME t \in Writers, NEW n \in WriteLens, SerialWrite(t, n, nb) PROVE IInv'
  <2>1. n \in Nat /\ Runs(t) /\ txTask \in {None, t} /\ WriteLoop(t, n, nb, tcb[t])
    BY <1>3 DEF SerialWrite, CanRun, Runs
  <2> QED BY <1>1, <1>3, <2>1, WriteLoopStep
<1> QED BY <1>2, <1>3

------------------------------------------------------------------------------
(* Theorems *)

LEMMA InvInit == Init => IInv
<1> SUFFICES ASSUME Init PROVE IInv
  OBVIOUS
<1> DEFINE data == [i \in 0 .. BufLen - 1 |-> 0]
<1>1. data \in [0 .. BufLen - 1 -> Byte]
  BY DEF Byte
<1> HIDE DEF data
<1>2. WellFormed(R!RingAlloc(data)) /\ R!RingEmpty(R!RingAlloc(data))
  BY <1>1 DEF WellFormed, R!RingAlloc, R!Buffer, R!RingEmpty
<1>3. rxBuf = R!RingAlloc(data) /\ txBuf = R!RingAlloc(data)
  BY DEF Init, data
<1>4. DriverTypes
  BY <1>2, <1>3 DEF Init, DriverTypes
<1>5. TaskTypes
  <2>1. TN!FreshTCB \in TN!TCB
    BY DEF TN!FreshTCB, TN!TCB
  <2> QED BY <2>1 DEF Init, TaskTypes
<1>6. ControlInv /\ PendingInv /\ WriterInv
  BY Names DEF Init, ControlInv, PendingInv, WriterInv
<1>7. StrandedOnlyByLoss /\ ReaderAwake
  BY Names DEF Init, StrandedOnlyByLoss, ReaderAwake
<1> QED BY <1>4, <1>5, <1>6, <1>7 DEF IInv

LEMMA InvariantHolds == Spec => []IInv
<1>1. IInv /\ [Next]_vars => IInv'
  <2> SUFFICES ASSUME IInv, [Next]_vars PROVE IInv'
    OBVIOUS
  <2>1. CASE Arrive \/ ShiftOut \/ LoseTBE
    BY <2>1, ArriveStep, ShiftOutStep, LoseTBEStep
  <2>2. CASE \E i \in Interrupts : EnterIntr(i)
    BY <2>2, EnterIntrStep
  <2>3. CASE SendTransmit \/ SendNotify \/ RecvIntHandler \/ RecoverIntHandler
    BY <2>3, SendTransmitStep, SendNotifyStep, RecvIntHandlerStep, RecoverIntHandlerStep
  <2>4. ASSUME NEW t \in Readers, NEW n \in ReadLens, NEW nb \in BOOLEAN,
               SerialRead(t, n, nb)
        PROVE  IInv'
    BY <2>4, CallStep, Names
  <2>5. ASSUME NEW t \in Writers, NEW n \in WriteLens, NEW nb \in BOOLEAN,
               SerialWrite(t, n, nb)
        PROVE  IInv'
    BY <2>5, CallStep, Names
  <2>6. ASSUME NEW t \in Tasks, TaskStep(t) \/ OtherEvent(t) PROVE IInv'
    BY <2>6, ReadOnStep, WriteOnStep, OtherEventStep DEF TaskStep
  <2>7. CASE UNCHANGED vars
    <3>1. UNCHANGED <<rxBuf, txBuf, rxData, txData, txShift, wire, intreq, isr, critical,
                      pc, tcb, left, nonblock, rxTask, txTask, got, lost>>
      BY <2>7 DEF vars, buffers, hardware, request, users
    <3> QED BY <3>1 DEF IInv, DriverTypes, TaskTypes, ControlInv, PendingInv, WriterInv,
              StrandedOnlyByLoss, ReaderAwake
  <2> QED BY <2>1, <2>2, <2>3, <2>4, <2>5, <2>6, <2>7 DEF Next
<1> QED BY <1>1, InvInit, PTL DEF Spec

(* The driver's state keeps its types, and the ring buffers do not run over   *)
THEOREM TypeCorrect == Spec => []TypeOK
<1>1. IInv => TypeOK
  BY DEF IInv, DriverTypes, TaskTypes, WellFormed, TypeOK
<1> QED BY <1>1, InvariantHolds, PTL

(* A blocking write that only serial interrupts wake returns when all its     *)
(* bytes are in txBuf                                                         *)
THEOREM WriteCompleteHolds == Spec => []WriteComplete
<1>1. IInv => WriteComplete
  BY DEF IInv, WriterInv, WriteComplete
<1> QED BY <1>1, InvariantHolds, PTL

(* No reader sleeps over bytes it could have, and no writer without an        *)
(* interrupt that will wake it, unless that was lost                          *)
THEOREM NobodyStrandedHolds == Spec => []NobodyStranded
<1>1. IInv => NobodyStranded
  BY DEF IInv, NobodyStranded
<1> QED BY <1>1, InvariantHolds, PTL

------------------------------------------------------------------------------
(* The ring buffers are first in, first out, whatever their size, and the     *)
(* driver implements ByteStream in either direction: no interleaving of       *)
(* tasks, handlers and hardware reorders, repeats or drops a byte that a ring *)
(* has taken.                                                                 *)

(* Sequences of bytes *)

LEMMA SuffixFacts ==
  ASSUME NEW c \in Seq(Byte), NEW n \in 0 .. Len(c)
  PROVE  /\ SubSeq(c, n + 1, Len(c)) \in Seq(Byte)
         /\ Len(SubSeq(c, n + 1, Len(c))) = Len(c) - n
         /\ \A i \in 1 .. Len(c) - n : SubSeq(c, n + 1, Len(c))[i] = c[n + i]
<1>1. Len(c) \in Nat /\ \A i \in n + 1 .. Len(c) : c[i] \in Byte
  BY ElementOfSeq
<1>2. /\ SubSeq(c, n + 1, Len(c)) \in Seq(Byte)
      /\ Len(SubSeq(c, n + 1, Len(c))) =
           IF n + 1 <= Len(c) THEN Len(c) - (n + 1) + 1 ELSE 0
      /\ \A i \in 1 .. Len(c) - (n + 1) + 1 :
           SubSeq(c, n + 1, Len(c))[i] = c[n + 1 + i - 1]
  BY <1>1, SubSeqProperties
<1>3. \A i \in 1 .. Len(c) - n : n + 1 + i - 1 = n + i
  BY <1>1
<1> QED BY <1>1, <1>2, <1>3

LEMMA PrefixFacts ==
  ASSUME NEW c \in Seq(Byte), NEW n \in 0 .. Len(c)
  PROVE  /\ SubSeq(c, 1, n) \in Seq(Byte)
         /\ Len(SubSeq(c, 1, n)) = n
         /\ \A i \in 1 .. n : SubSeq(c, 1, n)[i] = c[i]
<1>1. Len(c) \in Nat /\ \A i \in 1 .. n : c[i] \in Byte
  BY ElementOfSeq
<1>2. /\ SubSeq(c, 1, n) \in Seq(Byte)
      /\ Len(SubSeq(c, 1, n)) = IF 1 <= n THEN n - 1 + 1 ELSE 0
      /\ \A i \in 1 .. n - 1 + 1 : SubSeq(c, 1, n)[i] = c[1 + i - 1]
  BY <1>1, SubSeqProperties
<1>3. \A i \in 1 .. n : 1 + i - 1 = i
  BY <1>1
<1> QED BY <1>1, <1>2, <1>3

LEMMA ConcatFacts ==
  ASSUME NEW c \in Seq(Byte), NEW d \in Seq(Byte)
  PROVE  /\ c \o d \in Seq(Byte) /\ Len(c \o d) = Len(c) + Len(d)
         /\ \A i \in 1 .. Len(c) + Len(d) :
              (c \o d)[i] = IF i <= Len(c) THEN c[i] ELSE d[i - Len(c)]
  BY ConcatProperties

LEMMA Behead ==
  ASSUME NEW a \in Byte, NEW c \in Seq(Byte)
  PROVE  LET p == <<a>> \o c IN
         /\ p \in Seq(Byte) /\ Len(p) = 1 + Len(c)
         /\ SubSeq(p, 1, 1) = <<a>> /\ SubSeq(p, 2, Len(p)) = c
<1> DEFINE h == <<a>>
           p == h \o c
<1>1. h \in Seq(Byte) /\ Len(h) = 1 /\ h[1] = a /\ Len(c) \in Nat
  OBVIOUS
<1> HIDE DEF h
<1>2. /\ p \in Seq(Byte) /\ Len(p) = Len(h) + Len(c)
      /\ \A i \in 1 .. Len(h) + Len(c) :
           p[i] = IF i <= Len(h) THEN h[i] ELSE c[i - Len(h)]
  BY <1>1, ConcatFacts
<1> HIDE DEF p
<1>3. /\ Len(p) = 1 + Len(c) /\ p[1] = a
      /\ \A i \in 1 .. Len(c) : p[1 + i] = c[i]
  BY <1>1, <1>2
<1>4. SubSeq(p, 1, 1) = h
  <2>1. /\ SubSeq(p, 1, 1) \in Seq(Byte) /\ Len(SubSeq(p, 1, 1)) = 1
        /\ \A i \in 1 .. 1 : SubSeq(p, 1, 1)[i] = p[i]
    BY <1>1, <1>2, <1>3, PrefixFacts
  <2>2. \A i \in 1 .. 1 : SubSeq(p, 1, 1)[i] = h[i]
    BY <1>1, <1>3, <2>1
  <2> QED BY <1>1, <2>1, <2>2, SeqEqual
<1>5. SubSeq(p, 2, Len(p)) = c
  <2> DEFINE s == SubSeq(p, 2, Len(p))
  <2>1. /\ s \in Seq(Byte) /\ Len(s) = Len(p) - 1
        /\ \A i \in 1 .. Len(p) - 1 : s[i] = p[1 + i]
    <3>1. 1 \in 0 .. Len(p) /\ 1 + 1 = 2
      BY <1>1, <1>3
    <3> QED BY <1>2, <3>1, SuffixFacts
  <2> HIDE DEF s
  <2>2. Len(s) = Len(c) /\ \A i \in 1 .. Len(s) : s[i] = c[i]
    BY <1>1, <1>3, <2>1
  <2>3. s = c
    BY <2>1, <2>2, SeqEqual
  <2> QED BY <2>3 DEF s
<1> QED BY <1>2, <1>3, <1>4, <1>5 DEF p, h

LEMMA Regroup ==
  ASSUME NEW c \in Seq(Byte), NEW d \in Seq(Byte), NEW e \in Seq(Byte)
  PROVE  (c \o d) \o e = c \o (d \o e)
  BY ConcatAssociative

------------------------------------------------------------------------------
(* What the operations of a ring buffer do to its contents                    *)

(* the place of the byte that is at t + i before the wrap                     *)
At(i) == IF i < BufLen THEN i ELSE i - BufLen

LEMMA ContentsFacts ==
  ASSUME NEW buf, WellFormed(buf)
  PROVE  /\ R!Contents(buf) \in Seq(Byte) /\ Len(R!Contents(buf)) = buf.count
         /\ buf.count \in 0 .. BufLen
         /\ \A i \in 1 .. buf.count :
              R!Contents(buf)[i] = buf.data[At(buf.tail + i - 1)]
<1>1. /\ buf.tail \in 0 .. BufLen - 1 /\ buf.count \in 0 .. BufLen
      /\ buf.data \in [0 .. BufLen - 1 -> Byte]
  BY BufferFields DEF WellFormed
<1> DEFINE place(i) == IF buf.tail + i - 1 < BufLen THEN buf.tail + i - 1
                       ELSE buf.tail + i - 1 - BufLen
<1>2. R!Contents(buf) = [i \in 1 .. buf.count |-> buf.data[place(i)]]
  BY DEF R!Contents
<1>3. \A i \in 1 .. buf.count :
        place(i) = At(buf.tail + i - 1) /\ place(i) \in 0 .. BufLen - 1
  BY <1>1 DEF At
<1> HIDE DEF place
<1>4. \A i \in 1 .. buf.count : buf.data[place(i)] \in Byte
  BY <1>1, <1>3
<1>5. R!Contents(buf) \in Seq(Byte) /\ Len(R!Contents(buf)) = buf.count
  BY <1>1, <1>2, <1>4
<1>6. \A i \in 1 .. buf.count : R!Contents(buf)[i] = buf.data[place(i)]
  BY <1>2
<1> QED BY <1>1, <1>3, <1>5, <1>6

(* a chunk is as long as there are bytes, at most                             *)
LEMMA ChunkCount ==
  ASSUME NEW buf, WellFormed(buf)
  PROVE  R!UsedChunk(buf) <= buf.count
<1>1. /\ buf.head \in 0 .. BufLen - 1 /\ buf.tail \in 0 .. BufLen - 1
      /\ buf.count \in 0 .. BufLen
      /\ (buf.head = buf.tail + buf.count \/ buf.head + BufLen = buf.tail + buf.count)
  BY BufferFields DEF WellFormed
<1> QED BY <1>1 DEF R!UsedChunk, R!RingEmpty

LEMMA ConsumeContents ==
  ASSUME NEW buf, WellFormed(buf), NEW n \in Nat, n <= R!UsedChunk(buf)
  PROVE  R!Contents(R!RingConsume(buf, n)) = SubSeq(R!Contents(buf), n + 1, buf.count)
<1> DEFINE new == R!RingConsume(buf, n)
           c == R!Contents(buf)
           d == R!Contents(new)
           s == SubSeq(c, n + 1, buf.count)
<1>1. /\ buf.tail \in 0 .. BufLen - 1 /\ buf.count \in 0 .. BufLen
      /\ buf.data \in [0 .. BufLen - 1 -> Byte]
  BY BufferFields DEF WellFormed
<1>2. n <= buf.count /\ buf.tail + n <= BufLen /\ R!UsedChunk(buf) \in Nat
  BY <1>1, ChunkBounds, ChunkCount
<1>3. WellFormed(new) /\ new.count = buf.count - n
  BY ConsumeWell
<1>4. new.tail = (IF buf.tail + n = BufLen THEN 0 ELSE buf.tail + n) /\ new.data = buf.data
  BY BufferFields DEF WellFormed, R!RingConsume, R!Wrap, R!Buffer
<1> HIDE DEF new
<1>5. /\ c \in Seq(Byte) /\ Len(c) = buf.count
      /\ \A i \in 1 .. buf.count : c[i] = buf.data[At(buf.tail + i - 1)]
  BY ContentsFacts
<1>6. /\ d \in Seq(Byte) /\ Len(d) = buf.count - n
      /\ \A i \in 1 .. buf.count - n : d[i] = buf.data[At(new.tail + i - 1)]
  BY <1>3, <1>4, ContentsFacts
<1> HIDE DEF c, d
<1>7. /\ s \in Seq(Byte) /\ Len(s) = buf.count - n
      /\ \A i \in 1 .. buf.count - n : s[i] = c[n + i]
  BY <1>1, <1>2, <1>5, SuffixFacts
<1>8. \A i \in 1 .. buf.count - n :
        n + i \in 1 .. buf.count /\ At(new.tail + i - 1) = At(buf.tail + (n + i) - 1)
  <2>1. CASE buf.tail + n = BufLen
    BY <1>1, <1>2, <1>4, <2>1 DEF At
  <2>2. CASE buf.tail + n # BufLen
    BY <1>1, <1>2, <1>4, <2>2 DEF At
  <2> QED BY <2>1, <2>2
<1>9. \A i \in 1 .. buf.count - n : d[i] = s[i]
  BY <1>5, <1>6, <1>7, <1>8
<1> HIDE DEF s
<1>10. d = s
  BY <1>6, <1>7, <1>9, SeqEqual
<1> QED BY <1>10 DEF d, s, c, new

LEMMA GetByteContents ==
  ASSUME NEW buf, WellFormed(buf), ~ R!RingEmpty(buf)
  PROVE  R!Contents(buf) = <<R!RingGetByte(buf)>> \o R!Contents(R!RingConsume(buf, 1))
<1> DEFINE c == R!Contents(buf)
           b == R!RingGetByte(buf)
<1>1. /\ buf.tail \in 0 .. BufLen - 1 /\ buf.count \in 1 .. BufLen
  BY BufferFields DEF WellFormed, R!RingEmpty
<1>2. /\ c \in Seq(Byte) /\ Len(c) = buf.count
      /\ c[1] = buf.data[At(buf.tail + 1 - 1)]
  BY <1>1, ContentsFacts
<1>3. c[1] = b
  BY <1>1, <1>2 DEF At, R!RingGetByte
<1>4. 1 <= R!UsedChunk(buf)
  BY ChunkBounds
<1>5. R!Contents(R!RingConsume(buf, 1)) = SubSeq(c, 2, buf.count)
  <2>1. 1 + 1 = 2
    OBVIOUS
  <2> HIDE DEF c
  <2>2. R!Contents(R!RingConsume(buf, 1)) = SubSeq(R!Contents(buf), 1 + 1, buf.count)
    BY <1>4, ConsumeContents
  <2> QED BY <2>1, <2>2 DEF c
<1>6. b \in Byte
  BY GetByteType
<1> HIDE DEF c, b
<1>7. <<b>> \o SubSeq(c, 2, buf.count) = c
  <2> DEFINE t == SubSeq(c, 2, buf.count)
             d == <<b>> \o t
  <2>1. t \in Seq(Byte) /\ Len(t) = buf.count - 1 /\ \A i \in 1 .. buf.count - 1 : t[i] = c[1 + i]
    BY <1>1, <1>2, SuffixFacts
  <2> HIDE DEF t
  <2>2. /\ d \in Seq(Byte) /\ Len(d) = buf.count /\ d[1] = b
        /\ \A i \in 2 .. buf.count : d[i] = t[i - 1]
    BY <1>1, <1>6, <2>1
  <2> HIDE DEF d
  <2>3. \A i \in 1 .. buf.count : d[i] = c[i]
    <3> SUFFICES ASSUME NEW i \in 1 .. buf.count PROVE d[i] = c[i]
      OBVIOUS
    <3>1. CASE i = 1
      BY <1>3, <2>2, <3>1
    <3>2. CASE i # 1
      <4>1. i \in 2 .. buf.count /\ i - 1 \in 1 .. buf.count - 1 /\ 1 + (i - 1) = i
        BY <1>1, <3>2
      <4> QED BY <2>1, <2>2, <4>1
    <3> QED BY <3>1, <3>2
  <2>4. d = c
    BY <1>2, <2>2, <2>3, SeqEqual
  <2> QED BY <2>4 DEF d, t
<1> QED BY <1>5, <1>7 DEF c, b

LEMMA ReadChunkContents ==
  ASSUME NEW buf, WellFormed(buf), NEW n \in Nat
  PROVE  LET c == R!Contents(buf)
             new == R!ReadChunk(buf, n).buf
             bytes == R!ReadChunk(buf, n).bytes
         IN  /\ Len(bytes) \in 0 .. Len(c) /\ Len(bytes) <= n
             /\ bytes = SubSeq(c, 1, Len(bytes))
             /\ R!Contents(new) = SubSeq(c, Len(bytes) + 1, Len(c))
             /\ n # 0 /\ Len(c) # 0 => Len(bytes) # 0
<1> DEFINE k == R!AtMost(R!UsedChunk(buf), n)
           c == R!Contents(buf)
           bytes == [i \in 1 .. k |-> buf.data[buf.tail + i - 1]]
<1>1. /\ k \in Nat /\ k <= R!UsedChunk(buf) /\ k <= n /\ R!UsedChunk(buf) \in Nat
      /\ k = R!UsedChunk(buf) \/ k = n
  BY ChunkBounds, LeastOf
<1>2. /\ R!ReadChunk(buf, n).buf = R!RingConsume(buf, k)
      /\ R!ReadChunk(buf, n).bytes = bytes
  BY DEF R!ReadChunk
<1> HIDE DEF k
<1>3. /\ buf.tail \in 0 .. BufLen - 1 /\ buf.count \in 0 .. BufLen
      /\ buf.data \in [0 .. BufLen - 1 -> Byte]
  BY BufferFields DEF WellFormed
<1>4. /\ c \in Seq(Byte) /\ Len(c) = buf.count
      /\ \A i \in 1 .. buf.count : c[i] = buf.data[At(buf.tail + i - 1)]
  BY ContentsFacts
<1>5. k <= buf.count /\ buf.tail + k <= BufLen
  BY <1>1, <1>3, ChunkCount, ChunkBounds
<1>6. R!Contents(R!RingConsume(buf, k)) = SubSeq(R!Contents(buf), k + 1, buf.count)
  BY <1>1, ConsumeContents
<1>7. R!Contents(R!RingConsume(buf, k)) = SubSeq(c, k + 1, Len(c))
  BY <1>4, <1>6
<1> HIDE DEF c
<1>8. \A i \in 1 .. k : /\ At(buf.tail + i - 1) = buf.tail + i - 1
                        /\ i \in 1 .. buf.count
  BY <1>1, <1>3, <1>5 DEF At
<1>9. \A i \in 1 .. k : buf.data[buf.tail + i - 1] = c[i]
  BY <1>4, <1>8
<1>10. \A i \in 1 .. k : c[i] \in Byte
  BY <1>4, <1>8, ElementOfSeq
<1>11. bytes \in Seq(Byte) /\ Len(bytes) = k
  BY <1>1, <1>9, <1>10
<1>12. \A i \in 1 .. k : bytes[i] = c[i]
  BY <1>9
<1> HIDE DEF bytes
<1>13. bytes = SubSeq(c, 1, k)
  <2>1. k \in 0 .. Len(c)
    BY <1>1, <1>4, <1>5
  <2>2. /\ SubSeq(c, 1, k) \in Seq(Byte) /\ Len(SubSeq(c, 1, k)) = k
        /\ \A i \in 1 .. k : SubSeq(c, 1, k)[i] = c[i]
    BY <1>4, <2>1, PrefixFacts
  <2> QED BY <1>11, <1>12, <2>2, SeqEqual
<1>14. buf.count # 0 /\ n # 0 => k # 0
  <2>1. buf.count # 0 => R!UsedChunk(buf) # 0
    BY ChunkBounds DEF R!RingEmpty
  <2> QED BY <1>1, <2>1
<1>15. k \in 0 .. Len(c) /\ k <= n /\ (n # 0 /\ Len(c) # 0 => k # 0)
  BY <1>1, <1>3, <1>4, <1>5, <1>14
<1> QED BY <1>2, <1>7, <1>11, <1>13, <1>15 DEF c

(* a read takes the oldest bytes, and some if there are any                   *)
LEMMA ReadContents ==
  ASSUME NEW buf, WellFormed(buf), NEW n \in Nat
  PROVE  \E k \in 0 .. Len(R!Contents(buf)) :
           /\ R!RingRead(buf, n).bytes = SubSeq(R!Contents(buf), 1, k)
           /\ R!Contents(R!RingRead(buf, n).buf) =
                SubSeq(R!Contents(buf), k + 1, Len(R!Contents(buf)))
           /\ n # 0 /\ Len(R!Contents(buf)) # 0 => k # 0
<1> DEFINE c == R!Contents(buf)
           one == R!ReadChunk(buf, n)
           k == Len(one.bytes)
           d == R!Contents(one.buf)
           two == R!ReadChunk(one.buf, n - k)
           l == Len(two.bytes)
<1>1. /\ R!RingRead(buf, n).buf = two.buf
      /\ R!RingRead(buf, n).bytes = one.bytes \o two.bytes
  BY DEF R!RingRead
<1>2. c \in Seq(Byte)
  BY ContentsFacts
<1>3. /\ k \in 0 .. Len(c) /\ k <= n
      /\ one.bytes = SubSeq(c, 1, k)
      /\ d = SubSeq(c, k + 1, Len(c))
      /\ n # 0 /\ Len(c) # 0 => k # 0
  BY ReadChunkContents
<1>4. WellFormed(one.buf)
  BY ReadChunkWell
<1> HIDE DEF one, c
<1>5. n - k \in Nat
  BY <1>2, <1>3
<1> DEFINE rest == n - k
<1> HIDE DEF rest
<1>6. /\ l \in 0 .. Len(d)
      /\ two.bytes = SubSeq(d, 1, l)
      /\ R!Contents(two.buf) = SubSeq(d, l + 1, Len(d))
  <2>1. rest \in Nat
    BY <1>5 DEF rest
  <2>2. two = R!ReadChunk(one.buf, rest)
    BY DEF rest
  <2> HIDE DEF two
  <2> QED BY <1>4, <2>1, <2>2, ReadChunkContents
<1> HIDE DEF k, l, two, d
<1>7. /\ d \in Seq(Byte) /\ Len(d) = Len(c) - k
      /\ \A i \in 1 .. Len(c) - k : d[i] = c[k + i]
  BY <1>2, <1>3, SuffixFacts
<1>8. k + l \in 0 .. Len(c) /\ k \in Nat /\ l \in Nat /\ Len(c) \in Nat
  BY <1>2, <1>3, <1>6, <1>7
<1>9. one.bytes \o two.bytes = SubSeq(c, 1, k + l)
  <2> DEFINE a == one.bytes
             b == two.bytes
             s == SubSeq(c, 1, k + l)
  <2>1. a \in Seq(Byte) /\ Len(a) = k /\ \A i \in 1 .. k : a[i] = c[i]
    BY <1>2, <1>3, PrefixFacts
  <2>2. b \in Seq(Byte) /\ Len(b) = l /\ \A i \in 1 .. l : b[i] = d[i]
    BY <1>6, <1>7, PrefixFacts
  <2>3. s \in Seq(Byte) /\ Len(s) = k + l /\ \A i \in 1 .. k + l : s[i] = c[i]
    BY <1>2, <1>8, PrefixFacts
  <2> HIDE DEF a, b, s
  <2>4. /\ a \o b \in Seq(Byte) /\ Len(a \o b) = k + l
        /\ \A i \in 1 .. k + l : (a \o b)[i] = IF i <= k THEN a[i] ELSE b[i - k]
    <3>1. /\ a \o b \in Seq(Byte) /\ Len(a \o b) = Len(a) + Len(b)
          /\ \A i \in 1 .. Len(a) + Len(b) :
               (a \o b)[i] = IF i <= Len(a) THEN a[i] ELSE b[i - Len(a)]
      BY <2>1, <2>2, ConcatProperties
    <3>2. Len(a) = k /\ Len(b) = l
      BY <2>1, <2>2
    <3> QED BY <3>1, <3>2
  <2>5. \A i \in 1 .. k + l : (a \o b)[i] = s[i]
    <3> SUFFICES ASSUME NEW i \in 1 .. k + l PROVE (a \o b)[i] = s[i]
      OBVIOUS
    <3>1. CASE i <= k
      <4>1. i \in 1 .. k
        BY <1>8, <3>1
      <4> QED BY <2>1, <2>3, <2>4, <3>1, <4>1
    <3>2. CASE ~ (i <= k)
      <4>1. i - k \in 1 .. l /\ i - k \in 1 .. Len(c) - k /\ k + (i - k) = i
        BY <1>8, <3>2
      <4>2. (a \o b)[i] = b[i - k] /\ b[i - k] = d[i - k] /\ d[i - k] = c[k + (i - k)]
        BY <1>7, <2>2, <2>4, <3>2, <4>1
      <4> QED BY <2>3, <4>1, <4>2
    <3> QED BY <3>1, <3>2
  <2>6. a \o b = s
    BY <2>3, <2>4, <2>5, SeqEqual
  <2> QED BY <2>6 DEF a, b, s
<1>10. SubSeq(d, l + 1, Len(d)) = SubSeq(c, k + l + 1, Len(c))
  <2> DEFINE a == SubSeq(d, l + 1, Len(d))
             s == SubSeq(c, k + l + 1, Len(c))
  <2>1. /\ a \in Seq(Byte) /\ Len(a) = Len(c) - (k + l)
        /\ \A i \in 1 .. Len(c) - (k + l) : a[i] = d[l + i]
    <3>1. /\ a \in Seq(Byte) /\ Len(a) = Len(d) - l
          /\ \A i \in 1 .. Len(d) - l : a[i] = d[l + i]
      BY <1>6, <1>7, SuffixFacts
    <3>2. Len(d) - l = Len(c) - (k + l)
      BY <1>7, <1>8
    <3> HIDE DEF a
    <3> QED BY <3>1, <3>2
  <2>2. /\ s \in Seq(Byte) /\ Len(s) = Len(c) - (k + l)
        /\ \A i \in 1 .. Len(c) - (k + l) : s[i] = c[k + l + i]
    BY <1>2, <1>8, SuffixFacts
  <2> HIDE DEF a, s
  <2>3. \A i \in 1 .. Len(c) - (k + l) : l + i \in 1 .. Len(c) - k /\ k + (l + i) = k + l + i
    BY <1>8
  <2>4. \A i \in 1 .. Len(c) - (k + l) : a[i] = s[i]
    BY <1>7, <2>1, <2>2, <2>3
  <2>5. a = s
    BY <2>1, <2>2, <2>4, SeqEqual
  <2> QED BY <2>5 DEF a, s
<1>11. n # 0 /\ Len(c) # 0 => k + l # 0
  BY <1>3, <1>8
<1>12. \E m \in 0 .. Len(c) :
         /\ R!RingRead(buf, n).bytes = SubSeq(c, 1, m)
         /\ R!Contents(R!RingRead(buf, n).buf) = SubSeq(c, m + 1, Len(c))
         /\ n # 0 /\ Len(c) # 0 => m # 0
  BY <1>1, <1>6, <1>8, <1>9, <1>10, <1>11
<1> QED BY <1>12 DEF c

(* what is put behind the newest byte, over bytes that are not in use         *)
Stored(buf, new, data) ==
  /\ \A i \in 0 .. BufLen - 1 :
       i \notin buf.head .. buf.head + Len(new) - 1 => data[i] = buf.data[i]
  /\ \A i \in 1 .. Len(new) : new[i] = data[buf.head + i - 1]

LEMMA ProduceContents ==
  ASSUME NEW buf, WellFormed(buf), NEW n \in Nat, n <= R!FreeChunk(buf),
         NEW data \in [0 .. BufLen - 1 -> Byte],
         NEW new \in Seq(Byte), Len(new) = n, Stored(buf, new, data)
  PROVE  R!Contents(R!RingProduce([buf EXCEPT !.data = data], n)) = R!Contents(buf) \o new
<1> DEFINE mid == [buf EXCEPT !.data = data]
           put == R!RingProduce(mid, n)
           c == R!Contents(buf)
           d == R!Contents(put)
           h == buf.head
           t == buf.tail
           k == buf.count
<1>1. /\ h \in 0 .. BufLen - 1 /\ t \in 0 .. BufLen - 1 /\ k \in 0 .. BufLen
      /\ buf.data \in [0 .. BufLen - 1 -> Byte] /\ (h = t + k \/ h + BufLen = t + k)
  BY BufferFields DEF WellFormed
<1>2. n <= IF k = BufLen THEN 0 ELSE IF h < t THEN t - h ELSE BufLen - h
  BY DEF R!FreeChunk, R!RingFull
<1>3. /\ WellFormed(mid) /\ n <= R!FreeChunk(mid) /\ mid.count = k
      /\ mid.tail = t /\ mid.data = data
  BY StoreWell DEF WellFormed, R!Buffer
<1>4. WellFormed(put) /\ put.count = k + n
  <2> HIDE DEF mid, k
  <2> QED BY <1>3, ProduceWell
<1>5. put.tail = t /\ put.data = data
  BY <1>3 DEF R!RingProduce, WellFormed, R!Buffer
<1> HIDE DEF put, mid
<1>6. /\ c \in Seq(Byte) /\ Len(c) = k
      /\ \A i \in 1 .. k : c[i] = buf.data[At(t + i - 1)]
  BY ContentsFacts
<1>7. /\ d \in Seq(Byte) /\ Len(d) = k + n
      /\ \A i \in 1 .. k + n : d[i] = data[At(t + i - 1)]
  BY <1>4, <1>5, ContentsFacts
<1> HIDE DEF c, d
<1> HIDE DEF h, t, k
<1>8. \A i \in 1 .. k : /\ At(t + i - 1) \in 0 .. BufLen - 1
                        /\ At(t + i - 1) \notin h .. h + n - 1
  <2> SUFFICES ASSUME NEW i \in 1 .. k
               PROVE  /\ At(t + i - 1) \in 0 .. BufLen - 1
                      /\ At(t + i - 1) \notin h .. h + n - 1
    OBVIOUS
  <2>1. CASE t + i - 1 < BufLen
    BY <1>1, <1>2, <2>1 DEF At
  <2>2. CASE ~ (t + i - 1 < BufLen)
    BY <1>1, <1>2, <2>2 DEF At
  <2> QED BY <2>1, <2>2
<1>9. \A i \in 1 .. k + n : i > k => /\ At(t + i - 1) = h + (i - k) - 1
                                     /\ i - k \in 1 .. n
  <2> SUFFICES ASSUME NEW i \in 1 .. k + n, i > k
               PROVE  At(t + i - 1) = h + (i - k) - 1 /\ i - k \in 1 .. n
    OBVIOUS
  <2>1. CASE h = t + k
    <3>1. n <= BufLen - h /\ n # 0
      BY <1>1, <1>2, <2>1
    <3>2. /\ t + i - 1 < BufLen /\ t + i - 1 = h + (i - k) - 1
          /\ i - k \in 1 .. n
      BY <1>1, <2>1, <3>1
    <3> QED BY <3>2 DEF At
  <2>2. CASE h + BufLen = t + k
    <3>1. /\ ~ (t + i - 1 < BufLen) /\ t + i - 1 - BufLen = h + (i - k) - 1
          /\ i - k \in 1 .. n
      BY <1>1, <2>2
    <3> QED BY <3>1 DEF At
  <2> QED BY <1>1, <2>1, <2>2
<1>10. /\ c \o new \in Seq(Byte) /\ Len(c \o new) = k + n
       /\ \A i \in 1 .. k + n : (c \o new)[i] = IF i <= k THEN c[i] ELSE new[i - k]
  <2>1. /\ c \o new \in Seq(Byte) /\ Len(c \o new) = Len(c) + Len(new)
        /\ \A i \in 1 .. Len(c) + Len(new) :
             (c \o new)[i] = IF i <= Len(c) THEN c[i] ELSE new[i - Len(c)]
    BY <1>6, ConcatFacts
  <2>2. Len(c) = k /\ Len(new) = n
    BY <1>6
  <2> QED BY <2>1, <2>2
<1>11. \A i \in 1 .. k + n : d[i] = (c \o new)[i]
  <2> SUFFICES ASSUME NEW i \in 1 .. k + n PROVE d[i] = (c \o new)[i]
    OBVIOUS
  <2>1. CASE i <= k
    <3>1. i \in 1 .. k
      BY <1>1, <2>1
    <3>2. data[At(t + i - 1)] = buf.data[At(t + i - 1)]
      BY <1>8, <3>1 DEF Stored, h
    <3> QED BY <1>6, <1>7, <1>10, <2>1, <3>1, <3>2
  <2>2. CASE ~ (i <= k)
    <3>1. i > k
      BY <1>1, <2>2
    <3>2. At(t + i - 1) = h + (i - k) - 1 /\ i - k \in 1 .. n
      BY <1>9, <3>1
    <3>3. new[i - k] = data[h + (i - k) - 1]
      BY <3>2 DEF Stored, h
    <3> QED BY <1>7, <1>10, <2>2, <3>2, <3>3
  <2> QED BY <2>1, <2>2
<1>12. d = c \o new
  BY <1>7, <1>10, <1>11, SeqEqual
<1> QED BY <1>12 DEF d, c, put, mid, k, h, t

LEMMA PutByteContents ==
  ASSUME NEW buf, WellFormed(buf), ~ R!RingFull(buf), NEW byte \in Byte
  PROVE  R!Contents(R!RingPutByte(buf, byte)) = R!Contents(buf) \o <<byte>>
<1> DEFINE data == [buf.data EXCEPT ![buf.head] = byte]
           new == <<byte>>
<1>1. /\ buf.data \in [0 .. BufLen - 1 -> Byte] /\ buf.head \in 0 .. BufLen - 1
  BY BufferFields DEF WellFormed
<1>2. /\ data \in [0 .. BufLen - 1 -> Byte] /\ data[buf.head] = byte
      /\ \A i \in 0 .. BufLen - 1 : i # buf.head => data[i] = buf.data[i]
  BY <1>1
<1>3. 1 <= R!FreeChunk(buf)
  BY ChunkBounds
<1>4. R!RingPutByte(buf, byte) = R!RingProduce([buf EXCEPT !.data = data], 1)
  BY DEF R!RingPutByte
<1> HIDE DEF data
<1>5. \A i \in 0 .. BufLen - 1 :
        i \notin buf.head .. buf.head + 1 - 1 => data[i] = buf.data[i]
  BY <1>1, <1>2
<1>6. new \in Seq(Byte) /\ Len(new) = 1 /\ new[1] = byte
  OBVIOUS
<1> HIDE DEF new
<1>7. \A i \in 1 .. 1 : new[i] = data[buf.head + i - 1]
  <2>1. buf.head + 1 - 1 = buf.head
    BY <1>1
  <2> QED BY <1>2, <1>6, <2>1
<1>8. Stored(buf, new, data)
  BY <1>5, <1>6, <1>7 DEF Stored
<1>9. R!Contents(R!RingProduce([buf EXCEPT !.data = data], 1)) = R!Contents(buf) \o new
  BY <1>2, <1>3, <1>6, <1>8, ProduceContents
<1> QED BY <1>4, <1>9 DEF new

LEMMA WriteChunkContents ==
  ASSUME NEW buf, WellFormed(buf), NEW bytes \in Seq(Byte)
  PROVE  \E new \in Seq(Byte) :
           R!Contents(R!WriteChunk(buf, bytes).buf) = R!Contents(buf) \o new
<1> DEFINE k == R!AtMost(R!FreeChunk(buf), Len(bytes))
           data == [i \in 0 .. BufLen - 1 |->
                      IF i \in buf.head .. buf.head + k - 1
                        THEN bytes[i - buf.head + 1] ELSE buf.data[i]]
           new == SubSeq(bytes, 1, k)
<1>1. /\ k \in Nat /\ k <= R!FreeChunk(buf) /\ k <= Len(bytes) /\ Len(bytes) \in Nat
      /\ R!FreeChunk(buf) \in Nat /\ buf.head + R!FreeChunk(buf) <= BufLen
  BY ChunkBounds, LeastOf
<1>2. R!WriteChunk(buf, bytes).buf = R!RingProduce([buf EXCEPT !.data = data], k)
  BY DEF R!WriteChunk
<1> HIDE DEF k
<1>3. buf.head \in 0 .. BufLen - 1 /\ buf.data \in [0 .. BufLen - 1 -> Byte]
  BY BufferFields DEF WellFormed
<1>4. data \in [0 .. BufLen - 1 -> Byte]
  <2>1. \A i \in 0 .. BufLen - 1 : i \in buf.head .. buf.head + k - 1 =>
          i - buf.head + 1 \in 1 .. Len(bytes)
    BY <1>1, <1>3
  <2> QED BY <1>3, <2>1
<1>5. \A i \in 0 .. BufLen - 1 :
        i \notin buf.head .. buf.head + k - 1 => data[i] = buf.data[i]
  OBVIOUS
<1>6. \A i \in 1 .. k : data[buf.head + i - 1] = bytes[i]
  <2> SUFFICES ASSUME NEW i \in 1 .. k PROVE data[buf.head + i - 1] = bytes[i]
    OBVIOUS
  <2> DEFINE j == buf.head + i - 1
  <2>1. /\ j \in 0 .. BufLen - 1 /\ j \in buf.head .. buf.head + k - 1
        /\ j - buf.head + 1 = i
    BY <1>1, <1>3
  <2> HIDE DEF j
  <2>2. data[j] = bytes[i]
    BY <2>1
  <2> QED BY <2>2 DEF j
<1> HIDE DEF data
<1>7. /\ new \in Seq(Byte) /\ Len(new) = k
      /\ \A i \in 1 .. k : new[i] = bytes[i]
  BY <1>1, PrefixFacts
<1> HIDE DEF new
<1>8. \A i \in 1 .. k : new[i] = data[buf.head + i - 1]
  BY <1>6, <1>7
<1>9. Stored(buf, new, data)
  BY <1>5, <1>7, <1>8 DEF Stored
<1>10. R!Contents(R!RingProduce([buf EXCEPT !.data = data], k)) = R!Contents(buf) \o new
  BY <1>1, <1>4, <1>7, <1>9, ProduceContents
<1> QED BY <1>2, <1>7, <1>10

(* a write adds some bytes behind those that are there                        *)
LEMMA WriteContents ==
  ASSUME NEW buf, WellFormed(buf), NEW bytes \in Seq(Byte)
  PROVE  \E new \in Seq(Byte) :
           R!Contents(R!RingWrite(buf, bytes).buf) = R!Contents(buf) \o new
<1> DEFINE one == R!WriteChunk(buf, bytes)
           two == R!WriteChunk(one.buf, one.left)
<1>1. WellFormed(one.buf) /\ one.left \in Seq(Byte)
  BY WriteChunkWell
<1>2. R!RingWrite(buf, bytes) = two
  BY DEF R!RingWrite
<1>3. PICK a \in Seq(Byte) : R!Contents(one.buf) = R!Contents(buf) \o a
  BY WriteChunkContents
<1> HIDE DEF one
<1>4. PICK b \in Seq(Byte) : R!Contents(two.buf) = R!Contents(one.buf) \o b
  BY <1>1, WriteChunkContents
<1>5. R!Contents(buf) \in Seq(Byte)
  BY ContentsFacts
<1>6. (R!Contents(buf) \o a) \o b = R!Contents(buf) \o (a \o b)
  BY <1>5, Regroup
<1>7. a \o b \in Seq(Byte)
  BY ConcatFacts
<1> QED BY <1>2, <1>3, <1>4, <1>6, <1>7

------------------------------------------------------------------------------
(* The bytes on their way out *)

LEMMA OneFacts ==
  ASSUME NEW x \in Byte \cup {None}
  PROVE  /\ One(x) \in Seq(Byte) /\ Len(One(x)) \in 0 .. 1
         /\ x = None => One(x) = <<>>
         /\ x # None => One(x) = <<x>>
<1>1. CASE x = None
  BY <1>1 DEF One
<1>2. CASE x # None
  <2>1. x \in Byte /\ One(x) = <<x>>
    BY <1>2 DEF One
  <2> QED BY <1>2, <2>1
<1> QED BY <1>1, <1>2

LEMMA NoBytes ==
  ASSUME NEW c \in Seq(Byte)
  PROVE  c \o <<>> = c /\ <<>> \o c = c
  BY ConcatEmptySeq

(* Feed moves bytes from the ring to the registers and keeps their order      *)
LEMMA FeedContents ==
  ASSUME NEW tx, WellFormed(tx), DriverTypes, Feed(tx)
  PROVE  One(txShift') \o One(txData') \o R!Contents(txBuf')
           = One(txShift) \o One(txData) \o R!Contents(tx)
<1> DEFINE one == R!RingConsume(tx, 1)
           two == R!RingConsume(one, 1)
           a == R!RingGetByte(tx)
           b == R!RingGetByte(one)
           c == R!Contents(tx)
           c1 == R!Contents(one)
           c2 == R!Contents(two)
<1>1. txData \in Byte \cup {None} /\ txShift \in Byte \cup {None}
  BY DEF DriverTypes
<1>2. ~ R!RingEmpty(tx) => WellFormed(one)
  <2>1. ~ R!RingEmpty(tx) => 1 <= R!UsedChunk(tx)
    BY ChunkBounds
  <2> QED BY <2>1, ConsumeWell
<1>3. a \in Byte /\ c \in Seq(Byte) /\ (~ R!RingEmpty(tx) => c = <<a>> \o c1)
  BY GetByteType, ContentsFacts, GetByteContents
<1> HIDE DEF one
<1>4. WellFormed(one) /\ ~ R!RingEmpty(one) => WellFormed(two)
  <2>1. WellFormed(one) /\ ~ R!RingEmpty(one) => 1 <= R!UsedChunk(one)
    BY ChunkBounds
  <2> QED BY <2>1, ConsumeWell
<1>5. WellFormed(one) =>
        b \in Byte /\ c1 \in Seq(Byte) /\ (~ R!RingEmpty(one) => c1 = <<b>> \o c2)
  BY GetByteType, ContentsFacts, GetByteContents
<1> HIDE DEF two
<1>6. WellFormed(two) => c2 \in Seq(Byte)
  BY ContentsFacts
<1>7. CASE txData # None \/ R!RingEmpty(tx)
  <2>1. txBuf' = tx /\ txData' = txData /\ txShift' = txShift
    BY <1>7 DEF Feed
  <2> QED BY <2>1
<1>8. CASE txData = None /\ ~ R!RingEmpty(tx) /\ txShift # None
  <2>1. txBuf' = one /\ txData' = a /\ txShift' = txShift
    BY <1>8 DEF Feed, one
  <2>2. R!Contents(txBuf') = c1
    BY <2>1
  <2> HIDE DEF a, c, c1
  <2>3. One(txData') = <<a>> /\ One(txData) = <<>> /\ One(txShift) \in Seq(Byte)
    BY <1>1, <1>3, <1>8, <2>1, OneFacts, Names
  <2>4. c1 \in Seq(Byte) /\ c = <<a>> \o c1 /\ <<a>> \in Seq(Byte)
    BY <1>2, <1>3, <1>5, <1>8
  <2>5. (One(txShift) \o <<a>>) \o c1 = One(txShift) \o (<<a>> \o c1)
    BY <2>3, <2>4, Regroup
  <2>6. One(txShift) \o <<>> = One(txShift)
    BY <2>3, NoBytes
  <2>7. One(txShift') \o One(txData') \o c1 = One(txShift) \o One(txData) \o c
    BY <2>1, <2>3, <2>4, <2>5, <2>6
  <2> QED BY <2>2, <2>7 DEF c
<1>9. CASE txData = None /\ ~ R!RingEmpty(tx) /\ txShift = None
  <2>1. /\ txShift' = a
        /\ IF R!RingEmpty(one) THEN txBuf' = one /\ txData' = txData
           ELSE txBuf' = two /\ txData' = b
    BY <1>9 DEF Feed, one, two
  <2>2. c1 \in Seq(Byte) /\ c = <<a>> \o c1 /\ <<a>> \in Seq(Byte)
    BY <1>2, <1>3, <1>5, <1>9
  <2>3. One(txShift) \o One(txData) \o c = c
    BY <1>3, <1>9, NoBytes, EmptySeq DEF One
  <2>4. One(txShift') = <<a>>
    BY <1>3, <2>1, Names DEF One
  <2>5. CASE R!RingEmpty(one)
    <3>1. One(txData') = <<>> /\ R!Contents(txBuf') = c1
      BY <1>9, <2>1, <2>5 DEF One
    <3>2. <<a>> \o <<>> = <<a>>
      BY <2>2, NoBytes
    <3> QED BY <2>2, <2>3, <2>4, <3>1, <3>2
  <2>6. CASE ~ R!RingEmpty(one)
    <3>1. txBuf' = two /\ txData' = b
      BY <2>1, <2>6
    <3>2. b \in Byte /\ c1 = <<b>> \o c2 /\ c2 \in Seq(Byte)
      BY <1>2, <1>4, <1>5, <1>6, <1>9, <2>6
    <3>3. One(txData') = <<b>> /\ R!Contents(txBuf') = c2
      BY <3>1, <3>2, Names DEF One
    <3> HIDE DEF a, b, c, c1, c2
    <3>4. <<b>> \in Seq(Byte)
      BY <3>2
    <3>5. (<<a>> \o <<b>>) \o c2 = <<a>> \o (<<b>> \o c2)
      BY <2>2, <3>2, <3>4, Regroup
    <3>6. One(txShift') \o One(txData') \o R!Contents(txBuf') = c
      BY <2>2, <2>4, <3>2, <3>3, <3>5
    <3> QED BY <2>3, <3>6 DEF c
  <2> QED BY <2>5, <2>6
<1> QED BY <1>7, <1>8, <1>9

TxStep == [Tx!Put \/ Tx!Take]_Tx!vars
RxStep == [Rx!Put \/ Rx!Take]_Rx!vars

LEMMA PendingFacts ==
  ASSUME NEW x \in Byte \cup {None}, NEW y \in Byte \cup {None},
         NEW buf, WellFormed(buf)
  PROVE  /\ One(x) \o One(y) \o R!Contents(buf) \in Seq(Byte)
         /\ Len(One(x) \o One(y) \o R!Contents(buf)) <= BufLen + 2
         /\ One(x) \o One(y) \in Seq(Byte)
<1> DEFINE a == One(x)
           b == One(y)
           c == R!Contents(buf)
<1>1. /\ a \in Seq(Byte) /\ Len(a) \in 0 .. 1 /\ b \in Seq(Byte) /\ Len(b) \in 0 .. 1
  BY OneFacts
<1>2. c \in Seq(Byte) /\ Len(c) \in 0 .. BufLen
  BY ContentsFacts
<1> HIDE DEF a, b, c
<1>3. a \o b \in Seq(Byte) /\ Len(a \o b) = Len(a) + Len(b)
  BY <1>1, ConcatFacts
<1> DEFINE ab == a \o b
<1> HIDE DEF ab
<1>4. ab \o c \in Seq(Byte) /\ Len(ab \o c) = Len(ab) + Len(c)
  BY <1>2, <1>3, ConcatFacts DEF ab
<1>5. Len(ab) = Len(a) + Len(b)
  BY <1>3 DEF ab
<1>6. Len(ab \o c) <= BufLen + 2
  <2>1. \A i, j \in 0 .. 1, k \in 0 .. BufLen : i + j + k <= BufLen + 2
    OBVIOUS
  <2>2. Len(ab \o c) = Len(a) + Len(b) + Len(c)
    BY <1>4, <1>5
  <2> QED BY <1>1, <1>2, <2>1, <2>2
<1> QED BY <1>3, <1>4, <1>6 DEF ab, a, b, c

(* feeding from a ring to which a writer may have added bytes                 *)
LEMMA FeedIsPut ==
  ASSUME DriverTypes, DriverTypes', NEW tx, WellFormed(tx), Feed(tx), wire' = wire,
         NEW new \in Seq(Byte), R!Contents(tx) = R!Contents(txBuf) \o new
  PROVE  TxStep
<1> DEFINE p == TxPending
           q == TxPending'
           ab == One(txShift) \o One(txData)
<1>1. p \in Seq(Byte) /\ ab \in Seq(Byte) /\ R!Contents(txBuf) \in Seq(Byte)
  BY PendingFacts, ContentsFacts DEF DriverTypes, TxPending
<1>2. q \in Seq(Byte) /\ Len(q) <= BufLen + 2
  BY PendingFacts DEF DriverTypes, TxPending
<1>3. q = p \o new
  <2>1. q = ab \o R!Contents(tx)
    BY FeedContents DEF TxPending
  <2>2. (ab \o R!Contents(txBuf)) \o new = ab \o (R!Contents(txBuf) \o new)
    <3> DEFINE c == R!Contents(txBuf)
    <3> HIDE DEF ab, c
    <3>1. (ab \o c) \o new = ab \o (c \o new)
      BY <1>1, Regroup DEF c
    <3> QED BY <3>1 DEF c
  <2> QED BY <2>1, <2>2 DEF TxPending
<1>4. One(wire)' = One(wire)
  BY DEF One
<1> HIDE DEF p, q
<1>5. CASE new = <<>>
  <2>1. q = p
    BY <1>1, <1>3, <1>5, NoBytes
  <2> QED BY <1>4, <2>1 DEF TxStep, Tx!vars, p, q
<1>6. CASE new # <<>>
  <2> DEFINE k == Len(new)
  <2>1. Len(q) = Len(p) + k /\ Len(p) \in Nat /\ k \in Nat /\ k # 0
    BY <1>1, <1>3, <1>6, ConcatFacts, EmptySeq
  <2>2. k \in 1 .. BufLen + 2 /\ new \in [1 .. k -> Byte]
    BY <1>2, <2>1
  <2> HIDE DEF k
  <2>3. Tx!Put
    BY <1>2, <1>3, <1>4, <2>2 DEF Tx!Put, p, q
  <2> QED BY <2>3 DEF TxStep
<1> QED BY <1>5, <1>6

LEMMA FeedIsSilent ==
  ASSUME DriverTypes, DriverTypes', Feed(txBuf), wire' = wire
  PROVE  TxStep
<1>1. WellFormed(txBuf) /\ R!Contents(txBuf) \in Seq(Byte) /\ <<>> \in Seq(Byte)
  BY ContentsFacts, EmptySeq DEF DriverTypes
<1>2. R!Contents(txBuf) = R!Contents(txBuf) \o <<>>
  BY <1>1, NoBytes
<1> QED BY <1>1, <1>2, FeedIsPut

LEMMA ShiftIsTake ==
  ASSUME DriverTypes, ShiftOut
  PROVE  TxStep
<1> DEFINE c == R!Contents(txBuf)
           r == One(txData) \o c
           p == TxPending
<1>1. /\ txShift # None /\ wire' = txShift /\ txShift' = txData /\ txData' = None
      /\ txBuf' = txBuf /\ txShift \in Byte
  BY DEF ShiftOut, buffers, DriverTypes
<1>2. /\ c \in Seq(Byte) /\ One(txData) \in Seq(Byte) /\ One(txShift) = <<txShift>>
      /\ One(txShift) \in Seq(Byte)
  BY <1>1, ContentsFacts, OneFacts DEF DriverTypes
<1> HIDE DEF c
<1>3. r \in Seq(Byte) /\ Len(r) \in Nat
  BY <1>2, ConcatFacts
<1>4. p = <<txShift>> \o r
  <2>1. (One(txShift) \o One(txData)) \o c = One(txShift) \o (One(txData) \o c)
    BY <1>2, Regroup
  <2> QED BY <1>2, <2>1 DEF TxPending, c
<1>5. TxPending' = r
  <2>1. One(None) = <<>>
    BY DEF One
  <2>2. TxPending' = One(txData) \o One(None) \o c
    BY <1>1 DEF TxPending, c
  <2>3. One(txData) \o <<>> = One(txData)
    BY <1>2, NoBytes
  <2> QED BY <2>1, <2>2, <2>3
<1>6. One(wire)' = <<txShift>>
  <2>1. One(wire)' = One(txShift)
    BY <1>1 DEF One
  <2> QED BY <1>2, <2>1
<1> HIDE DEF r, p
<1>7. p \in Seq(Byte) /\ Len(p) = 1 + Len(r) /\ SubSeq(p, 1, 1) = <<txShift>>
      /\ SubSeq(p, 2, Len(p)) = r
  BY <1>1, <1>3, <1>4, Behead
<1>8. 1 \in 1 .. Len(p) /\ 1 + 1 = 2
  BY <1>3, <1>7
<1>9. Tx!Take
  BY <1>5, <1>6, <1>7, <1>8 DEF Tx!Take, p
<1> QED BY <1>9 DEF TxStep

------------------------------------------------------------------------------
(* The bytes on their way in *)

LEMMA ReceiveIsPut ==
  ASSUME DriverTypes, DriverTypes', Receive(rxBuf), got' = got
  PROVE  RxStep
<1>1. WellFormed(rxBuf) /\ WellFormed(rxBuf') /\ rxData \in Byte \cup {None}
  BY DEF DriverTypes
<1>2. CASE rxData # None /\ ~ R!RingFull(rxBuf)
  <2> DEFINE new == <<rxData>>
             c == R!Contents(rxBuf)
             d == R!Contents(rxBuf')
  <2>1. d = c \o new /\ rxData \in Byte
    BY <1>1, <1>2, PutByteContents DEF Receive
  <2>2. d \in Seq(Byte) /\ Len(d) <= BufLen
    BY <1>1, ContentsFacts
  <2>3. new \in [1 .. 1 -> Byte] /\ 1 \in 1 .. BufLen
    BY <2>1
  <2>4. R!Contents(rxBuf)' = d
    OBVIOUS
  <2> HIDE DEF c, d, new
  <2>5. Rx!Put
    BY <2>1, <2>2, <2>3, <2>4 DEF Rx!Put, c
  <2> QED BY <2>5 DEF RxStep
<1>3. CASE ~ (rxData # None /\ ~ R!RingFull(rxBuf))
  <2>1. rxBuf' = rxBuf
    BY <1>3 DEF Receive
  <2> QED BY <2>1 DEF RxStep, Rx!vars
<1> QED BY <1>2, <1>3

LEMMA ReadIsTake ==
  ASSUME DriverTypes, NEW t \in Readers, NEW n \in Nat, n # 0, NEW nb, NEW fields,
         ReadLoop(t, n, nb, fields)
  PROVE  RxStep
<1>1. WellFormed(rxBuf)
  BY DEF DriverTypes
<1>2. CASE R!RingEmpty(rxBuf)
  <2>1. rxBuf' = rxBuf /\ got' = got
    BY <1>2 DEF ReadLoop
  <2> QED BY <2>1 DEF RxStep, Rx!vars
<1>3. CASE ~ R!RingEmpty(rxBuf)
  <2> DEFINE read == R!RingRead(rxBuf, n)
             c == R!Contents(rxBuf)
  <2>1. rxBuf' = read.buf /\ got' = read.bytes
    BY <1>3 DEF ReadLoop
  <2>2. PICK k \in 0 .. Len(c) :
          /\ read.bytes = SubSeq(c, 1, k)
          /\ R!Contents(read.buf) = SubSeq(c, k + 1, Len(c))
          /\ n # 0 /\ Len(c) # 0 => k # 0
    BY <1>1, ReadContents
  <2>3. Len(c) = rxBuf.count /\ rxBuf.count # 0 /\ rxBuf.count \in Nat
    BY <1>1, <1>3, ContentsFacts DEF R!RingEmpty
  <2>4. R!Contents(rxBuf)' = SubSeq(c, k + 1, Len(c)) /\ got' = SubSeq(c, 1, k)
    BY <2>1, <2>2
  <2>5. k \in 1 .. Len(c)
    BY <2>2, <2>3
  <2>6. Rx!Take
    BY <2>4, <2>5 DEF Rx!Take
  <2> QED BY <2>6 DEF RxStep
<1> QED BY <1>2, <1>3

------------------------------------------------------------------------------
(* A task inside SerialRead has bytes left to read *)

AskedInv == \A t \in Readers : pc[t] # "idle" => left[t] # 0

LEMMA AskedKept ==
  ASSUME TaskTypes, AskedInv, left' = left, NEW t \in Tasks, NEW bits \in SUBSET NB,
         NotifySendFromISR(t, bits)
  PROVE  AskedInv'
<1>1. \A s \in Tasks : pc'[s] # "idle" => pc[s] # "idle"
  BY NotifyFacts
<1> QED BY <1>1, Names DEF AskedInv

LEMMA ReadAsked ==
  ASSUME TaskTypes, AskedInv, NEW t \in Readers, NEW n \in Nat, n # 0, NEW nb,
         NEW fields, ReadLoop(t, n, nb, fields)
  PROVE  AskedInv'
<1>1. /\ pc \in [Tasks -> {"idle", "loop", "waiting", "ready"}] /\ left \in [Tasks -> Nat]
      /\ t \in Tasks
  BY Names DEF TaskTypes
<1>2. CASE Return(t, fields) /\ left' = [left EXCEPT ![t] = 0]
  <2>1. pc' = [pc EXCEPT ![t] = "idle"]
    BY <1>2 DEF Return
  <2> QED BY <1>1, <1>2, <2>1, Names DEF AskedInv
<1>3. CASE NotifyWait(t, fields) /\ left' = [left EXCEPT ![t] = n]
  <2>1. \A s \in Tasks : s # t => pc'[s] = pc[s] /\ left'[s] = left[s]
    BY <1>1, <1>3 DEF NotifyWait
  <2>2. left'[t] = n
    BY <1>1, <1>3
  <2> QED BY <2>1, <2>2, Names DEF AskedInv
<1> QED BY <1>2, <1>3 DEF ReadLoop

LEMMA WriteAsked ==
  ASSUME TaskTypes, AskedInv, NEW t \in Writers,
         \A s \in Tasks : s # t => pc'[s] = pc[s] /\ left'[s] = left[s]
  PROVE  AskedInv'
<1>1. \A s \in Readers : s # t /\ s \in Tasks
  BY Names
<1> QED BY <1>1 DEF AskedInv

LEMMA WriteKeeps ==
  ASSUME TaskTypes, NEW t \in Writers, NEW n, NEW nb, NEW fields,
         WriteLoop(t, n, nb, fields)
  PROVE  \A s \in Tasks : s # t => pc'[s] = pc[s] /\ left'[s] = left[s]
<1> DEFINE rest == Len(R!RingWrite(txBuf, Numbered(txBuf, n)).left)
<1>1. /\ pc \in [Tasks -> {"idle", "loop", "waiting", "ready"}] /\ left \in [Tasks -> Nat]
      /\ t \in Tasks
  BY Names DEF TaskTypes
<1>2. \/ Return(t, fields) /\ left' = [left EXCEPT ![t] = 0]
      \/ NotifyWait(t, fields) /\ left' = [left EXCEPT ![t] = rest]
  BY DEF WriteLoop
<1> HIDE DEF rest
<1>3. CASE Return(t, fields) /\ left' = [left EXCEPT ![t] = 0]
  BY <1>1, <1>3 DEF Return
<1>4. CASE NotifyWait(t, fields) /\ left' = [left EXCEPT ![t] = rest]
  BY <1>1, <1>4 DEF NotifyWait
<1> QED BY <1>2, <1>3, <1>4

(* what every step of the driver is to either direction                       *)
Passed == TxStep /\ RxStep /\ AskedInv'

LEMMA WriteLoopPassed ==
  ASSUME IInv, IInv', AskedInv, NEW t \in Writers, NEW n \in Nat, NEW nb, NEW fields,
         WriteLoop(t, n, nb, fields)
  PROVE  Passed
<1> DEFINE written == R!RingWrite(txBuf, Numbered(txBuf, n))
           tx == written.buf
<1>1. DriverTypes /\ DriverTypes' /\ TaskTypes /\ WellFormed(txBuf)
  BY DEF IInv, DriverTypes
<1>2. Numbered(txBuf, n) \in Seq(Byte)
  BY <1>1, NumberedType
<1>3. Receive(rxBuf) /\ Feed(tx) /\ wire' = wire /\ got' = got
  BY DEF WriteLoop, SerialTransmit
<1>4. WellFormed(tx)
  BY <1>1, <1>2, WriteWell
<1>5. PICK new \in Seq(Byte) : R!Contents(tx) = R!Contents(txBuf) \o new
  BY <1>1, <1>2, WriteContents
<1> HIDE DEF written, tx
<1>6. TxStep
  BY <1>1, <1>3, <1>4, <1>5, FeedIsPut
<1>7. RxStep
  BY <1>1, <1>3, ReceiveIsPut
<1>8. AskedInv'
  BY <1>1, WriteKeeps, WriteAsked
<1> QED BY <1>6, <1>7, <1>8 DEF Passed

LEMMA ReadLoopPassed ==
  ASSUME IInv, AskedInv, NEW t \in Readers, NEW n \in Nat, n # 0, NEW nb, NEW fields,
         ReadLoop(t, n, nb, fields)
  PROVE  Passed
<1>1. DriverTypes /\ TaskTypes
  BY DEF IInv
<1>2. UNCHANGED <<txBuf, txData, txShift, wire>>
  BY DEF ReadLoop, hardware
<1>3. TxStep
  BY <1>2 DEF TxStep, Tx!vars, TxPending
<1> QED BY <1>1, <1>3, ReadIsTake, ReadAsked DEF Passed

LEMMA StepPassed ==
  ASSUME IInv, IInv', AskedInv, [Next]_vars
  PROVE  Passed
<1>1. DriverTypes /\ DriverTypes' /\ TaskTypes
  BY DEF IInv
<1>2. ASSUME UNCHANGED <<txBuf, txData, txShift, wire>> PROVE TxStep
  BY <1>2 DEF TxStep, Tx!vars, TxPending
<1>3. ASSUME UNCHANGED <<rxBuf, got>> PROVE RxStep
  BY <1>3 DEF RxStep, Rx!vars
<1>4. ASSUME pc' = pc, left' = left PROVE AskedInv'
  BY <1>4 DEF AskedInv
<1>5. ASSUME left' = left, NEW t \in Tasks \cup {None}, NEW b \in NB,
             IF t # None /\ NotifySendFromISR(t, {b}) THEN TRUE ELSE pc' = pc
      PROVE  AskedInv'
  <2>1. CASE t # None /\ NotifySendFromISR(t, {b})
    <3>1. t \in Tasks /\ {b} \in SUBSET NB
      BY <2>1
    <3> QED BY <1>1, <1>5, <2>1, <3>1, AskedKept
  <2>2. CASE pc' = pc
    BY <1>4, <1>5, <2>2
  <2> QED BY <1>5, <2>1, <2>2
<1>6. "NB_IRQ" \in NB /\ "NB_EVENT" \in NB
      /\ rxTask \in Tasks \cup {None} /\ txTask \in Tasks \cup {None}
  BY <1>1, Names DEF NB, TaskTypes
<1>7. CASE Arrive \/ LoseTBE
  BY <1>2, <1>3, <1>4, <1>7 DEF Arrive, LoseTBE, buffers, hardware, request, Passed
<1>8. CASE ShiftOut
  <2>1. TxStep
    BY <1>1, <1>8, ShiftIsTake
  <2> QED BY <1>3, <1>4, <1>8, <2>1 DEF ShiftOut, buffers, request, Passed
<1>9. CASE \E i \in Interrupts : EnterIntr(i)
  BY <1>2, <1>3, <1>4, <1>9 DEF EnterIntr, buffers, hardware, request, Passed
<1>10. CASE SendTransmit \/ RecoverIntHandler
  <2>1. /\ Receive(rxBuf) /\ Feed(txBuf) /\ wire' = wire
        /\ UNCHANGED <<pc, left, got>>
    BY <1>10 DEF SendTransmit, RecoverIntHandler, SerialTransmit, request
  <2> QED BY <1>1, <1>4, <2>1, FeedIsSilent, ReceiveIsPut DEF Passed
<1>11. CASE RecvIntHandler
  <2>1. /\ Receive(rxBuf) /\ Feed(txBuf) /\ wire' = wire
        /\ UNCHANGED <<left, got>>
        /\ IF rxTask # None /\ NotifySendFromISR(rxTask, {"NB_IRQ"}) THEN TRUE ELSE pc' = pc
    BY <1>11 DEF RecvIntHandler, request
  <2>2. AskedInv'
    BY <1>5, <1>6, <2>1
  <2> QED BY <1>1, <2>1, <2>2, FeedIsSilent, ReceiveIsPut DEF Passed
<1>12. CASE SendNotify
  <2>1. /\ UNCHANGED <<rxBuf, txBuf, txData, txShift, wire, left, got>>
        /\ IF txTask # None /\ NotifySendFromISR(txTask, {"NB_IRQ"}) THEN TRUE ELSE pc' = pc
    BY <1>12 DEF SendNotify, buffers, hardware, request
  <2>2. AskedInv'
    BY <1>5, <1>6, <2>1
  <2> QED BY <1>2, <1>3, <2>1, <2>2 DEF Passed
<1>13. ASSUME NEW t \in Readers, NEW n \in ReadLens, NEW nb \in BOOLEAN,
              SerialRead(t, n, nb)
       PROVE  Passed
  <2>1. n \in Nat /\ n # 0 /\ ReadLoop(t, n, nb, tcb[t])
    BY <1>13 DEF SerialRead
  <2> QED BY <2>1, ReadLoopPassed
<1>14. ASSUME NEW t \in Writers, NEW n \in WriteLens, NEW nb \in BOOLEAN,
              SerialWrite(t, n, nb)
       PROVE  Passed
  <2>1. n \in Nat /\ WriteLoop(t, n, nb, tcb[t])
    BY <1>14 DEF SerialWrite
  <2> QED BY <2>1, WriteLoopPassed
<1>15. ASSUME NEW t \in Readers, ReadOn(t) PROVE Passed
  <2>1. pc[t] # "idle" /\ left[t] \in Nat
    BY <1>15, GoOnFacts, Names DEF ReadOn
  <2>2. left[t] # 0
    BY <2>1 DEF AskedInv
  <2> QED BY <1>15, <2>1, <2>2, ReadLoopPassed DEF ReadOn
<1>16. ASSUME NEW t \in Writers, WriteOn(t) PROVE Passed
  <2>1. t \in Tasks /\ left[t] \in Nat
    BY <1>1, Names DEF TaskTypes
  <2>2. CASE WriteLoop(t, left[t], nonblock[t], Fields(t))
    BY <2>1, <2>2, WriteLoopPassed
  <2>3. CASE ~ WriteLoop(t, left[t], nonblock[t], Fields(t))
    <3>1. /\ Return(t, Fields(t))
          /\ UNCHANGED <<rxBuf, txBuf, txData, txShift, wire, left, got>>
      BY <1>16, <2>3 DEF WriteOn, buffers, hardware, request
    <3>2. \A s \in Tasks : s # t => pc'[s] = pc[s] /\ left'[s] = left[s]
      BY <1>1, <3>1 DEF Return, TaskTypes
    <3>3. AskedInv'
      BY <1>1, <3>2, WriteAsked
    <3> QED BY <1>2, <1>3, <3>1, <3>3 DEF Passed
  <2> QED BY <2>2, <2>3
<1>17. ASSUME NEW t \in Tasks, OtherEvent(t) PROVE Passed
  <2>1. /\ UNCHANGED <<rxBuf, txBuf, txData, txShift, wire, left, got>>
        /\ NotifySendFromISR(t, {"NB_EVENT"})
    BY <1>17 DEF OtherEvent, buffers, hardware, request
  <2>2. {"NB_EVENT"} \in SUBSET NB
    BY <1>6
  <2>3. AskedInv'
    BY <1>1, <2>1, <2>2, AskedKept
  <2> QED BY <1>2, <1>3, <2>1, <2>3 DEF Passed
<1>18. CASE UNCHANGED vars
  BY <1>2, <1>3, <1>4, <1>18 DEF vars, buffers, hardware, request, Passed
<1> QED BY <1>7, <1>8, <1>9, <1>10, <1>11, <1>12, <1>13, <1>14, <1>15, <1>16, <1>17,
           <1>18 DEF Next, TaskStep

(* The serial driver implements a byte stream in either direction, whatever   *)
(* the sizes of rings and requests: bytes written leave the wire in order and *)
(* once, bytes that made it into rxBuf reach the readers in order and once    *)
(* (SerialTransmit and the handlers that call it, SerialRead, SerialWrite)    *)
THEOREM InOrderHolds == Spec => InOrder
<1>1. Init => AskedInv /\ Tx!Init /\ Rx!Init
  <2> SUFFICES ASSUME Init PROVE AskedInv /\ Tx!Init /\ Rx!Init
    OBVIOUS
  <2>1. WellFormed(rxBuf) /\ WellFormed(txBuf)
    BY InvInit DEF IInv, DriverTypes
  <2>2. rxBuf.count = 0 /\ txBuf.count = 0
    BY DEF Init, R!RingAlloc
  <2>3. R!Contents(rxBuf) = <<>> /\ R!Contents(txBuf) = <<>>
    BY <2>1, <2>2, ContentsFacts, EmptySeq
  <2>4. One(txShift) = <<>> /\ One(txData) = <<>> /\ One(wire) = <<>> /\ got = <<>>
    BY DEF Init, One
  <2>5. TxPending = <<>>
    BY <2>3, <2>4, NoBytes, EmptySeq DEF TxPending
  <2>6. AskedInv
    BY Names DEF Init, AskedInv
  <2> QED BY <2>3, <2>4, <2>5, <2>6 DEF Tx!Init, Rx!Init
<1>2. IInv /\ IInv' /\ AskedInv /\ [Next]_vars => AskedInv' /\ TxStep /\ RxStep
  BY StepPassed DEF Passed
<1> QED BY <1>1, <1>2, InvariantHolds, TypeCorrect, PTL
        DEF Spec, InOrder, TxInOrder, RxInOrder, Tx!Spec, Rx!Spec, TxStep, RxStep
==============================================================================
