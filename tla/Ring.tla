-------------------------------- MODULE Ring --------------------------------
(* The ring buffer of kernel/ring.c as operators on its record.  RingRead and *)
(* RingWrite return the buffer and the bytes they moved.                      *)
EXTENDS Naturals, Sequences

CONSTANTS
  Size,  \* Ring::size
  Byte

Buffer == [head: 0 .. Size - 1, tail: 0 .. Size - 1, count: 0 .. Size,
           data: [0 .. Size - 1 -> Byte]]

(* What RingAlloc returns, whatever bytes the memory held                     *)
RingAlloc(bytes) == [head |-> 0, tail |-> 0, count |-> 0, data |-> bytes]

RingEmpty(buf) == buf.count = 0
RingFull(buf) == buf.count = Size

Wrap(i) == IF i = Size THEN 0 ELSE i

RingProduce(buf, len) ==
  [buf EXCEPT !.count = @ + len, !.head = Wrap(@ + len)]

RingConsume(buf, len) ==
  [buf EXCEPT !.count = @ - len, !.tail = Wrap(@ + len)]

RingPutByte(buf, byte) ==
  RingProduce([buf EXCEPT !.data[buf.head] = byte], 1)

(* Definitions named Fault... are plausible slips in the code they stand      *)
(* beside; the model never uses them.  Fault: the byte at the wrong end       *)
FaultGetByte(buf) == buf.data[buf.head]

RingGetByte(buf) == buf.data[buf.tail]

AtMost(m, n) == IF m < n THEN m ELSE n

(* The space the loop of RingRead, of RingWrite handles in one iteration      *)
UsedChunk(buf) ==
  IF RingEmpty(buf) THEN 0
  ELSE IF buf.tail < buf.head THEN buf.head - buf.tail ELSE Size - buf.tail

FreeChunk(buf) ==
  IF RingFull(buf) THEN 0
  ELSE IF buf.head < buf.tail THEN buf.tail - buf.head ELSE Size - buf.head

ReadChunk(buf, left) ==
  LET n == AtMost(UsedChunk(buf), left)
  IN  [buf |-> RingConsume(buf, n),
       bytes |-> [i \in 1 .. n |-> buf.data[buf.tail + i - 1]]]

WriteChunk(buf, bytes) ==
  LET n == AtMost(FreeChunk(buf), Len(bytes))
  IN  [buf |-> RingProduce([buf EXCEPT !.data =
                 [i \in 0 .. Size - 1 |->
                    IF i \in buf.head .. buf.head + n - 1
                      THEN bytes[i - buf.head + 1] ELSE @[i]]], n),
       left |-> SubSeq(bytes, n + 1, Len(bytes))]

(* The space is in two parts at most, so two iterations do all the work: one  *)
(* more would find the request served, or the buffer empty or full            *)
RingRead(buf, left) ==
  LET one == ReadChunk(buf, left)
      two == ReadChunk(one.buf, left - Len(one.bytes))
  IN  [buf |-> two.buf, bytes |-> one.bytes \o two.bytes]

RingWrite(buf, bytes) ==
  LET one == WriteChunk(buf, bytes) IN WriteChunk(one.buf, one.left)

(* The bytes in the buffer, oldest first                                      *)
Contents(buf) ==
  [i \in 1 .. buf.count |->
     buf.data[IF buf.tail + i - 1 < Size THEN buf.tail + i - 1
              ELSE buf.tail + i - 1 - Size]]
=============================================================================
