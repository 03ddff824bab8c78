-------------------------------- MODULE Tty --------------------------------
(* The terminal driver (drivers/tty.c) between its clients and the serial     *)
(* port, from TtyOpen to TtyClose.  One action is one step of TtyTask, one    *)
(* half of a client's call (DoMsg puts its message into the port, then        *)
(* notifies the task) or one thing the serial interrupts do.  A task that     *)
(* waits until a port is free has not called yet, and the next call comes     *)
(* after the notification of the one before it.                               *)
(*                                                                            *)
(* NotifyWait is one step, taken once a bit is on.  TtyTask waits for both    *)
(* NB_MSGPORT and NB_EVENT, gets no others, and does not look which it was.   *)
EXTENDS Naturals, Sequences, FiniteSets

CONSTANTS
  BufSiz,      \* BUFSIZ
  SizeT,       \* a size_t holds 0 .. SizeT - 1
  Keys,        \* the kinds of characters that are typed
  TypeAhead,   \* bound on the characters typed and not read yet
  ReadLens,    \* the lengths of read requests
  Texts,       \* what is written, as sequences of "char" and "lf"
  ConsoleRoom, \* the characters the console's transmit side holds
  None

ASSUME TtyAssumption ==
  /\ {BufSiz, TypeAhead, ConsoleRoom} \subseteq Nat \ {0}
  /\ SizeT \in Nat /\ SizeT > 2 * BufSiz
  /\ Keys \subseteq {"char", "cr", "ctl"}
  /\ ReadLens \subseteq Nat \ {0}
  /\ Texts \subseteq Seq({"char", "lf"}) \ {<<>>}
  /\ None \notin Nat \cup Texts

VARIABLES
  pc, notified,    \* TtyTask, and whether it has a notification bit on
  readMp, writeMp, \* what is left of the request in the port, or None
  quit,            \* QUIT is in ctrlMp
  sent,            \* the ports whose sender has not notified the task yet
  line, eol, done, \* InputQueue_t, line being buf[0 .. len - 1]
  out,             \* OutputQueue_t::len
  rx, tx,          \* characters the console has received, has yet to send
  early,           \* some of rx came before TtyTask listened
  reply            \* what the last read copied to its caller's buffer

input == <<line, eol, done>>
console == <<rx, tx, early>>
ports == <<readMp, writeMp, quit, sent>>
vars == <<pc, notified, ports, input, out, console, reply>>

Least(a, b) == IF a < b THEN a ELSE b

(* The number of characters that show s: control characters and DEL as "^"    *)
(* and another one, the end of a line as CR and LF                            *)
Cells(s) == Len(s) + Cardinality({i \in DOMAIN s : s[i] # "char"})

(* TtyOpen, during which no other task runs *)
Init ==
  /\ pc = "start" /\ notified = FALSE
  /\ readMp = None /\ writeMp = None /\ quit = FALSE /\ sent = {}
  /\ line = <<>> /\ eol = 0 /\ done = 0
  /\ out = 0
  /\ rx = <<>> /\ tx = 0 /\ early = FALSE
  /\ reply = <<>>

----------------------------------------------------------------------------
(* The serial port.  It notifies TtyTask once that listens.                   *)

Listening == pc \notin {"start", "returned"}

Type(c) ==
  /\ pc # "returned"
  /\ Len(line) + Len(rx) < TypeAhead
  /\ rx' = Append(rx, c)
  /\ IF Listening
       THEN notified' = TRUE /\ UNCHANGED early
       ELSE early' = TRUE /\ UNCHANGED notified
  /\ UNCHANGED <<pc, ports, input, out, tx, reply>>

(* A character leaves.  The transmit interrupt notifies those who listen when *)
(* it finds the ring buffer empty: surely when the last character is gone,    *)
(* and also when that is on its way                                           *)
Drain ==
  /\ pc # "returned"
  /\ tx > 0
  /\ tx' = tx - 1
  /\ \/ tx' <= 1 /\ notified' = TRUE
     \/ tx' > 0 /\ UNCHANGED notified
  /\ UNCHANGED <<pc, ports, input, out, rx, early, reply>>

----------------------------------------------------------------------------
(* Clients *)

TtyRead(n) ==
  /\ ~quit
  /\ readMp = None /\ "readMp" \notin sent
  /\ readMp' = n
  /\ sent' = sent \cup {"readMp"}
  /\ reply' = <<>>
  /\ UNCHANGED <<pc, notified, writeMp, quit, input, out, console>>

TtyWrite(text) ==
  /\ ~quit
  /\ writeMp = None /\ "writeMp" \notin sent
  /\ writeMp' = text
  /\ sent' = sent \cup {"writeMp"}
  /\ UNCHANGED <<pc, notified, readMp, quit, input, out, console, reply>>

(* by then no call is between its two steps, and no new one is made *)
TtyClose ==
  /\ ~quit /\ sent = {}
  /\ quit' = TRUE
  /\ sent' = {"ctrlMp"}
  /\ UNCHANGED <<pc, notified, readMp, writeMp, input, out, console, reply>>

NotifySend(p) ==
  /\ p \in sent
  /\ sent' = sent \ {p}
  /\ notified' = TRUE
  /\ UNCHANGED <<pc, readMp, writeMp, quit, input, out, console, reply>>

----------------------------------------------------------------------------
(* TtyTask *)

Start ==
  /\ pc = "start"
  /\ pc' = "wait"
  /\ UNCHANGED <<notified, ports, input, out, console, reply>>

(* Once eol or done has wrapped around, the code copies memory that is not    *)
(* the line's: TtyTask goes no further here                                   *)
WithinLine == eol <= Len(line) /\ done <= Len(line)

(* NotifyWait, and the look into ctrlMp *)
Wake ==
  /\ pc = "wait"
  /\ WithinLine
  /\ notified
  /\ notified' = FALSE
  /\ pc' = IF quit THEN "quit" ELSE "rx"
  /\ UNCHANGED <<ports, input, out, console, reply>>

HandleRxReady ==
  LET n == Least(BufSiz - Len(line), Len(rx)) IN
  /\ pc = "rx"
  /\ pc' = "process"
  /\ line' = line \o SubSeq(rx, 1, n)
  /\ rx' = SubSeq(rx, n + 1, Len(rx))
  /\ early' = FALSE
  /\ UNCHANGED <<notified, ports, eol, done, out, tx, reply>>

(* One character after the other is echoed as long as there is room for one   *)
Echo(k) == Cells(SubSeq(line, done + 1, done + k))

Echoable ==
  Cardinality({k \in 0 .. Len(line) - done - 1 : out + Echo(k) < BufSiz})

(* Definitions named Fault... are plausible slips in the code they stand      *)
(* beside.  No specification uses them.                                       *)

(* Fault: the line ends where processing does *)
FaultProcessInput ==
  LET now == done + 1 .. done + Echoable
      ends == {i \in now : line[i] = "cr"}
  IN  /\ pc = "process"
      /\ pc' = "read"
      /\ done' = done + Echoable
      /\ out' = out + Echo(Echoable)
      /\ line' = [i \in DOMAIN line |-> IF i \in ends THEN "lf" ELSE line[i]]
      /\ eol' = IF ends = {} THEN eol ELSE done'
      /\ UNCHANGED <<notified, ports, console, reply>>

ProcessInput ==
  LET now == done + 1 .. done + Echoable
      ends == {i \in now : line[i] = "cr"}
  IN  /\ pc = "process"
      /\ pc' = "read"
      /\ done' = done + Echoable
      /\ out' = out + Echo(Echoable)
      /\ line' = [i \in DOMAIN line |-> IF i \in ends THEN "lf" ELSE line[i]]
      /\ IF ends = {} THEN UNCHANGED eol
           ELSE eol' \in ends /\ \A i \in ends : i <= eol'
      /\ UNCHANGED <<notified, ports, console, reply>>

(* How much of the line is ready to be read *)
Ready == IF Len(line) = BufSiz THEN BufSiz ELSE eol

(* Fault: a request for less than a line is never served *)
FaultServed == readMp # None /\ Ready # 0 /\ ~(Ready < done) /\ readMp >= Ready

Served == readMp # None /\ Ready # 0 /\ ~(Ready < done)

(* Fault: the characters that have not been processed go along *)
FaultTakeAll(n) ==
  /\ reply' = line
  /\ line' = <<>>
  /\ eol' = 0
  /\ done' = 0

(* Fault: the end of the line does not move along *)
FaultKeepEol(n) ==
  /\ reply' = SubSeq(line, 1, n)
  /\ line' = SubSeq(line, n + 1, Len(line))
  /\ done' = (done - n) % SizeT
  /\ UNCHANGED eol

(* Copy n characters out of the line and move the rest to its front *)
Remove(n) ==
  /\ reply' = SubSeq(line, 1, n)
  /\ line' = SubSeq(line, n + 1, Len(line))
  /\ eol' = (eol - n) % SizeT
  /\ done' = (done - n) % SizeT

HandleReadReq ==
  /\ pc = "read"
  /\ pc' = "write"
  /\ IF Served
       THEN Remove(Least(readMp, Ready)) /\ readMp' = None
       ELSE UNCHANGED <<input, reply, readMp>>
  /\ UNCHANGED <<notified, writeMp, quit, sent, out, console>>

(* Fault: a text that does not fit starts again from its beginning            *)
FaultStartAgain ==
  LET n == Cardinality({k \in DOMAIN writeMp :
                          out + Cells(SubSeq(writeMp, 1, k)) <= BufSiz})
  IN  /\ out' = out + Cells(SubSeq(writeMp, 1, n))
      /\ writeMp' = IF n = Len(writeMp) THEN None ELSE writeMp

(* Store what fits of the text; the request is answered once all of it did    *)
StoreText ==
  LET n == Cardinality({k \in DOMAIN writeMp :
                          out + Cells(SubSeq(writeMp, 1, k)) <= BufSiz})
  IN  /\ out' = out + Cells(SubSeq(writeMp, 1, n))
      /\ writeMp' = IF n = Len(writeMp) THEN None
                    ELSE SubSeq(writeMp, n + 1, Len(writeMp))

HandleWriteReq ==
  /\ pc = "write"
  /\ pc' = "tx"
  /\ IF writeMp # None THEN StoreText ELSE UNCHANGED <<out, writeMp>>
  /\ UNCHANGED <<notified, readMp, quit, sent, input, console, reply>>

HandleTxReady ==
  LET n == Least(out, ConsoleRoom - tx) IN
  /\ pc = "tx"
  /\ pc' = "wait"
  /\ out' = out - n
  /\ tx' = tx + n
  /\ UNCHANGED <<notified, ports, input, rx, early, reply>>

(* Stop listening, abort the requests and answer QUIT.  TtyTask then returns, *)
(* to address 0; what becomes of that is not modelled                         *)
Quit ==
  /\ pc = "quit"
  /\ pc' = "returned"
  /\ readMp' = None /\ writeMp' = None
  /\ UNCHANGED <<notified, quit, sent, input, out, console, reply>>

TaskStep ==
  \/ Start \/ Wake
  \/ HandleRxReady \/ ProcessInput \/ HandleReadReq
  \/ HandleWriteReq \/ HandleTxReady
  \/ Quit

Next ==
  \/ \E c \in Keys : Type(c)
  \/ Drain
  \/ \E n \in ReadLens : TtyRead(n)
  \/ \E text \in Texts : TtyWrite(text)
  \/ TtyClose
  \/ \E p \in sent : NotifySend(p)
  \/ TaskStep

Spec == Init /\ [][Next]_vars

(* TtyTask gets to run, the serial port sends what it is given, and a client  *)
(* in the middle of a call goes on with it                                    *)
FairSpec ==
  /\ Spec
  /\ WF_vars(TaskStep)
  /\ WF_vars(Drain)
  /\ \A p \in {"readMp", "writeMp", "ctrlMp"} : WF_vars(NotifySend(p))

----------------------------------------------------------------------------
(* Properties *)

TypeOK ==
  /\ pc \in {"start", "wait", "rx", "process", "read", "write", "tx", "quit",
             "returned"}
  /\ notified \in BOOLEAN
  /\ readMp \in ReadLens \cup {None}
  /\ writeMp = None \/ writeMp \in Seq({"char", "lf"}) \ {<<>>}
  /\ quit \in BOOLEAN
  /\ sent \subseteq {"readMp", "writeMp", "ctrlMp"}
  /\ line \in Seq(Keys \cup {"lf"}) /\ Len(line) <= BufSiz
  /\ eol \in 0 .. SizeT - 1 /\ done \in 0 .. SizeT - 1
  /\ out \in 0 .. BufSiz + 1
  /\ rx \in Seq(Keys) /\ tx \in 0 .. ConsoleRoom
  /\ early \in BOOLEAN
  /\ reply \in Seq(Keys \cup {"lf"})

(* TtyTask never sleeps over work: if characters wait to be echoed or sent,   *)
(* or text to be stored, the console is still sending and will wake it up;    *)
(* what the console received came before TtyTask listened; and a read that is *)
(* not answered has no line to return, or one behind which characters have    *)
(* already been processed                                                     *)
NoStall ==
  pc = "wait" /\ ~notified =>
    /\ rx = <<>> \/ early
    /\ done < Len(line) \/ out > 0 \/ (writeMp # None /\ "writeMp" \notin sent)
         => tx > 0
    /\ readMp # None /\ "readMp" \notin sent => eol = 0 \/ eol < done
    /\ quit => "ctrlMp" \in sent

(* InputQueue::eol counts the characters up to an end of line in the line,    *)
(* whichever parts of it have been read, and those have been processed        *)
EolMarksLine ==
  eol # 0 => eol <= done /\ done <= Len(line) /\ line[eol] = "lf"

(* HandleReadReq: "All characters typed in by the user must be processed      *)
(* before they are removed from the line buffer"                              *)
RemovedOnlyProcessed ==
  [][Len(line) - Len(line') <= done]_vars

(* The assertion of StoreChar: a character is stored where there is room, so  *)
(* that it does not overwrite one that has not been sent                      *)
OutputFits == out <= BufSiz

(* If the user stops typing, every write is answered, and so is every read,   *)
(* unless the last character typed is not an end of line                      *)
EndsWithLine ==
  LET typed == line \o rx IN
  typed # <<>> /\ typed[Len(typed)] \in {"cr", "lf"}

CallsAnswered ==
  <>[][\A c \in Keys : ~Type(c)]_vars =>
    /\ (writeMp # None) ~> (writeMp = None)
    /\ (readMp # None) ~> (readMp = None \/ ~EndsWithLine)

(* The terminal is what its readers take it for *)
Shown(c) == IF c = "cr" THEN "lf" ELSE c

(* What they see of the line l and of what the console has received, r *)
Visible(l, r) == [i \in 1 .. Len(l) + Len(r) |-> Shown((l \o r)[i])]

T == INSTANCE Terminal WITH
  Text <- {Shown(c) : c \in Keys},
  LineFeed <- "lf",
  open <- ~quit,
  typed <- IF pc = "returned" THEN <<>> ELSE Visible(line, rx),
  request <- readMp

ImplementsTerminal == T!Spec
=============================================================================
