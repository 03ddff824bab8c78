----------------------------- MODULE Tty_proofs -----------------------------
(* The line buffer of the terminal, for every size of the buffers, every      *)
(* request and every text, as long as it does not fill up: the line, what     *)
(* readers see of it, and when TtyTask sleeps                                 *)
EXTENDS Tty, FiniteSetTheorems, SequenceTheorems, TLAPS

USE TtyAssumption

(* the user never has a whole line buffer of characters waiting to be read    *)
NeverFull == TypeAhead < BufSiz

Chars == Keys \cup {"lf"}

(* What comes before eol has been processed, what comes before done is in the *)
(* line, and line and console hold no more than was typed ahead               *)
LineInv ==
  /\ line \in Seq(Chars) /\ rx \in Seq(Chars)
  /\ Len(line) + Len(rx) <= TypeAhead
  /\ eol \in Nat /\ done \in Nat
  /\ eol <= done /\ done <= Len(line)
  /\ eol # 0 => line[eol] = "lf"
  /\ readMp \in ReadLens \cup {None}

LEMMA Sizes ==
  /\ BufSiz \in Nat \ {0} /\ TypeAhead \in Nat
  /\ SizeT \in Nat /\ SizeT > 2 * BufSiz
  OBVIOUS

LEMMA SmallModulo ==
  ASSUME NEW a \in Nat, NEW b \in Nat, a < b
  PROVE  a % b = a
  OBVIOUS

LEMMA InitLine == Init => LineInv
  BY DEF Init, LineInv

LEMMA TypeStep ==
  ASSUME NEW c \in Keys, LineInv, Type(c)
  PROVE  LineInv'
<1>1. rx' \in Seq(Chars) /\ Len(rx') = Len(rx) + 1
  BY AppendProperties DEF LineInv, Type, Chars
<1>2. Len(line) + Len(rx) < TypeAhead /\ UNCHANGED <<line, eol, done, readMp>>
  BY DEF Type, ports, input
<1>3. Len(line) \in Nat /\ Len(rx) \in Nat
  BY DEF LineInv
<1> QED BY <1>1, <1>2, <1>3 DEF LineInv

LEMMA RxStep ==
  ASSUME LineInv, NeverFull, HandleRxReady
  PROVE  LineInv' /\ Len(line) <= Len(line')
<1> DEFINE n == Least(BufSiz - Len(line), Len(rx))
           new == SubSeq(rx, 1, n)
           old == SubSeq(rx, n + 1, Len(rx))
<1>1. line' = line \o new /\ rx' = old /\ UNCHANGED <<eol, done, readMp>>
  BY DEF HandleRxReady, ports
<1>2. Len(line) \in Nat /\ Len(rx) \in Nat
  BY DEF LineInv
<1>3. n \in Nat /\ n <= Len(rx)
  <2>1. BufSiz - Len(line) \in Nat
    BY <1>2, Sizes DEF LineInv, NeverFull
  <2> QED BY <1>2, <2>1 DEF Least
<1> HIDE DEF n
<1>4. new \in Seq(Chars) /\ Len(new) = n
  <2>1. \A i \in 1 .. n : rx[i] \in Chars
    BY <1>2, <1>3, ElementOfSeq DEF LineInv
  <2> QED BY <1>3, <2>1, SubSeqProperties
<1>5. old \in Seq(Chars) /\ Len(old) = Len(rx) - n
  <2>1. \A i \in n + 1 .. Len(rx) : rx[i] \in Chars
    BY <1>2, <1>3, ElementOfSeq DEF LineInv
  <2> QED BY <1>2, <1>3, <2>1, SubSeqProperties
<1> HIDE DEF new, old
<1>6. /\ line' \in Seq(Chars) /\ Len(line') = Len(line) + n
      /\ \A i \in 1 .. Len(line) : line'[i] = line[i]
  <2>1. /\ line \o new \in Seq(Chars)
        /\ Len(line \o new) = Len(line) + Len(new)
        /\ \A i \in 1 .. Len(line) + Len(new) :
             (line \o new)[i] = IF i <= Len(line) THEN line[i] ELSE new[i - Len(line)]
    BY <1>4, ConcatProperties DEF LineInv
  <2>2. \A i \in 1 .. Len(line) : i \in 1 .. Len(line) + Len(new) /\ i <= Len(line)
    BY <1>2, <1>3, <1>4
  <2> QED BY <1>1, <1>4, <2>1, <2>2
<1>7. /\ Len(line') + Len(rx') <= TypeAhead
      /\ done' <= Len(line') /\ Len(line) <= Len(line')
  BY <1>1, <1>2, <1>3, <1>5, <1>6, Sizes DEF LineInv
<1>8. eol' # 0 => line'[eol'] = "lf"
  BY <1>1, <1>2, <1>6 DEF LineInv
<1> QED BY <1>1, <1>5, <1>6, <1>7, <1>8 DEF LineInv

(* ProcessInput stops at the end of the line or before it                     *)
LEMMA EchoableRange ==
  ASSUME LineInv
  PROVE  Echoable \in Nat /\ done + Echoable <= Len(line)
<1> DEFINE all == 0 .. Len(line) - done - 1
           some == {k \in all : out + Echo(k) < BufSiz}
<1>1. Len(line) \in Nat /\ done \in Nat /\ done <= Len(line)
  BY DEF LineInv
<1>2. IsFiniteSet(all) /\ Cardinality(all) = Len(line) - done
  <2>1. /\ 0 \in Int /\ Len(line) - done - 1 \in Int
    BY <1>1
  <2>2. /\ IsFiniteSet(all)
        /\ Cardinality(all) = IF 0 > Len(line) - done - 1 THEN 0
                              ELSE (Len(line) - done - 1) - 0 + 1
    BY <2>1, FS_Interval
  <2> HIDE DEF all
  <2> QED BY <1>1, <2>2
<1>3. some \in SUBSET all
  OBVIOUS
<1> HIDE DEF all
<1>4. IsFiniteSet(some) /\ Cardinality(some) <= Cardinality(all)
  <2> HIDE DEF some
  <2> QED BY <1>2, <1>3, FS_Subset
<1>5. Cardinality(some) \in Nat
  <2> HIDE DEF some
  <2> QED BY <1>4, FS_CardinalityType
<1>6. Echoable = Cardinality(some)
  BY DEF Echoable, all
<1> HIDE DEF some
<1> QED BY <1>1, <1>2, <1>4, <1>5, <1>6

LEMMA ProcessStep ==
  ASSUME LineInv, ProcessInput
  PROVE  LineInv' /\ Len(line') = Len(line)
<1> DEFINE now == done + 1 .. done + Echoable
           ends == {i \in now : line[i] = "cr"}
<1>1. /\ done' = done + Echoable
      /\ line' = [i \in DOMAIN line |-> IF i \in ends THEN "lf" ELSE line[i]]
      /\ IF ends = {} THEN UNCHANGED eol
           ELSE eol' \in ends /\ \A i \in ends : i <= eol'
      /\ UNCHANGED <<readMp, rx>>
  BY DEF ProcessInput, ports, console
<1>2. Echoable \in Nat /\ done + Echoable <= Len(line)
  BY EchoableRange
<1>3. Len(line) \in Nat /\ DOMAIN line = 1 .. Len(line)
      /\ \A i \in 1 .. Len(line) : line[i] \in Chars
  BY ElementOfSeq DEF LineInv
<1>4. ends \subseteq done + 1 .. done + Echoable
  OBVIOUS
<1> HIDE DEF ends
<1>5. /\ line' \in Seq(Chars) /\ Len(line') = Len(line)
      /\ \A i \in 1 .. Len(line) : line'[i] = IF i \in ends THEN "lf" ELSE line[i]
  <2>1. \A i \in 1 .. Len(line) : (IF i \in ends THEN "lf" ELSE line[i]) \in Chars
    BY <1>3 DEF Chars
  <2>2. line' = [i \in 1 .. Len(line) |-> IF i \in ends THEN "lf" ELSE line[i]]
    BY <1>1, <1>3
  <2>3. line' \in [1 .. Len(line) -> Chars]
    BY <2>1, <2>2
  <2> QED BY <1>3, <2>2, <2>3
<1>6. CASE ends = {}
  <2>1. eol' = eol /\ done' \in Nat /\ eol' <= done' /\ done' <= Len(line')
    BY <1>1, <1>2, <1>5, <1>6 DEF LineInv
  <2>2. eol' # 0 => line'[eol'] = "lf"
    BY <1>3, <1>5, <2>1 DEF LineInv
  <2> QED BY <1>1, <1>5, <2>1, <2>2 DEF LineInv
<1>7. CASE ends # {}
  <2>1. eol' \in ends
    BY <1>1, <1>7
  <2>2. eol' \in done + 1 .. done + Echoable
    BY <1>4, <2>1
  <2>3. /\ eol' \in Nat /\ done' \in Nat
        /\ eol' <= done' /\ done' <= Len(line') /\ eol' \in 1 .. Len(line)
    BY <1>1, <1>2, <1>3, <1>5, <2>2 DEF LineInv
  <2>4. line'[eol'] = "lf"
    BY <1>5, <2>1, <2>3
  <2> QED BY <1>1, <1>5, <2>3, <2>4 DEF LineInv
<1> QED BY <1>6, <1>7

(* A read takes a prefix of what is ready, which ends at eol                  *)
LEMMA Removal ==
  ASSUME NEW n \in Nat, LineInv, NeverFull, n <= eol, Remove(n)
  PROVE  /\ line' \in Seq(Chars) /\ Len(line') = Len(line) - n
         /\ eol' = eol - n /\ done' = done - n
         /\ eol' # 0 => line'[eol'] = "lf"
<1>1. /\ line' = SubSeq(line, n + 1, Len(line))
      /\ eol' = (eol - n) % SizeT /\ done' = (done - n) % SizeT
  BY DEF Remove
<1>2. Len(line) \in Nat /\ Len(rx) \in Nat /\ n <= Len(line)
  BY DEF LineInv
<1>3. /\ line' \in Seq(Chars) /\ Len(line') = Len(line) - n
      /\ \A i \in 1 .. Len(line) - n : line'[i] = line[n + i]
  <2>1. \A i \in n + 1 .. Len(line) : line[i] \in Chars
    BY <1>2, ElementOfSeq DEF LineInv
  <2>2. /\ SubSeq(line, n + 1, Len(line)) \in Seq(Chars)
        /\ Len(SubSeq(line, n + 1, Len(line)))
              = IF n + 1 <= Len(line) THEN Len(line) - (n + 1) + 1 ELSE 0
        /\ \A i \in 1 .. Len(line) - (n + 1) + 1 :
             SubSeq(line, n + 1, Len(line))[i] = line[(n + 1) + i - 1]
    BY <1>2, <2>1, SubSeqProperties
  <2>3. Len(line) - (n + 1) + 1 = Len(line) - n
    BY <1>2
  <2>4. \A i \in 1 .. Len(line) - n : (n + 1) + i - 1 = n + i
    BY <1>2
  <2>5. SubSeq(line, n + 1, Len(line)) = line'
    BY <1>1
  <2>6. Len(line') = Len(line) - n
    BY <1>2, <2>2, <2>5
  <2>7. \A i \in 1 .. Len(line) - n : line'[i] = line[n + i]
    BY <2>2, <2>3, <2>4, <2>5
  <2> QED BY <2>2, <2>5, <2>6, <2>7
<1>4. eol' = eol - n /\ done' = done - n
  <2>1. /\ eol - n \in Nat /\ eol - n < SizeT
        /\ done - n \in Nat /\ done - n < SizeT
    BY <1>2, Sizes DEF LineInv, NeverFull
  <2> QED BY <1>1, <2>1, Sizes, SmallModulo
<1>5. ASSUME eol' # 0 PROVE line'[eol'] = "lf"
  <2>1. eol' \in 1 .. Len(line) - n /\ n + eol' = eol /\ eol # 0
    BY <1>2, <1>4, <1>5 DEF LineInv
  <2> QED BY <1>3, <2>1 DEF LineInv
<1> QED BY <1>3, <1>4, <1>5

(* A read that is served takes no more than what comes before eol             *)
LEMMA ServedPrefix ==
  ASSUME LineInv, NeverFull, Served
  PROVE  Least(readMp, Ready) \in Nat /\ Least(readMp, Ready) <= eol
<1>1. Ready = eol
  BY Sizes DEF Ready, LineInv, NeverFull
<1>2. readMp \in Nat
  BY DEF Served, LineInv
<1> QED BY <1>1, <1>2 DEF Least, LineInv

LEMMA ReadStep ==
  ASSUME LineInv, NeverFull, HandleReadReq
  PROVE  LineInv'
<1> DEFINE n == Least(readMp, Ready)
<1>1. rx' = rx
  BY DEF HandleReadReq, console
<1>2. CASE Served
  <2>1. Remove(n) /\ readMp' = None
    BY <1>2 DEF HandleReadReq
  <2>2. n \in Nat /\ n <= eol
    BY <1>2, ServedPrefix
  <2> HIDE DEF n
  <2>3. /\ line' \in Seq(Chars) /\ Len(line') = Len(line) - n
        /\ eol' = eol - n /\ done' = done - n
        /\ eol' # 0 => line'[eol'] = "lf"
    BY <2>1, <2>2, Removal
  <2>4. Len(line) \in Nat /\ Len(rx) \in Nat
    BY DEF LineInv
  <2> QED BY <1>1, <2>1, <2>2, <2>3, <2>4, Sizes DEF LineInv
<1>3. CASE ~Served
  <2>1. UNCHANGED <<line, eol, done, readMp>>
    BY <1>3 DEF HandleReadReq, input
  <2> QED BY <1>1, <2>1 DEF LineInv
<1> QED BY <1>2, <1>3

(* The other steps do not touch the line                                      *)
LEMMA OtherSteps ==
  ASSUME LineInv,
         \/ Drain \/ \E n \in ReadLens : TtyRead(n)
         \/ \E text \in Texts : TtyWrite(text)
         \/ TtyClose \/ \E p \in sent : NotifySend(p)
         \/ Start \/ Wake \/ HandleWriteReq \/ HandleTxReady \/ Quit
         \/ UNCHANGED vars
  PROVE  LineInv' /\ UNCHANGED <<line, eol, done>>
<1> USE DEF LineInv, input, console, ports
<1>1. CASE Drain
  BY <1>1 DEF Drain
<1>2. CASE \E n \in ReadLens : TtyRead(n)
  BY <1>2 DEF TtyRead
<1>3. CASE \E text \in Texts : TtyWrite(text)
  BY <1>3 DEF TtyWrite
<1>4. CASE TtyClose \/ Start \/ Wake
  BY <1>4 DEF TtyClose, Start, Wake
<1>5. CASE \E p \in sent : NotifySend(p)
  BY <1>5 DEF NotifySend
<1>6. CASE HandleWriteReq \/ HandleTxReady \/ Quit
  BY <1>6 DEF HandleWriteReq, HandleTxReady, Quit
<1>7. CASE UNCHANGED vars
  BY <1>7 DEF vars
<1> QED BY <1>1, <1>2, <1>3, <1>4, <1>5, <1>6, <1>7

LEMMA LineStep ==
  ASSUME LineInv, NeverFull, [Next]_vars
  PROVE  LineInv'
BY TypeStep, RxStep, ProcessStep, ReadStep, OtherSteps DEF Next, TaskStep

LEMMA LineInductive ==
  ASSUME NeverFull
  PROVE  Spec => []LineInv
<1>1. LineInv /\ [Next]_vars => LineInv'
  BY LineStep
<1> QED BY InitLine, <1>1, PTL DEF Spec

(* InputQueue::eol marks the end of a processed line at all times, whichever  *)
(* way typing, processing and reads of any length interleave, if the line     *)
(* buffer never fills                                                         *)
THEOREM EolMarksLineHolds ==
  ASSUME NeverFull
  PROVE  Spec => []EolMarksLine
<1>1. LineInv => EolMarksLine
  BY DEF LineInv, EolMarksLine
<1> QED BY <1>1, LineInductive, PTL

(* The comment in HandleReadReq is right about line buffers that never fill:  *)
(* nothing is removed from one before it has been processed                   *)
THEOREM RemovedOnlyProcessedHolds ==
  ASSUME NeverFull
  PROVE  Spec => RemovedOnlyProcessed
<1> DEFINE Kept == Len(line) - Len(line') <= done
<1>1. LineInv /\ [Next]_vars => [Kept]_vars
  <2> SUFFICES ASSUME LineInv, [Next]_vars PROVE Kept
    OBVIOUS
  <2>1. LineInv' /\ Len(line) \in Nat /\ done \in Nat
    BY LineStep DEF LineInv
  <2>2. Len(line') \in Nat
    BY <2>1 DEF LineInv
  <2>3. CASE line' = line
    BY <2>1, <2>3
  <2>4. CASE HandleReadReq /\ Served
    <3> DEFINE n == Least(readMp, Ready)
    <3>1. Remove(n)
      BY <2>4 DEF HandleReadReq
    <3>2. n \in Nat /\ n <= eol /\ eol \in Nat /\ eol <= done
      BY <2>4, ServedPrefix DEF LineInv
    <3> HIDE DEF n
    <3>3. Len(line') = Len(line) - n
      BY <3>1, <3>2, Removal
    <3> QED BY <2>1, <3>2, <3>3
  <2>5. CASE HandleReadReq /\ ~Served
    BY <2>3, <2>5 DEF HandleReadReq, input
  <2>6. CASE HandleRxReady
    BY <2>1, <2>2, <2>6, RxStep
  <2>7. CASE ProcessInput
    BY <2>1, <2>2, <2>7, ProcessStep
  <2>8. CASE \E c \in Keys : Type(c)
    BY <2>3, <2>8 DEF Type, input
  <2> QED BY <2>3, <2>4, <2>5, <2>6, <2>7, <2>8, OtherSteps DEF Next, TaskStep
<1> QED BY <1>1, LineInductive, PTL DEF Spec, RemovedOnlyProcessed

------------------------------------------------------------------------------
(* Sequences of characters *)

LEMMA Suffix ==
  ASSUME NEW c \in Seq(Chars), NEW n \in 0 .. Len(c)
  PROVE  /\ SubSeq(c, n + 1, Len(c)) \in Seq(Chars)
         /\ Len(SubSeq(c, n + 1, Len(c))) = Len(c) - n
         /\ \A i \in 1 .. Len(c) - n : SubSeq(c, n + 1, Len(c))[i] = c[n + i]
<1>1. Len(c) \in Nat /\ \A i \in n + 1 .. Len(c) : c[i] \in Chars
  BY ElementOfSeq
<1>2. /\ SubSeq(c, n + 1, Len(c)) \in Seq(Chars)
      /\ Len(SubSeq(c, n + 1, Len(c))) =
           IF n + 1 <= Len(c) THEN Len(c) - (n + 1) + 1 ELSE 0
      /\ \A i \in 1 .. Len(c) - (n + 1) + 1 :
           SubSeq(c, n + 1, Len(c))[i] = c[n + 1 + i - 1]
  BY <1>1, SubSeqProperties
<1>3. \A i \in 1 .. Len(c) - n : n + 1 + i - 1 = n + i
  BY <1>1
<1> QED BY <1>1, <1>2, <1>3

LEMMA Prefix ==
  ASSUME NEW c \in Seq(Chars), NEW n \in 0 .. Len(c)
  PROVE  /\ SubSeq(c, 1, n) \in Seq(Chars)
         /\ Len(SubSeq(c, 1, n)) = n
         /\ \A i \in 1 .. n : SubSeq(c, 1, n)[i] = c[i]
<1>1. Len(c) \in Nat /\ \A i \in 1 .. n : c[i] \in Chars
  BY ElementOfSeq
<1>2. /\ SubSeq(c, 1, n) \in Seq(Chars)
      /\ Len(SubSeq(c, 1, n)) = IF 1 <= n THEN n - 1 + 1 ELSE 0
      /\ \A i \in 1 .. n - 1 + 1 : SubSeq(c, 1, n)[i] = c[1 + i - 1]
  BY <1>1, SubSeqProperties
<1>3. \A i \in 1 .. n : 1 + i - 1 = i
  BY <1>1
<1> QED BY <1>1, <1>2, <1>3

LEMMA Joined ==
  ASSUME NEW c \in Seq(Chars), NEW d \in Seq(Chars)
  PROVE  /\ c \o d \in Seq(Chars) /\ Len(c \o d) = Len(c) + Len(d)
         /\ \A i \in 1 .. Len(c) + Len(d) :
              (c \o d)[i] = IF i <= Len(c) THEN c[i] ELSE d[i - Len(c)]
  BY ConcatProperties

------------------------------------------------------------------------------
(* What readers see of the line and of what the console has received *)

LEMMA VisibleFacts ==
  ASSUME NEW l \in Seq(Chars), NEW r \in Seq(Chars)
  PROVE  /\ Visible(l, r) \in Seq(Chars) /\ Len(Visible(l, r)) = Len(l) + Len(r)
         /\ Len(l) \in Nat /\ Len(r) \in Nat
         /\ \A i \in 1 .. Len(l) : Visible(l, r)[i] = Shown(l[i])
         /\ \A i \in 1 .. Len(r) : Visible(l, r)[Len(l) + i] = Shown(r[i])
<1>1. /\ l \o r \in Seq(Chars) /\ Len(l \o r) = Len(l) + Len(r)
      /\ \A i \in 1 .. Len(l) + Len(r) :
           (l \o r)[i] = IF i <= Len(l) THEN l[i] ELSE r[i - Len(l)]
  BY ConcatProperties
<1>2. Len(l) \in Nat /\ Len(r) \in Nat
  OBVIOUS
<1>3. \A c \in Chars : Shown(c) \in Chars
  BY DEF Shown, Chars
<1>4. \A i \in 1 .. Len(l) + Len(r) : (l \o r)[i] \in Chars
  BY <1>1, ElementOfSeq
<1>5. \A i \in 1 .. Len(l) + Len(r) : Shown((l \o r)[i]) \in Chars
  BY <1>3, <1>4
<1>6. /\ Visible(l, r) \in [1 .. Len(l) + Len(r) -> Chars]
      /\ \A i \in 1 .. Len(l) + Len(r) : Visible(l, r)[i] = Shown((l \o r)[i])
  BY <1>5 DEF Visible
<1>7. Visible(l, r) \in Seq(Chars) /\ Len(Visible(l, r)) = Len(l) + Len(r)
  <2> DEFINE n == Len(l) + Len(r)
             v == Visible(l, r)
  <2>1. n \in Nat /\ v \in [1 .. n -> Chars]
    BY <1>2, <1>6
  <2> HIDE DEF n, v
  <2>2. v \in Seq(Chars) /\ Len(v) = n
    BY <2>1
  <2> QED BY <2>2 DEF n, v
<1>8. \A i \in 1 .. Len(l) : Visible(l, r)[i] = Shown(l[i])
  <2> SUFFICES ASSUME NEW i \in 1 .. Len(l) PROVE Visible(l, r)[i] = Shown(l[i])
    OBVIOUS
  <2>1. i \in 1 .. Len(l) + Len(r) /\ i <= Len(l)
    BY <1>2
  <2>2. (l \o r)[i] = l[i]
    BY <1>1, <2>1
  <2> QED BY <1>6, <2>1, <2>2
<1>9. \A i \in 1 .. Len(r) : Visible(l, r)[Len(l) + i] = Shown(r[i])
  <2> SUFFICES ASSUME NEW i \in 1 .. Len(r)
               PROVE  Visible(l, r)[Len(l) + i] = Shown(r[i])
    OBVIOUS
  <2>1. /\ Len(l) + i \in 1 .. Len(l) + Len(r) /\ ~ (Len(l) + i <= Len(l))
        /\ Len(l) + i - Len(l) = i
    BY <1>2
  <2>2. (l \o r)[Len(l) + i] = r[i]
    BY <1>1, <2>1
  <2> QED BY <1>6, <2>1, <2>2
<1> QED BY <1>2, <1>7, <1>8, <1>9

(* two ways to see the same characters                                        *)
LEMMA SameVisible ==
  ASSUME NEW l \in Seq(Chars), NEW r \in Seq(Chars), NEW s \in Seq(Chars),
         Len(s) = Len(l) + Len(r),
         \A i \in 1 .. Len(l) : s[i] = Shown(l[i]),
         \A i \in 1 .. Len(r) : s[Len(l) + i] = Shown(r[i])
  PROVE  s = Visible(l, r)
<1> DEFINE v == Visible(l, r)
<1>1. /\ v \in Seq(Chars) /\ Len(v) = Len(l) + Len(r)
      /\ Len(l) \in Nat /\ Len(r) \in Nat
      /\ \A i \in 1 .. Len(l) : v[i] = Shown(l[i])
      /\ \A i \in 1 .. Len(r) : v[Len(l) + i] = Shown(r[i])
  BY VisibleFacts
<1> HIDE DEF v
<1>2. \A i \in 1 .. Len(s) : s[i] = v[i]
  <2> SUFFICES ASSUME NEW i \in 1 .. Len(s) PROVE s[i] = v[i]
    OBVIOUS
  <2>1. CASE i <= Len(l)
    <3>1. i \in 1 .. Len(l)
      BY <1>1, <2>1
    <3> QED BY <1>1, <3>1
  <2>2. CASE ~ (i <= Len(l))
    <3>1. i - Len(l) \in 1 .. Len(r) /\ Len(l) + (i - Len(l)) = i
      BY <1>1, <2>2
    <3>2. s[Len(l) + (i - Len(l))] = v[Len(l) + (i - Len(l))]
      BY <1>1, <3>1
    <3> QED BY <3>1, <3>2
  <2> QED BY <2>1, <2>2
<1>3. s = v
  BY <1>1, <1>2, SeqEqual
<1> QED BY <1>3 DEF v

LEMMA VisibleTyped ==
  ASSUME NEW l \in Seq(Chars), NEW r \in Seq(Chars), NEW c \in Keys
  PROVE  Visible(l, Append(r, c)) = Append(Visible(l, r), Shown(c))
<1> DEFINE v == Visible(l, r)
           rr == Append(r, c)
           s == Append(v, Shown(c))
<1>1. c \in Chars /\ Shown(c) \in Chars
  BY DEF Chars, Shown
<1>2. /\ v \in Seq(Chars) /\ Len(v) = Len(l) + Len(r)
      /\ Len(l) \in Nat /\ Len(r) \in Nat
      /\ \A i \in 1 .. Len(l) : v[i] = Shown(l[i])
      /\ \A i \in 1 .. Len(r) : v[Len(l) + i] = Shown(r[i])
  BY VisibleFacts
<1> HIDE DEF v
<1>3. /\ rr \in Seq(Chars) /\ Len(rr) = Len(r) + 1 /\ rr[Len(r) + 1] = c
      /\ \A i \in 1 .. Len(r) : rr[i] = r[i]
  BY <1>1, AppendProperties
<1>4. /\ s \in Seq(Chars) /\ Len(s) = Len(v) + 1 /\ s[Len(v) + 1] = Shown(c)
      /\ \A i \in 1 .. Len(v) : s[i] = v[i]
  BY <1>1, <1>2, AppendProperties
<1> HIDE DEF rr, s
<1>5. Len(s) = Len(l) + Len(rr)
  BY <1>2, <1>3, <1>4
<1>6. \A i \in 1 .. Len(l) : s[i] = Shown(l[i])
  BY <1>2, <1>4
<1>7. \A i \in 1 .. Len(rr) : s[Len(l) + i] = Shown(rr[i])
  <2> SUFFICES ASSUME NEW i \in 1 .. Len(rr) PROVE s[Len(l) + i] = Shown(rr[i])
    OBVIOUS
  <2>1. CASE i = Len(r) + 1
    <3>1. Len(l) + i = Len(v) + 1
      BY <1>2, <2>1
    <3> QED BY <1>3, <1>4, <2>1, <3>1
  <2>2. CASE i # Len(r) + 1
    <3>1. i \in 1 .. Len(r) /\ Len(l) + i \in 1 .. Len(v)
      BY <1>2, <1>3, <2>2
    <3> QED BY <1>2, <1>3, <1>4, <3>1
  <2> QED BY <2>1, <2>2
<1>8. s = Visible(l, rr)
  BY <1>3, <1>4, <1>5, <1>6, <1>7, SameVisible
<1> QED BY <1>8 DEF s, rr, v

LEMMA VisibleMoved ==
  ASSUME NEW l \in Seq(Chars), NEW r \in Seq(Chars), NEW n \in 0 .. Len(r)
  PROVE  Visible(l \o SubSeq(r, 1, n), SubSeq(r, n + 1, Len(r))) = Visible(l, r)
<1> DEFINE a == SubSeq(r, 1, n)
           b == SubSeq(r, n + 1, Len(r))
           la == l \o a
           v == Visible(l, r)
<1>1. /\ a \in Seq(Chars) /\ Len(a) = n /\ \A i \in 1 .. n : a[i] = r[i]
      /\ b \in Seq(Chars) /\ Len(b) = Len(r) - n
      /\ \A i \in 1 .. Len(r) - n : b[i] = r[n + i]
  BY Prefix, Suffix
<1>2. /\ v \in Seq(Chars) /\ Len(v) = Len(l) + Len(r)
      /\ Len(l) \in Nat /\ Len(r) \in Nat
      /\ \A i \in 1 .. Len(l) : v[i] = Shown(l[i])
      /\ \A i \in 1 .. Len(r) : v[Len(l) + i] = Shown(r[i])
  BY VisibleFacts
<1> HIDE DEF a, b, v
<1>3. /\ la \in Seq(Chars) /\ Len(la) = Len(l) + Len(a)
      /\ \A i \in 1 .. Len(l) + Len(a) :
           la[i] = IF i <= Len(l) THEN l[i] ELSE a[i - Len(l)]
  BY <1>1, Joined
<1> HIDE DEF la
<1>4. Len(v) = Len(la) + Len(b)
  BY <1>1, <1>2, <1>3
<1>5. \A i \in 1 .. Len(la) : v[i] = Shown(la[i])
  <2> SUFFICES ASSUME NEW i \in 1 .. Len(la) PROVE v[i] = Shown(la[i])
    OBVIOUS
  <2>1. i \in 1 .. Len(l) + Len(a)
    BY <1>3
  <2>2. CASE i <= Len(l)
    <3>1. i \in 1 .. Len(l)
      BY <1>2, <2>2
    <3> QED BY <1>2, <1>3, <2>1, <2>2, <3>1
  <2>3. CASE ~ (i <= Len(l))
    <3>1. /\ i - Len(l) \in 1 .. n /\ i - Len(l) \in 1 .. Len(r)
          /\ Len(l) + (i - Len(l)) = i
      BY <1>1, <1>2, <2>1, <2>3
    <3>2. la[i] = r[i - Len(l)]
      BY <1>1, <1>3, <2>1, <2>3, <3>1
    <3>3. v[Len(l) + (i - Len(l))] = Shown(r[i - Len(l)])
      BY <1>2, <3>1
    <3> QED BY <3>1, <3>2, <3>3
  <2> QED BY <2>2, <2>3
<1>6. \A i \in 1 .. Len(b) : v[Len(la) + i] = Shown(b[i])
  <2> SUFFICES ASSUME NEW i \in 1 .. Len(b) PROVE v[Len(la) + i] = Shown(b[i])
    OBVIOUS
  <2>1. n + i \in 1 .. Len(r) /\ Len(la) + i = Len(l) + (n + i)
    BY <1>1, <1>2, <1>3
  <2>2. b[i] = r[n + i] /\ v[Len(l) + (n + i)] = Shown(r[n + i])
    BY <1>1, <1>2, <2>1
  <2> QED BY <2>1, <2>2
<1>7. v = Visible(la, b)
  BY <1>1, <1>2, <1>3, <1>4, <1>5, <1>6, SameVisible
<1> QED BY <1>7 DEF v, la, a, b

LEMMA VisibleRest ==
  ASSUME NEW l \in Seq(Chars), NEW r \in Seq(Chars), NEW n \in 0 .. Len(l)
  PROVE  Visible(SubSeq(l, n + 1, Len(l)), r)
           = SubSeq(Visible(l, r), n + 1, Len(Visible(l, r)))
<1> DEFINE v == Visible(l, r)
           rest == SubSeq(l, n + 1, Len(l))
           s == SubSeq(v, n + 1, Len(v))
<1>1. /\ v \in Seq(Chars) /\ Len(v) = Len(l) + Len(r)
      /\ Len(l) \in Nat /\ Len(r) \in Nat
      /\ \A i \in 1 .. Len(l) : v[i] = Shown(l[i])
      /\ \A i \in 1 .. Len(r) : v[Len(l) + i] = Shown(r[i])
  BY VisibleFacts
<1> HIDE DEF v
<1>2. /\ rest \in Seq(Chars) /\ Len(rest) = Len(l) - n
      /\ \A i \in 1 .. Len(l) - n : rest[i] = l[n + i]
  BY Suffix
<1>3. n \in 0 .. Len(v)
  BY <1>1
<1>4. /\ s \in Seq(Chars) /\ Len(s) = Len(v) - n
      /\ \A i \in 1 .. Len(v) - n : s[i] = v[n + i]
  BY <1>1, <1>3, Suffix
<1> HIDE DEF rest, s
<1>5. Len(s) = Len(rest) + Len(r)
  BY <1>1, <1>2, <1>4
<1>6. \A i \in 1 .. Len(rest) : s[i] = Shown(rest[i])
  <2> SUFFICES ASSUME NEW i \in 1 .. Len(rest) PROVE s[i] = Shown(rest[i])
    OBVIOUS
  <2>1. i \in 1 .. Len(l) - n /\ i \in 1 .. Len(v) - n /\ n + i \in 1 .. Len(l)
    BY <1>1, <1>2
  <2> QED BY <1>1, <1>2, <1>4, <2>1
<1>7. \A i \in 1 .. Len(r) : s[Len(rest) + i] = Shown(r[i])
  <2> SUFFICES ASSUME NEW i \in 1 .. Len(r) PROVE s[Len(rest) + i] = Shown(r[i])
    OBVIOUS
  <2>1. Len(rest) + i \in 1 .. Len(v) - n /\ n + (Len(rest) + i) = Len(l) + i
    <3>1. \A a, b \in Nat : \A m \in 0 .. a, j \in 1 .. b :
            (a - m) + j \in 1 .. (a + b) - m /\ m + ((a - m) + j) = a + j
      OBVIOUS
    <3> QED BY <1>1, <1>2, <3>1
  <2>2. s[Len(rest) + i] = v[n + (Len(rest) + i)]
    BY <1>4, <2>1
  <2> QED BY <1>1, <2>1, <2>2
<1>8. s = Visible(rest, r)
  BY <1>2, <1>4, <1>5, <1>6, <1>7, SameVisible
<1> QED BY <1>8 DEF s, v, rest

(* the end of a line is shown as what it becomes when it is processed         *)
LEMMA VisibleProcessed ==
  ASSUME NEW l \in Seq(Chars), NEW r \in Seq(Chars), NEW k \in Seq(Chars),
         Len(k) = Len(l), \A i \in 1 .. Len(l) : Shown(k[i]) = Shown(l[i])
  PROVE  Visible(k, r) = Visible(l, r)
<1> DEFINE v == Visible(l, r)
<1>1. /\ v \in Seq(Chars) /\ Len(v) = Len(l) + Len(r)
      /\ Len(l) \in Nat /\ Len(r) \in Nat
      /\ \A i \in 1 .. Len(l) : v[i] = Shown(l[i])
      /\ \A i \in 1 .. Len(r) : v[Len(l) + i] = Shown(r[i])
  BY VisibleFacts
<1> HIDE DEF v
<1>2. /\ Len(v) = Len(k) + Len(r)
      /\ \A i \in 1 .. Len(k) : v[i] = Shown(k[i])
      /\ \A i \in 1 .. Len(r) : v[Len(k) + i] = Shown(r[i])
  BY <1>1
<1>3. v = Visible(k, r)
  BY <1>1, <1>2, SameVisible
<1> QED BY <1>3 DEF v

------------------------------------------------------------------------------
(* TtyTask stops only when it has been told to, and no character that has     *)
(* been processed is a carriage return                                        *)
ViewInv ==
  /\ quit \in BOOLEAN
  /\ pc \in {"quit", "returned"} => quit
  /\ \A i \in 1 .. done : line[i] # "cr"

LEMMA InitView == Init => ViewInv
<1> SUFFICES ASSUME Init PROVE ViewInv
  OBVIOUS
<1>1. quit = FALSE /\ pc = "start" /\ done = 0
  BY DEF Init
<1>2. \A i \in 1 .. done : FALSE
  BY <1>1
<1> QED BY <1>1, <1>2 DEF ViewInv

LEMMA ControlStep ==
  ASSUME ViewInv, [Next]_vars
  PROVE  quit' \in BOOLEAN /\ (pc' \in {"quit", "returned"} => quit')
<1> USE DEF ViewInv, ports
<1>1. CASE (\E c \in Keys : Type(c)) \/ Drain
  BY <1>1 DEF Type, Drain
<1>2. CASE (\E n \in ReadLens : TtyRead(n)) \/ TtyClose
  BY <1>2 DEF TtyRead, TtyClose
<1>3. CASE (\E text \in Texts : TtyWrite(text)) \/ (\E p \in sent : NotifySend(p))
  BY <1>3 DEF TtyWrite, NotifySend
<1>4. CASE Start \/ Wake \/ HandleRxReady \/ ProcessInput
  BY <1>4 DEF Start, Wake, HandleRxReady, ProcessInput
<1>5. CASE HandleReadReq \/ HandleWriteReq \/ HandleTxReady \/ Quit
  BY <1>5 DEF HandleReadReq, HandleWriteReq, HandleTxReady, Quit
<1>6. CASE UNCHANGED vars
  BY <1>6 DEF vars
<1> QED BY <1>1, <1>2, <1>3, <1>4, <1>5, <1>6 DEF Next, TaskStep

(* what the steps that change the line do to it                               *)
LEMMA RxLine ==
  ASSUME LineInv, NeverFull, HandleRxReady
  PROVE  /\ \A i \in 1 .. done : line'[i] = line[i]
         /\ Visible(line', rx') = Visible(line, rx)
<1> DEFINE n == Least(BufSiz - Len(line), Len(rx))
<1>1. line' = line \o SubSeq(rx, 1, n) /\ rx' = SubSeq(rx, n + 1, Len(rx))
  BY DEF HandleRxReady
<1>2. /\ Len(line) \in Nat /\ Len(rx) \in Nat /\ done \in Nat /\ done <= Len(line)
      /\ line \in Seq(Chars) /\ rx \in Seq(Chars)
  BY DEF LineInv
<1>3. n \in 0 .. Len(rx)
  <2>1. BufSiz - Len(line) \in Nat
    BY <1>2, Sizes DEF LineInv, NeverFull
  <2> QED BY <1>2, <2>1 DEF Least
<1> HIDE DEF n
<1>4. Visible(line', rx') = Visible(line, rx)
  BY <1>1, <1>2, <1>3, VisibleMoved
<1>5. SubSeq(rx, 1, n) \in Seq(Chars)
  BY <1>2, <1>3, Prefix
<1>6. \A i \in 1 .. Len(line) + Len(SubSeq(rx, 1, n)) :
         (line \o SubSeq(rx, 1, n))[i]
            = IF i <= Len(line) THEN line[i] ELSE SubSeq(rx, 1, n)[i - Len(line)]
  BY <1>2, <1>5, Joined
<1> DEFINE m == Len(SubSeq(rx, 1, n))
<1>7. m \in Nat
  BY <1>5
<1> HIDE DEF m
<1>8. \A i \in 1 .. done : i \in 1 .. Len(line) + m /\ i <= Len(line)
  BY <1>2, <1>7
<1> QED BY <1>1, <1>4, <1>6, <1>8 DEF m

LEMMA ProcessLine ==
  ASSUME LineInv, ViewInv, ProcessInput
  PROVE  /\ \A i \in 1 .. done' : line'[i] # "cr"
         /\ Visible(line', rx') = Visible(line, rx)
<1> DEFINE now == done + 1 .. done + Echoable
           ends == {i \in now : line[i] = "cr"}
<1>1. /\ done' = done + Echoable
      /\ line' = [i \in DOMAIN line |-> IF i \in ends THEN "lf" ELSE line[i]]
      /\ rx' = rx
  BY DEF ProcessInput, console
<1>2. Echoable \in Nat /\ done + Echoable <= Len(line)
  BY EchoableRange
<1>3. /\ Len(line) \in Nat /\ DOMAIN line = 1 .. Len(line) /\ done \in Nat
      /\ line \in Seq(Chars) /\ rx \in Seq(Chars)
  BY DEF LineInv
<1>4. \A i \in 1 .. Len(line) : line'[i] = IF i \in ends THEN "lf" ELSE line[i]
  <2> HIDE DEF ends
  <2> QED BY <1>1, <1>3
<1>5. \A i \in 1 .. Len(line) : Shown(line'[i]) = Shown(line[i])
  BY <1>4 DEF Shown
<1>6. line' \in Seq(Chars) /\ Len(line') = Len(line)
  BY ProcessStep DEF LineInv
<1>7. Visible(line', rx') = Visible(line, rx)
  BY <1>1, <1>3, <1>5, <1>6, VisibleProcessed
<1>8. \A i \in 1 .. done' : line'[i] # "cr"
  <2> SUFFICES ASSUME NEW i \in 1 .. done' PROVE line'[i] # "cr"
    OBVIOUS
  <2>1. i \in 1 .. Len(line)
    BY <1>1, <1>2, <1>3
  <2>2. CASE i <= done
    BY <1>3, <1>4, <2>1, <2>2 DEF ViewInv
  <2>3. CASE ~ (i <= done)
    <3>1. i \in now
      BY <1>1, <1>2, <1>3, <2>3
    <3> QED BY <1>4, <2>1, <3>1
  <2> QED BY <2>2, <2>3
<1> QED BY <1>7, <1>8

LEMMA ReadLine ==
  ASSUME LineInv, ViewInv, NeverFull, HandleReadReq
  PROVE  \A i \in 1 .. done' : line'[i] # "cr"
<1>1. CASE Served
  <2> DEFINE n == Least(readMp, Ready)
  <2>1. n \in Nat /\ n <= eol /\ Remove(n)
    BY <1>1, ServedPrefix DEF HandleReadReq
  <2> HIDE DEF n
  <2>2. /\ Len(line) \in Nat /\ eol <= done /\ done <= Len(line) /\ line \in Seq(Chars)
        /\ done \in Nat /\ eol \in Nat
    BY DEF LineInv
  <2>3. done' = done - n /\ line' = SubSeq(line, n + 1, Len(line))
    BY <2>1, Removal DEF Remove
  <2>4. n \in 0 .. Len(line)
    BY <2>1, <2>2
  <2>5. \A i \in 1 .. Len(line) - n : line'[i] = line[n + i]
    BY <2>2, <2>3, <2>4, Suffix
  <2>6. \A i \in 1 .. done' : i \in 1 .. Len(line) - n /\ n + i \in 1 .. done
    BY <2>1, <2>2, <2>3
  <2> QED BY <2>5, <2>6 DEF ViewInv
<1>2. CASE ~Served
  BY <1>2 DEF HandleReadReq, input, ViewInv
<1> QED BY <1>1, <1>2

LEMMA ViewStep ==
  ASSUME LineInv, ViewInv, NeverFull, [Next]_vars
  PROVE  ViewInv'
<1>1. \A i \in 1 .. done' : line'[i] # "cr"
  <2>1. CASE UNCHANGED <<line, done>>
    BY <2>1 DEF ViewInv
  <2>2. CASE HandleRxReady
    BY <2>2, RxLine DEF ViewInv, HandleRxReady
  <2>3. CASE ProcessInput
    BY <2>3, ProcessLine
  <2>4. CASE HandleReadReq
    BY <2>4, ReadLine
  <2>5. CASE \E c \in Keys : Type(c)
    BY <2>1, <2>5 DEF Type, input
  <2> QED BY <2>1, <2>2, <2>3, <2>4, <2>5, OtherSteps DEF Next, TaskStep
<1> QED BY <1>1, ControlStep DEF ViewInv

------------------------------------------------------------------------------
(* Every step is one of the terminal or changes nothing of it                 *)

TypedNow == IF pc = "returned" THEN <<>> ELSE Visible(line, rx)

LEMMA InitTerminal == Init => T!Init
<1> SUFFICES ASSUME Init PROVE T!Init
  OBVIOUS
<1>1. quit = FALSE /\ readMp = None /\ reply = <<>> /\ pc # "returned"
      /\ line = <<>> /\ rx = <<>>
  BY DEF Init
<1>2. Visible(<<>>, <<>>) = <<>>
  <2>1. <<>> \in Seq(Chars) /\ Len(<<>>) = 0
    OBVIOUS
  <2>2. /\ Visible(<<>>, <<>>) \in Seq(Chars)
        /\ Len(Visible(<<>>, <<>>)) = Len(<<>>) + Len(<<>>)
    BY <2>1, VisibleFacts
  <2> DEFINE v == Visible(<<>>, <<>>)
  <2>3. v \in Seq(Chars) /\ Len(v) = 0
    BY <2>1, <2>2
  <2> HIDE DEF v
  <2>4. v = <<>>
    BY <2>3, EmptySeq
  <2> QED BY <2>4 DEF v
<1> QED BY <1>1, <1>2 DEF T!Init

LEMMA TypeTerminal ==
  ASSUME LineInv, NEW c \in Keys, Type(c)
  PROVE  T!Next
<1>1. pc # "returned" /\ rx' = Append(rx, c)
      /\ UNCHANGED <<pc, line, quit, readMp, reply>>
  BY DEF Type, ports, input
<1>2. Visible(line, Append(rx, c)) = Append(Visible(line, rx), Shown(c))
  BY VisibleTyped DEF LineInv
<1>3. T!Type(Shown(c))
  BY <1>1, <1>2 DEF T!Type
<1> QED BY <1>3 DEF T!Next

LEMMA ReadTerminal ==
  ASSUME LineInv, ViewInv, NeverFull, HandleReadReq, Served
  PROVE  T!Next
<1> DEFINE n == Least(readMp, Ready)
           v == Visible(line, rx)
<1>1. /\ n \in Nat /\ n <= eol /\ Remove(n) /\ readMp' = None
      /\ pc = "read" /\ pc' = "write" /\ UNCHANGED <<quit, rx>>
  BY ServedPrefix DEF HandleReadReq, console
<1>2. n # 0 /\ (n = readMp \/ (n < readMp /\ n = eol)) /\ readMp # None
  <2>1. Ready = eol
    BY Sizes DEF Ready, LineInv, NeverFull
  <2>2. readMp \in Nat \ {0} /\ eol \in Nat
    BY DEF Served, LineInv
  <2> QED BY <2>1, <2>2 DEF Least, Served
<1> HIDE DEF n
<1>3. /\ Len(line) \in Nat /\ eol <= done /\ done <= Len(line)
      /\ line \in Seq(Chars) /\ rx \in Seq(Chars) /\ done \in Nat /\ eol \in Nat
      /\ eol # 0 => line[eol] = "lf"
  BY DEF LineInv
<1>4. n \in 0 .. Len(line)
  BY <1>1, <1>3
<1>5. /\ v \in Seq(Chars) /\ Len(v) = Len(line) + Len(rx) /\ Len(rx) \in Nat
      /\ \A i \in 1 .. Len(line) : v[i] = Shown(line[i])
  BY <1>3, VisibleFacts
<1>6. /\ line' = SubSeq(line, n + 1, Len(line)) /\ reply' = SubSeq(line, 1, n)
  BY <1>1 DEF Remove
<1>7. Visible(line', rx') = SubSeq(v, n + 1, Len(v))
  <2>1. Visible(SubSeq(line, n + 1, Len(line)), rx) = SubSeq(v, n + 1, Len(v))
    BY <1>3, <1>4, VisibleRest
  <2>2. rx' = rx
    BY <1>1
  <2> HIDE DEF v
  <2> QED BY <1>6, <2>1, <2>2
<1> HIDE DEF v
<1>8. \A i \in 1 .. n : v[i] = line[i]
  <2>1. \A i \in 1 .. n : i \in 1 .. done /\ i \in 1 .. Len(line)
    BY <1>1, <1>3
  <2>2. \A i \in 1 .. n : line[i] # "cr"
    BY <2>1 DEF ViewInv
  <2> QED BY <1>5, <2>1, <2>2 DEF Shown
<1>9. reply' = SubSeq(v, 1, n)
  <2> DEFINE a == SubSeq(line, 1, n)
             b == SubSeq(v, 1, n)
  <2>1. a \in Seq(Chars) /\ Len(a) = n /\ \A i \in 1 .. n : a[i] = line[i]
    BY <1>3, <1>4, Prefix
  <2>2. n \in 0 .. Len(v)
    BY <1>3, <1>4, <1>5
  <2>3. b \in Seq(Chars) /\ Len(b) = n /\ \A i \in 1 .. n : b[i] = v[i]
    BY <1>5, <2>2, Prefix
  <2>4. reply' = a
    BY <1>6
  <2> HIDE DEF a, b
  <2>5. a = b
    BY <1>8, <2>1, <2>3, SeqEqual
  <2> QED BY <2>4, <2>5 DEF b
<1>10. n \in 1 .. Len(v)
  BY <1>2, <1>3, <1>4, <1>5
<1>11. n < readMp => v[n] = "lf"
  <2> SUFFICES ASSUME n < readMp PROVE v[n] = "lf"
    OBVIOUS
  <2>1. n \in 1 .. n /\ readMp \in Nat
    BY <1>1, <1>2 DEF LineInv
  <2>2. n = eol
    BY <1>1, <1>2, <2>1
  <2> QED BY <1>2, <1>3, <1>8, <2>1, <2>2
<1>12. T!Read(n)
  <2>1. TypedNow = v /\ TypedNow' = Visible(line', rx')
    BY <1>1 DEF TypedNow, v
  <2> QED BY <1>1, <1>2, <1>7, <1>9, <1>11, <2>1 DEF T!Read, TypedNow
<1>13. n \in 1 .. Len(TypedNow)
  BY <1>1, <1>10 DEF TypedNow, v
<1> QED BY <1>12, <1>13 DEF T!Next, TypedNow

LEMMA ClientTerminal ==
  ASSUME ViewInv, TtyClose \/ \E n \in ReadLens : TtyRead(n)
  PROVE  T!Next
<1>1. CASE TtyClose
  <2>1. T!Close
    BY <1>1 DEF TtyClose, T!Close, input, console, ViewInv
  <2> QED BY <2>1 DEF T!Next
<1>2. CASE \E n \in ReadLens : TtyRead(n)
  <2>1. PICK n \in ReadLens : TtyRead(n)
    BY <1>2
  <2>2. T!Ask(n)
    BY <2>1 DEF TtyRead, T!Ask, input, console, ViewInv
  <2> QED BY <2>2 DEF T!Next
<1> QED BY <1>1, <1>2

LEMMA QuitTerminal ==
  ASSUME ViewInv, Quit
  PROVE  T!Next
<1>1. T!HangUp
  BY DEF Quit, T!HangUp, ViewInv
<1> QED BY <1>1 DEF T!Next

LEMMA QuietTerminal ==
  ASSUME LineInv, ViewInv, NeverFull,
         \/ Drain \/ \E text \in Texts : TtyWrite(text)
         \/ \E p \in sent : NotifySend(p)
         \/ Start \/ Wake \/ HandleRxReady \/ ProcessInput
         \/ HandleReadReq /\ ~Served
         \/ HandleWriteReq \/ HandleTxReady \/ UNCHANGED vars
  PROVE  UNCHANGED T!vars
<1> USE DEF input, console, ports, T!vars
<1>1. CASE UNCHANGED <<pc, quit, line, rx, readMp, reply>>
  BY <1>1
<1>2. CASE UNCHANGED <<quit, line, rx, readMp, reply>>
           /\ pc # "returned" /\ pc' # "returned"
  BY <1>2
<1>3. CASE Drain \/ (\E text \in Texts : TtyWrite(text)) \/ UNCHANGED vars
  BY <1>1, <1>3 DEF Drain, TtyWrite, vars
<1>4. CASE \E p \in sent : NotifySend(p)
  BY <1>1, <1>4 DEF NotifySend
<1>5. CASE Start \/ Wake \/ HandleWriteReq \/ HandleTxReady
  BY <1>2, <1>5 DEF Start, Wake, HandleWriteReq, HandleTxReady
<1>6. CASE HandleReadReq /\ ~Served
  BY <1>2, <1>6 DEF HandleReadReq
<1>7. CASE HandleRxReady
  BY <1>7, RxLine DEF HandleRxReady
<1>8. CASE ProcessInput
  BY <1>8, ProcessLine DEF ProcessInput
<1> QED BY <1>3, <1>4, <1>5, <1>6, <1>7, <1>8

LEMMA TerminalStep ==
  ASSUME LineInv, ViewInv, NeverFull, [Next]_vars
  PROVE  [T!Next]_T!vars
BY TypeTerminal, ReadTerminal, ClientTerminal, QuitTerminal, QuietTerminal
   DEF Next, TaskStep

(* Those who read from the terminal get what was typed, each character once   *)
(* and in order, and no more than a line at a time, if the line buffer never  *)
(* fills                                                                      *)
THEOREM TerminalImplemented ==
  ASSUME NeverFull
  PROVE  Spec => ImplementsTerminal
<1>1. LineInv /\ ViewInv /\ [Next]_vars => ViewInv'
  BY ViewStep
<1>2. LineInv /\ ViewInv /\ [Next]_vars => [T!Next]_T!vars
  BY TerminalStep
<1> QED BY InitView, InitTerminal, LineInductive, <1>1, <1>2, PTL
        DEF Spec, ImplementsTerminal, T!Spec

------------------------------------------------------------------------------
(* Wake-ups: what TtyTask leaves undone when it goes to sleep                 *)

TextWaits == writeMp # None /\ "writeMp" \notin sent

StoreInv ==
  /\ notified \in BOOLEAN
  /\ out \in Nat /\ tx \in 0 .. ConsoleRoom
  /\ writeMp # None => writeMp \in Seq({"char", "lf"})

(* what was received is noticed                                               *)
HeardInv ==
  rx # <<>> => early \/ notified \/ pc \in {"rx", "quit", "returned"}

(* what is not echoed, stored or sent waits for characters to leave           *)
EchoInv ==
  /\ pc = "start" => eol = 0 /\ done = Len(line) /\ out = 0
  /\ pc \in {"read", "write", "tx"} /\ done < Len(line) => out > 0
  /\ pc \in {"start", "tx"} /\ TextWaits => notified \/ out > 0
  /\ pc = "wait" /\ (done < Len(line) \/ out > 0 \/ TextWaits)
       => notified \/ tx > 0

(* a read that is not served has been looked at                               *)
AskedInv ==
  pc \in {"start", "write", "tx", "wait"} /\ readMp # None /\ "readMp" \notin sent
    => notified \/ eol = 0 \/ eol < done

ToldInv ==
  quit /\ "ctrlMp" \notin sent => notified \/ pc \in {"quit", "returned"}

StallInv == StoreInv /\ HeardInv /\ EchoInv /\ AskedInv /\ ToldInv

LEMMA RoomSize == ConsoleRoom \in Nat \ {0}
  OBVIOUS

LEMMA InitStall == Init => StallInv
<1> SUFFICES ASSUME Init PROVE StallInv
  OBVIOUS
<1> USE DEF Init
<1>1. StoreInv
  <2>1. 0 \in 0 .. ConsoleRoom
    BY RoomSize
  <2> QED BY <2>1 DEF StoreInv
<1>2. HeardInv /\ AskedInv /\ ToldInv
  BY DEF HeardInv, AskedInv, ToldInv
<1>3. EchoInv
  BY DEF EchoInv, TextWaits
<1> QED BY <1>1, <1>2, <1>3 DEF StallInv

LEMMA CellsRange ==
  ASSUME NEW S, NEW s \in Seq(S)
  PROVE  Cells(s) \in Nat /\ Len(s) <= Cells(s) /\ Cells(s) <= 2 * Len(s)
<1> DEFINE wide == {i \in DOMAIN s : s[i] # "char"}
<1>1. Len(s) \in Nat /\ DOMAIN s = 1 .. Len(s)
  OBVIOUS
<1>2. IsFiniteSet(1 .. Len(s)) /\ Cardinality(1 .. Len(s)) = Len(s)
  <2>1. /\ IsFiniteSet(1 .. Len(s))
        /\ Cardinality(1 .. Len(s)) = IF 1 > Len(s) THEN 0 ELSE Len(s) - 1 + 1
    <3>1. 1 \in Int /\ Len(s) \in Int
      BY <1>1
    <3> QED BY <3>1, FS_Interval
  <2> QED BY <1>1, <2>1
<1>3. wide \in SUBSET (1 .. Len(s))
  BY <1>1
<1> HIDE DEF wide
<1>4. IsFiniteSet(wide) /\ Cardinality(wide) <= Cardinality(1 .. Len(s))
  BY <1>2, <1>3, FS_Subset
<1>5. Cardinality(wide) \in Nat
  BY <1>4, FS_CardinalityType
<1>6. Cells(s) = Len(s) + Cardinality(wide)
  BY DEF Cells, wide
<1> QED BY <1>1, <1>2, <1>4, <1>5, <1>6

LEMMA PartCells ==
  ASSUME NEW S, NEW s \in Seq(S), NEW a \in Nat, NEW k \in Nat, a + k <= Len(s)
  PROVE  LET c == Cells(SubSeq(s, a + 1, a + k)) IN
         c \in Nat /\ k <= c /\ c <= 2 * k
<1> DEFINE p == SubSeq(s, a + 1, a + k)
<1>1. Len(s) \in Nat /\ \A i \in a + 1 .. a + k : s[i] \in S
  BY ElementOfSeq
<1>2. p \in Seq(S) /\ Len(p) = IF a + 1 <= a + k THEN a + k - (a + 1) + 1 ELSE 0
  BY <1>1, SubSeqProperties
<1>3. Len(p) = k
  BY <1>2
<1> HIDE DEF p
<1>4. Cells(p) \in Nat /\ Len(p) <= Cells(p) /\ Cells(p) <= 2 * Len(p)
  BY <1>2, CellsRange
<1> QED BY <1>3, <1>4 DEF p

(* ProcessInput leaves nothing behind unless there is something to be sent    *)
LEMMA Echoed ==
  ASSUME LineInv, StoreInv, ProcessInput
  PROVE  out' \in Nat /\ (done' < Len(line') => out' > 0)
<1> DEFINE all == 0 .. Len(line) - done - 1
           some == {k \in all : out + Echo(k) < BufSiz}
<1>1. /\ Len(line) \in Nat /\ done \in Nat /\ done <= Len(line)
      /\ line \in Seq(Chars) /\ out \in Nat
  BY DEF LineInv, StoreInv
<1>2. Echoable \in Nat /\ done + Echoable <= Len(line)
  BY EchoableRange
<1>3. Echo(Echoable) \in Nat /\ Echoable <= Echo(Echoable)
  BY <1>1, <1>2, PartCells DEF Echo
<1>4. Echo(0) = 0
  <2>1. 0 \in Nat /\ done + 0 <= Len(line)
    BY <1>1
  <2>2. Echo(0) \in Nat /\ Echo(0) <= 2 * 0
    BY <1>1, <2>1, PartCells DEF Echo
  <2> QED BY <2>2
<1>5. /\ done' = done + Echoable /\ out' = out + Echo(Echoable)
      /\ Len(line') = Len(line)
  BY ProcessStep DEF ProcessInput
<1>6. ASSUME done < Len(line), out < BufSiz
      PROVE  Echoable # 0
  <2>1. 0 \in some
    BY <1>1, <1>4, <1>6
  <2>2. IsFiniteSet(all)
    <3>1. 0 \in Int /\ Len(line) - done - 1 \in Int
      BY <1>1
    <3> QED BY <3>1, FS_Interval
  <2>3. some \in SUBSET all
    OBVIOUS
  <2> HIDE DEF all
  <2>4. IsFiniteSet(some)
    <3> HIDE DEF some
    <3> QED BY <2>2, <2>3, FS_Subset
  <2>5. Echoable = Cardinality(some)
    BY DEF Echoable, all
  <2> HIDE DEF some
  <2>6. Cardinality(some) # 0
    BY <2>1, <2>4, FS_EmptySet
  <2> QED BY <2>5, <2>6
<1> QED BY <1>1, <1>2, <1>3, <1>5, <1>6

(* StoreText leaves nothing behind unless there is something to be sent       *)
LEMMA Stored ==
  ASSUME StoreInv, NeverFull, writeMp # None, StoreText
  PROVE  /\ out' \in Nat /\ out <= out'
         /\ writeMp' # None => writeMp' \in Seq({"char", "lf"}) /\ out' > 0
<1> DEFINE w == writeMp
           all == 1 .. Len(w)
           some == {k \in DOMAIN w : out + Cells(SubSeq(w, 1, k)) <= BufSiz}
           n == Cardinality(some)
<1>1. /\ w \in Seq({"char", "lf"}) /\ Len(w) \in Nat /\ DOMAIN w = all
      /\ out \in Nat
  BY DEF StoreInv
<1>2. /\ out' = out + Cells(SubSeq(w, 1, n))
      /\ writeMp' = IF n = Len(w) THEN None ELSE SubSeq(w, n + 1, Len(w))
  BY DEF StoreText
<1> HIDE DEF w
<1>3. IsFiniteSet(all) /\ Cardinality(all) = Len(w)
  <2>1. /\ IsFiniteSet(all)
        /\ Cardinality(all) = IF 1 > Len(w) THEN 0 ELSE Len(w) - 1 + 1
    <3>1. 1 \in Int /\ Len(w) \in Int
      BY <1>1
    <3> QED BY <3>1, FS_Interval
  <2> HIDE DEF all
  <2> QED BY <1>1, <2>1
<1>4. some \in SUBSET all
  BY <1>1
<1>5. IsFiniteSet(some) /\ n <= Len(w) /\ n \in Nat
  <2> HIDE DEF all, some
  <2>1. IsFiniteSet(some) /\ Cardinality(some) <= Cardinality(all)
    BY <1>3, <1>4, FS_Subset
  <2>2. Cardinality(some) \in Nat
    BY <2>1, FS_CardinalityType
  <2> QED BY <1>3, <2>1, <2>2 DEF n
<1>6. \A k \in 0 .. Len(w) :
        LET c == Cells(SubSeq(w, 1, k)) IN c \in Nat /\ k <= c /\ c <= 2 * k
  <2> SUFFICES ASSUME NEW k \in 0 .. Len(w)
               PROVE  LET c == Cells(SubSeq(w, 1, k)) IN
                      c \in Nat /\ k <= c /\ c <= 2 * k
    OBVIOUS
  <2>1. k \in Nat /\ 0 \in Nat /\ 0 + k <= Len(w)
    BY <1>1
  <2>2. LET c == Cells(SubSeq(w, 0 + 1, 0 + k)) IN c \in Nat /\ k <= c /\ c <= 2 * k
    BY <1>1, <2>1, PartCells
  <2>3. 0 + 1 = 1 /\ 0 + k = k
    BY <2>1
  <2> QED BY <2>2, <2>3
<1>7. ASSUME n # Len(w), out = 0
      PROVE  n # 0
  <2>1. 1 \in 0 .. Len(w) /\ 1 \in DOMAIN w
    BY <1>1, <1>5, <1>7
  <2>2. Cells(SubSeq(w, 1, 1)) \in Nat /\ Cells(SubSeq(w, 1, 1)) <= 2
    BY <1>6, <2>1
  <2>3. BufSiz >= 2
    BY Sizes DEF NeverFull
  <2>4. 1 \in some
    BY <1>7, <2>1, <2>2, <2>3, Sizes
  <2> HIDE DEF some
  <2> QED BY <1>5, <2>4, FS_EmptySet DEF n
<1> HIDE DEF n
<1>8. LET c == Cells(SubSeq(w, 1, n)) IN c \in Nat /\ n <= c
  BY <1>5, <1>6
<1>9. ASSUME writeMp' # None
      PROVE  writeMp' \in Seq({"char", "lf"})
  <2>1. \A i \in n + 1 .. Len(w) : w[i] \in {"char", "lf"}
    BY <1>1, <1>5, ElementOfSeq
  <2>2. SubSeq(w, n + 1, Len(w)) \in Seq({"char", "lf"})
    BY <1>1, <1>5, <2>1, SubSeqProperties
  <2> QED BY <1>2, <1>9, <2>2
<1> DEFINE c == Cells(SubSeq(w, 1, n))
<1>10. c \in Nat /\ n <= c /\ out' = out + c
  BY <1>2, <1>8
<1> HIDE DEF c
<1>11. ASSUME writeMp' # None
       PROVE  out' > 0
  <2>1. n # Len(w)
    BY <1>2, <1>11
  <2>2. out = 0 => n # 0
    BY <1>7, <2>1
  <2>3. out \in Nat /\ n \in Nat
    BY <1>1, <1>5
  <2> QED BY <1>10, <2>2, <2>3
<1>12. out' \in Nat /\ out <= out'
  BY <1>1, <1>10
<1> QED BY <1>9, <1>11, <1>12

LEMMA StoreStep ==
  ASSUME LineInv, StoreInv, NeverFull, [Next]_vars
  PROVE  StoreInv'
<1> USE DEF StoreInv, ports, console
<1>1. CASE \E c \in Keys : Type(c)
  BY <1>1 DEF Type
<1>2. CASE Drain
  <2>1. tx > 0 /\ tx' = tx - 1 /\ UNCHANGED <<out, writeMp>>
    BY <1>2 DEF Drain
  <2>2. notified' \in BOOLEAN
    BY <1>2 DEF Drain
  <2> QED BY <2>1, <2>2, RoomSize
<1>3. CASE (\E n \in ReadLens : TtyRead(n)) \/ TtyClose
  BY <1>3 DEF TtyRead, TtyClose
<1>4. CASE \E text \in Texts : TtyWrite(text)
  BY <1>4 DEF TtyWrite
<1>5. CASE \E p \in sent : NotifySend(p)
  BY <1>5 DEF NotifySend
<1>6. CASE Start \/ Wake \/ HandleRxReady \/ HandleReadReq
  BY <1>6 DEF Start, Wake, HandleRxReady, HandleReadReq
<1>7. CASE ProcessInput
  BY <1>7, Echoed DEF ProcessInput
<1>8. CASE HandleWriteReq
  BY <1>8, Stored DEF HandleWriteReq
<1>9. CASE HandleTxReady
  <2> DEFINE n == Least(out, ConsoleRoom - tx)
  <2>1. n \in Nat /\ n <= out /\ n <= ConsoleRoom - tx
    BY RoomSize DEF Least
  <2>2. out' = out - n /\ tx' = tx + n /\ UNCHANGED <<notified, writeMp>>
    BY <1>9 DEF HandleTxReady
  <2> HIDE DEF n
  <2> QED BY <2>1, <2>2, RoomSize
<1>10. CASE Quit
  BY <1>10 DEF Quit
<1>11. CASE UNCHANGED vars
  BY <1>11 DEF vars
<1> QED BY <1>1, <1>2, <1>3, <1>4, <1>5, <1>6, <1>7, <1>8, <1>9, <1>10, <1>11
        DEF Next, TaskStep

LEMMA HeardStep ==
  ASSUME LineInv, StoreInv, HeardInv, NeverFull, [Next]_vars
  PROVE  HeardInv'
<1> USE DEF HeardInv, ports, console
<1>1. CASE \E c \in Keys : Type(c)
  BY <1>1 DEF Type, Listening
<1>2. CASE Drain
  BY <1>2 DEF Drain
<1>3. CASE (\E n \in ReadLens : TtyRead(n)) \/ TtyClose
  BY <1>3 DEF TtyRead, TtyClose
<1>4. CASE (\E text \in Texts : TtyWrite(text)) \/ (\E p \in sent : NotifySend(p))
  BY <1>4 DEF TtyWrite, NotifySend
<1>5. CASE Start \/ Wake
  BY <1>5 DEF Start, Wake
<1>6. CASE HandleRxReady
  <2> DEFINE n == Least(BufSiz - Len(line), Len(rx))
  <2>1. rx \in Seq(Chars) /\ Len(rx) \in Nat /\ n = Len(rx)
    BY Sizes DEF Least, LineInv, NeverFull
  <2>2. rx' = SubSeq(rx, n + 1, Len(rx))
    BY <1>6 DEF HandleRxReady
  <2> HIDE DEF n
  <2>3. n \in 0 .. Len(rx)
    BY <2>1
  <2>4. rx' \in Seq(Chars) /\ Len(rx') = Len(rx) - n
    BY <2>1, <2>2, <2>3, Suffix
  <2>5. rx' = <<>>
    BY <2>1, <2>4, EmptySeq
  <2> QED BY <2>5
<1>7. CASE ProcessInput \/ HandleReadReq \/ HandleWriteReq
  BY <1>7 DEF ProcessInput, HandleReadReq, HandleWriteReq
<1>8. CASE HandleTxReady \/ Quit
  BY <1>8 DEF HandleTxReady, Quit
<1>9. CASE UNCHANGED vars
  BY <1>9 DEF vars
<1> QED BY <1>1, <1>2, <1>3, <1>4, <1>5, <1>6, <1>7, <1>8, <1>9 DEF Next, TaskStep

LEMMA EchoStep ==
  ASSUME LineInv, StoreInv, EchoInv, NeverFull, [Next]_vars
  PROVE  EchoInv'
<1> USE DEF ports, console, input
<1>1. CASE \E c \in Keys : Type(c)
  BY <1>1 DEF Type, EchoInv, TextWaits, Listening
<1>2. CASE Drain
  <2>1. /\ UNCHANGED <<pc, ports, input, out>> /\ tx' \in Nat
        /\ notified' = TRUE \/ (tx' > 0 /\ notified' = notified)
    BY <1>2, RoomSize DEF Drain, StoreInv
  <2> QED BY <2>1 DEF EchoInv, TextWaits
<1>3. CASE (\E n \in ReadLens : TtyRead(n)) \/ TtyClose
  BY <1>3 DEF TtyRead, TtyClose, EchoInv, TextWaits
<1>4. CASE \E text \in Texts : TtyWrite(text)
  BY <1>4 DEF TtyWrite, EchoInv, TextWaits
<1>5. CASE \E p \in sent : NotifySend(p)
  BY <1>5 DEF NotifySend, EchoInv, TextWaits
<1>6. CASE Start
  <2>1. Len(line) \in Nat
    BY DEF LineInv
  <2> QED BY <1>6, <2>1 DEF Start, EchoInv, TextWaits, StoreInv
<1>7. CASE Wake \/ HandleRxReady \/ Quit
  BY <1>7 DEF Wake, HandleRxReady, Quit, EchoInv
<1>8. CASE ProcessInput
  BY <1>8, Echoed DEF ProcessInput, EchoInv
<1>9. CASE HandleReadReq
  <2>1. pc = "read" /\ pc' = "write" /\ out' = out
    BY <1>9 DEF HandleReadReq
  <2>2. done' < Len(line') => done < Len(line)
    <3>1. CASE Served
      <4> DEFINE n == Least(readMp, Ready)
      <4>1. n \in Nat /\ n <= eol /\ Remove(n)
        BY <1>9, <3>1, ServedPrefix DEF HandleReadReq
      <4> HIDE DEF n
      <4>2. Len(line') = Len(line) - n /\ done' = done - n
        BY <4>1, Removal
      <4>3. Len(line) \in Nat /\ done \in Nat
        BY DEF LineInv
      <4> QED BY <4>1, <4>2, <4>3
    <3>2. CASE ~Served
      BY <1>9, <3>2 DEF HandleReadReq
    <3> QED BY <3>1, <3>2
  <2> QED BY <2>1, <2>2 DEF EchoInv
<1>10. CASE HandleWriteReq
  <2>1. pc = "write" /\ pc' = "tx" /\ UNCHANGED <<line, done>>
    BY <1>10 DEF HandleWriteReq
  <2>2. out' \in Nat /\ out <= out' /\ (writeMp' # None => out' > 0)
    BY <1>10, Stored DEF HandleWriteReq, StoreInv
  <2>3. done < Len(line) => out > 0
    BY <2>1 DEF EchoInv
  <2>4. done' < Len(line') => out' > 0
    BY <2>1, <2>2, <2>3 DEF StoreInv
  <2> QED BY <2>1, <2>2, <2>4 DEF EchoInv, TextWaits
<1>11. CASE HandleTxReady
  <2> DEFINE n == Least(out, ConsoleRoom - tx)
  <2>1. /\ pc = "tx" /\ pc' = "wait" /\ out' = out - n /\ tx' = tx + n
        /\ UNCHANGED <<notified, line, done, writeMp, sent>>
    BY <1>11 DEF HandleTxReady
  <2>2. out > 0 => tx + n > 0
    BY RoomSize DEF Least, StoreInv
  <2>3. out \in Nat /\ n \in Nat /\ (out - n > 0 => out > 0)
    BY RoomSize DEF Least, StoreInv
  <2> HIDE DEF n
  <2>4. done < Len(line) \/ out' > 0 \/ TextWaits => notified \/ out > 0
    BY <2>1, <2>3 DEF EchoInv
  <2> QED BY <2>1, <2>2, <2>4 DEF EchoInv, TextWaits
<1>12. CASE UNCHANGED vars
  BY <1>12 DEF vars, EchoInv, TextWaits
<1> QED BY <1>1, <1>2, <1>3, <1>4, <1>5, <1>6, <1>7, <1>8, <1>9, <1>10, <1>11,
           <1>12 DEF Next, TaskStep

LEMMA AskedStep ==
  ASSUME LineInv, StoreInv, AskedInv, NeverFull, [Next]_vars
  PROVE  AskedInv'
<1> USE DEF AskedInv, ports, console, input
<1>1. CASE (\E c \in Keys : Type(c)) \/ Drain
  BY <1>1 DEF Type, Drain, StoreInv
<1>2. CASE \E n \in ReadLens : TtyRead(n)
  BY <1>2 DEF TtyRead
<1>3. CASE (\E text \in Texts : TtyWrite(text)) \/ TtyClose
  BY <1>3 DEF TtyWrite, TtyClose
<1>4. CASE \E p \in sent : NotifySend(p)
  BY <1>4 DEF NotifySend
<1>5. CASE Start \/ Wake \/ HandleRxReady \/ ProcessInput \/ Quit
  BY <1>5 DEF Start, Wake, HandleRxReady, ProcessInput, Quit
<1>6. CASE HandleReadReq
  <2>1. CASE Served
    BY <1>6, <2>1 DEF HandleReadReq
  <2>2. CASE ~Served
    <3>1. UNCHANGED <<eol, done, readMp, notified>>
      BY <1>6, <2>2 DEF HandleReadReq
    <3>2. readMp # None => eol = 0 \/ eol < done
      BY <2>2, Sizes DEF Served, Ready, LineInv, NeverFull
    <3> QED BY <3>1, <3>2
  <2> QED BY <2>1, <2>2
<1>7. CASE HandleWriteReq \/ HandleTxReady
  BY <1>7 DEF HandleWriteReq, HandleTxReady
<1>8. CASE UNCHANGED vars
  BY <1>8 DEF vars
<1> QED BY <1>1, <1>2, <1>3, <1>4, <1>5, <1>6, <1>7, <1>8 DEF Next, TaskStep

LEMMA ToldStep ==
  ASSUME StoreInv, ToldInv, [Next]_vars
  PROVE  ToldInv'
<1> USE DEF ToldInv, ports
<1>1. CASE (\E c \in Keys : Type(c)) \/ Drain
  BY <1>1 DEF Type, Drain
<1>2. CASE (\E n \in ReadLens : TtyRead(n)) \/ (\E text \in Texts : TtyWrite(text))
  BY <1>2 DEF TtyRead, TtyWrite
<1>3. CASE TtyClose \/ (\E p \in sent : NotifySend(p))
  BY <1>3 DEF TtyClose, NotifySend
<1>4. CASE Start \/ Wake \/ HandleRxReady \/ ProcessInput
  BY <1>4 DEF Start, Wake, HandleRxReady, ProcessInput
<1>5. CASE HandleReadReq \/ HandleWriteReq \/ HandleTxReady \/ Quit
  BY <1>5 DEF HandleReadReq, HandleWriteReq, HandleTxReady, Quit
<1>6. CASE UNCHANGED vars
  BY <1>6 DEF vars
<1> QED BY <1>1, <1>2, <1>3, <1>4, <1>5, <1>6 DEF Next, TaskStep

(* TtyTask never sleeps over work, if the line buffer never fills: what it    *)
(* leaves undone is left to the end of a transmission under way, to a line    *)
(* that is still to come, or to a call that is still to notify it             *)
THEOREM NoStallHolds ==
  ASSUME NeverFull
  PROVE  Spec => []NoStall
<1>1. LineInv /\ StallInv /\ [Next]_vars => StallInv'
  BY StoreStep, HeardStep, EchoStep, AskedStep, ToldStep DEF StallInv
<1>2. StallInv => NoStall
  <2> SUFFICES ASSUME StallInv, pc = "wait", ~notified PROVE NoStall
    BY DEF NoStall
  <2>1. rx = <<>> \/ early
    BY DEF StallInv, HeardInv
  <2>2. done < Len(line) \/ out > 0 \/ TextWaits => tx > 0
    BY DEF StallInv, EchoInv
  <2>3. readMp # None /\ "readMp" \notin sent => eol = 0 \/ eol < done
    BY DEF StallInv, AskedInv
  <2>4. quit => "ctrlMp" \in sent
    BY DEF StallInv, ToldInv
  <2> QED BY <2>1, <2>2, <2>3, <2>4 DEF NoStall, TextWaits
<1> QED BY InitStall, LineInductive, <1>1, <1>2, PTL DEF Spec
=============================================================================
