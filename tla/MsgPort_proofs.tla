--------------------------- MODULE MsgPort_proofs ---------------------------
(* NotifyWait loses no bit and sleeps over none, for every width of the tick  *)
(* counter and every timeout, portMAX_DELAY and a counter that wraps          *)
(* included.  On top of it, DoMsg returns with an answer, for every set of    *)
(* clients, owners and ports and all priorities.                              *)
EXTENDS MsgPort, NotifyWait, FiniteSetTheorems, SequenceTheorems, TLAPS

(* Clients get no notification but the ones message ports send them           *)
Quiet == Clients \cap Noisy = {}

ClientPcs ==
  {"idle", "send", "block", "sendwait", "notify", "wait", "waiting", "done"}
OwnerPcs == {"wait", "waiting", "scan", "reply", "clear", "exited"}

Sending == {"send", "block", "sendwait"}
Inside == {"notify", "wait", "waiting"}

HasReply(c) == "NB_MSGPORT" \in tcb[c].value

(* A message in a port belongs to a client that waits for this very port and  *)
(* has not been woken up for it                                               *)
QueueInv ==
  \A p \in Ports : queue[p] # None =>
    /\ target[queue[p]] = p
    /\ pc[queue[p]] \in Inside
    /\ task[queue[p]] = queue[p]
    /\ ~HasReply(queue[p])

(* ReplyMsg runs with the scheduler suspended.  Its message is in no port any *)
(* more, and its sender is inside DoMsg, notified by the second step only     *)
ReplyInv ==
  \A s \in Owners :
    IF pc[s] \in {"reply", "clear"}
    THEN /\ suspended = s
         /\ reply[s] \in Ports \X Clients
         /\ pc[reply[s][2]] \in Inside
         /\ task[reply[s][2]] = reply[s][2]
         /\ \A p \in Ports : queue[p] # reply[s][2]
         /\ HasReply(reply[s][2]) <=> pc[s] = "clear"
    ELSE reply[s] = None /\ suspended # s

(* A client has a reply only if its message is done with, or ReplyMsg is      *)
(* about to be done with it                                                   *)
ClientInv ==
  \A c \in Clients :
    /\ pc[c] \in ClientPcs
    /\ c \in delayed <=> pc[c] = "waiting" /\ tcb[c].state = "waiting"
    /\ pc[c] = "waiting" => tcb[c].state # "none"
    /\ tcb[c].state = "received" => HasReply(c)
    /\ pc[c] \in {"idle", "done"} => task[c] = None /\ ~HasReply(c)
    /\ pc[c] \in Sending => task[c] = c /\ ~HasReply(c)
    /\ pc[c] # "idle" => target[c] \in Ports
    /\ HasReply(c) =>
         \/ task[c] = None
         \/ \E s \in Owners : pc[s] = "clear" /\ reply[s][2] = c
    /\ task[c] = None => pc[c] \in {"idle", "done"} \/ HasReply(c)

OwnerInv == \A s \in Owners : pc[s] \in OwnerPcs

(* A client is in at most one list of blocked senders, and there once         *)
SendqInv ==
  \A p \in Ports :
    /\ \A i \in DOMAIN sendq[p] :
         pc[sendq[p][i]] = "sendwait" /\ target[sendq[p][i]] = p
    /\ \A i, j \in DOMAIN sendq[p] : sendq[p][i] = sendq[p][j] => i = j

IInv ==
  TypeOK /\ QueueInv /\ ReplyInv /\ ClientInv /\ OwnerInv /\ SendqInv

----------------------------------------------------------------------------
USE SortsAssumption DEF Tasks, NB, ClientPcs, OwnerPcs, Sending, Inside,
                        HasReply, TN!TCB

(* Inserting a client into a list of blocked senders that it is not in        *)
LEMMA EventListInsertLemma ==
  ASSUME NEW list \in Seq(Clients), NEW c \in Clients,
         \A i \in DOMAIN list : list[i] # c,
         \A i, j \in DOMAIN list : list[i] = list[j] => i = j
  PROVE  /\ EventListInsert(list, c) \in Seq(Clients)
         /\ \A i \in DOMAIN EventListInsert(list, c) :
              \/ EventListInsert(list, c)[i] = c
              \/ \E j \in DOMAIN list : EventListInsert(list, c)[i] = list[j]
         /\ \A i, j \in DOMAIN EventListInsert(list, c) :
              EventListInsert(list, c)[i] = EventListInsert(list, c)[j] => i = j
<1> DEFINE ahead == {i \in DOMAIN list : Prio[list[i]] >= Prio[c]}
           n == Cardinality(ahead)
           front == SubSeq(list, 1, n)
           back == SubSeq(list, n + 1, Len(list))
           new == EventListInsert(list, c)
<1>1. n \in 0 .. Len(list)
  <2>1. ahead \subseteq 1 .. Len(list) /\ Len(list) \in Nat
    OBVIOUS
  <2>2. IsFiniteSet(1 .. Len(list)) /\ Cardinality(1 .. Len(list)) = Len(list)
    <3>1. 1 \in Int /\ Len(list) \in Int
      BY <2>1
    <3>2. /\ IsFiniteSet(1 .. Len(list))
          /\ Cardinality(1 .. Len(list)) =
               IF 1 > Len(list) THEN 0 ELSE Len(list) - 1 + 1
      BY <3>1, FS_Interval, Zenon
    <3> QED BY <2>1, <3>2
  <2>3. IsFiniteSet(ahead) /\ n <= Len(list)
    BY <2>1, <2>2, FS_Subset
  <2> QED BY <2>1, <2>3, FS_CardinalityType
<1> HIDE DEF n
<1>2. new = front \o <<c>> \o back
  <2>1. new = SubSeq(list, 1, (n + 1) - 1) \o <<c>> \o back
    BY Zenon DEF EventListInsert, InsertAt, n
  <2>2. (n + 1) - 1 = n
    BY <1>1
  <2> QED BY <2>1, <2>2
<1>3. /\ front \in Seq(Clients) /\ Len(front) = n
      /\ \A i \in 1 .. n : front[i] = list[i]
      /\ back \in Seq(Clients) /\ Len(back) = Len(list) - n
      /\ \A i \in 1 .. Len(list) - n : back[i] = list[n + i]
  <2>1. Len(list) \in Nat /\ n \in Nat /\ n <= Len(list)
    BY <1>1
  <2>2. \A i \in 1 .. n : list[i] \in Clients
    BY <2>1
  <2>3. \A i \in n + 1 .. Len(list) : list[i] \in Clients
    BY <2>1
  <2>4. front \in Seq(Clients) /\ Len(front) = n /\ \A i \in 1 .. n : front[i] = list[i]
    BY <2>1, <2>2, SubSeqProperties
  <2>5. /\ back \in Seq(Clients) /\ Len(back) = Len(list) - n
        /\ \A i \in 1 .. Len(list) - n : back[i] = list[n + i]
    BY <2>1, <2>3, SubSeqProperties
  <2> QED BY <2>4, <2>5
<1> HIDE DEF front, back, new
<1>4. /\ new \in Seq(Clients) /\ Len(new) = Len(list) + 1
      /\ \A i \in 1 .. Len(list) + 1 :
           new[i] = IF i <= n THEN list[i]
                    ELSE IF i = n + 1 THEN c ELSE list[i - 1]
  <2>1. Len(list) \in Nat /\ n \in Nat /\ n <= Len(list)
    BY <1>1
  <2>2. /\ <<c>> \in Seq(Clients) /\ Len(<<c>>) = 1 /\ <<c>>[1] = c
    OBVIOUS
  <2> DEFINE mid == front \o <<c>>
  <2>3. /\ mid \in Seq(Clients) /\ Len(mid) = n + 1
        /\ \A i \in 1 .. n + 1 : mid[i] = IF i <= n THEN list[i] ELSE c
    BY <1>3, <2>1, <2>2, ConcatProperties
  <2>4. new = mid \o back
    BY <1>2
  <2> HIDE DEF mid
  <2>5. /\ new \in Seq(Clients) /\ Len(new) = (n + 1) + (Len(list) - n)
        /\ \A i \in 1 .. (n + 1) + (Len(list) - n) :
             new[i] = IF i <= n + 1 THEN mid[i] ELSE back[i - (n + 1)]
    <3>1. mid \in Seq(Clients) /\ back \in Seq(Clients)
      BY <1>3, <2>3
    <3>2. /\ mid \o back \in Seq(Clients)
          /\ Len(mid \o back) = Len(mid) + Len(back)
          /\ \A i \in 1 .. Len(mid) + Len(back) :
               (mid \o back)[i] = IF i <= Len(mid) THEN mid[i] ELSE back[i - Len(mid)]
      BY <3>1, ConcatProperties
    <3>3. Len(mid) = n + 1 /\ Len(back) = Len(list) - n
      BY <1>3, <2>3
    <3> QED BY <2>4, <3>2, <3>3
  <2>6. \A i \in n + 2 .. Len(list) + 1 : back[i - (n + 1)] = list[i - 1]
    <3> SUFFICES ASSUME NEW i \in n + 2 .. Len(list) + 1
                 PROVE  back[i - (n + 1)] = list[i - 1]
      OBVIOUS
    <3>1. i - (n + 1) \in 1 .. Len(list) - n /\ n + (i - (n + 1)) = i - 1
      BY <2>1
    <3> QED BY <1>3, <3>1
  <2>7. (n + 1) + (Len(list) - n) = Len(list) + 1
    BY <2>1
  <2>8. \A i \in 1 .. Len(list) + 1 :
           new[i] = IF i <= n THEN list[i]
                    ELSE IF i = n + 1 THEN c ELSE list[i - 1]
    <3> SUFFICES ASSUME NEW i \in 1 .. Len(list) + 1
                 PROVE  new[i] = IF i <= n THEN list[i]
                                 ELSE IF i = n + 1 THEN c ELSE list[i - 1]
      OBVIOUS
    <3>1. new[i] = IF i <= n + 1 THEN mid[i] ELSE back[i - (n + 1)]
      BY <2>5, <2>7
    <3>2. CASE i <= n + 1
      <4>1. i \in 1 .. n + 1 /\ (i <= n \/ i = n + 1)
        BY <2>1, <3>2
      <4> QED BY <2>3, <3>1, <3>2, <4>1
    <3>3. CASE ~(i <= n + 1)
      <4>1. i \in n + 2 .. Len(list) + 1 /\ ~(i <= n) /\ i # n + 1
        BY <2>1, <3>3
      <4> QED BY <2>6, <3>1, <3>3, <4>1
    <3> QED BY <3>2, <3>3
  <2> QED BY <2>5, <2>7, <2>8
<1>5. DOMAIN list = 1 .. Len(list) /\ DOMAIN new = 1 .. Len(list) + 1
  BY <1>4
<1>6. \A i \in DOMAIN new : i # n + 1 =>
        LET k == IF i <= n THEN i ELSE i - 1
        IN  k \in DOMAIN list /\ new[i] = list[k] /\ new[i] # c
  <2> SUFFICES ASSUME NEW i \in DOMAIN new, i # n + 1
               PROVE  LET k == IF i <= n THEN i ELSE i - 1
                      IN  k \in DOMAIN list /\ new[i] = list[k]
    OBVIOUS
  <2>1. Len(list) \in Nat /\ n \in Nat /\ n <= Len(list)
    BY <1>1
  <2>2. i \in 1 .. Len(list) + 1
    BY <1>5
  <2>3. CASE i <= n
    <3>1. i \in 1 .. Len(list)
      BY <2>1, <2>2, <2>3
    <3>2. new[i] = IF i <= n THEN list[i]
                   ELSE IF i = n + 1 THEN c ELSE list[i - 1]
      BY <1>4, <2>2
    <3> QED BY <1>5, <2>3, <3>1, <3>2
  <2>4. CASE ~(i <= n)
    <3>1. i - 1 \in 1 .. Len(list)
      BY <2>1, <2>2, <2>4
    <3>2. new[i] = IF i <= n THEN list[i]
                   ELSE IF i = n + 1 THEN c ELSE list[i - 1]
      BY <1>4, <2>2
    <3>3. new[i] = list[i - 1]
      BY <2>4, <3>2
    <3> QED BY <1>5, <2>4, <3>1, <3>3
  <2> QED BY <2>3, <2>4
<1>7. n \in Nat /\ new[n + 1] = c
  BY <1>1, <1>4
<1>8. \A i, j \in DOMAIN new : new[i] = new[j] => i = j
  <2> SUFFICES ASSUME NEW i \in DOMAIN new, NEW j \in DOMAIN new, new[i] = new[j]
               PROVE  i = j
    OBVIOUS
  <2>1. CASE i = n + 1 \/ j = n + 1
    BY <1>6, <1>7, <2>1
  <2>2. CASE i # n + 1 /\ j # n + 1
    <3>1. (IF i <= n THEN i ELSE i - 1) = (IF j <= n THEN j ELSE j - 1)
      BY <1>6, <2>2
    <3> QED BY <1>5, <1>7, <2>2, <3>1
  <2> QED BY <2>1, <2>2
<1>9. \A i \in DOMAIN new : new[i] = c \/ \E j \in DOMAIN list : new[i] = list[j]
  BY <1>6, <1>7
<1> QED BY <1>4, <1>8, <1>9 DEF new

LEMMA QueueSendStep ==
  ASSUME NEW c \in Clients, IInv, QueueSend(c)
  PROVE  IInv'
<1> DEFINE p == target[c]
<1>1. p \in Ports /\ pc[c] = "send" /\ ~HasReply(c) /\ task[c] = c
  BY DEF IInv, ClientInv, QueueSend
<1>2. UNCHANGED <<tcb, delayed, suspended, sendq, target, task, todo, reply,
                  input>>
  BY DEF QueueSend
<1>3. CASE queue[p] = None
  <2>1. queue' = [queue EXCEPT ![p] = c] /\ pc' = [pc EXCEPT ![c] = "notify"]
    BY <1>3 DEF QueueSend
  <2> HIDE DEF p
  <2>2. TypeOK' /\ SendqInv'
    BY <1>1, <1>2, <2>1 DEF IInv, TypeOK, SendqInv
  <2>3. QueueInv'
    BY <1>1, <1>2, <2>1 DEF IInv, TypeOK, QueueInv, p
  <2>4. ReplyInv'
    BY <1>1, <1>2, <2>1 DEF IInv, TypeOK, ReplyInv
  <2>5. ClientInv' /\ OwnerInv'
    BY <1>1, <1>2, <2>1 DEF IInv, TypeOK, ClientInv, OwnerInv
  <2> QED BY <2>2, <2>3, <2>4, <2>5 DEF IInv
<1>4. CASE queue[p] # None
  <2>1. UNCHANGED queue /\ pc' = [pc EXCEPT ![c] = "block"]
    BY <1>4 DEF QueueSend
  <2> HIDE DEF p
  <2>2. TypeOK' /\ SendqInv'
    BY <1>1, <1>2, <2>1 DEF IInv, TypeOK, SendqInv
  <2>3. QueueInv' /\ ReplyInv'
    BY <1>1, <1>2, <2>1 DEF IInv, TypeOK, QueueInv, ReplyInv
  <2>4. ClientInv' /\ OwnerInv'
    BY <1>1, <1>2, <2>1 DEF IInv, TypeOK, ClientInv, OwnerInv
  <2> QED BY <2>2, <2>3, <2>4 DEF IInv
<1> QED BY <1>3, <1>4

LEMMA QueueBlockStep ==
  ASSUME NEW c \in Clients, IInv, QueueBlock(c)
  PROVE  IInv'
<1> DEFINE p == target[c]
<1>1. p \in Ports /\ pc[c] = "block" /\ ~HasReply(c) /\ task[c] = c
  BY DEF IInv, ClientInv, QueueBlock
<1>2. UNCHANGED <<tcb, delayed, suspended, queue, target, task, todo, reply,
                  input>>
  BY DEF QueueBlock
<1>3. CASE queue[p] # None
  <2> DEFINE new == EventListInsert(sendq[p], c)
  <2>1. sendq' = [sendq EXCEPT ![p] = new] /\ pc' = [pc EXCEPT ![c] = "sendwait"]
    BY <1>3 DEF QueueBlock
  <2>2. sendq[p] \in Seq(Clients) /\ \A i \in DOMAIN sendq[p] : sendq[p][i] # c
    BY <1>1 DEF IInv, TypeOK, SendqInv
  <2>3. /\ new \in Seq(Clients)
        /\ \A i \in DOMAIN new : new[i] = c \/ \E j \in DOMAIN sendq[p] : new[i] = sendq[p][j]
        /\ \A i, j \in DOMAIN new : new[i] = new[j] => i = j
    BY <1>1, <2>2, EventListInsertLemma DEF IInv, SendqInv
  <2> HIDE DEF p, new
  <2>4. TypeOK'
    BY <1>1, <1>2, <2>1, <2>3 DEF IInv, TypeOK
  <2>5. SendqInv'
    BY <1>1, <1>2, <2>1, <2>3 DEF IInv, TypeOK, SendqInv, p
  <2>6. QueueInv'
    BY <1>1, <1>2, <2>1 DEF IInv, TypeOK, QueueInv
  <2>7. ReplyInv'
    BY <1>1, <1>2, <2>1 DEF IInv, TypeOK, ReplyInv
  <2>8. ClientInv' /\ OwnerInv'
    BY <1>1, <1>2, <2>1 DEF IInv, TypeOK, ClientInv, OwnerInv, p
  <2> QED BY <2>4, <2>5, <2>6, <2>7, <2>8 DEF IInv
<1>4. CASE queue[p] = None
  <2>1. UNCHANGED sendq /\ pc' = [pc EXCEPT ![c] = "send"]
    BY <1>4 DEF QueueBlock
  <2> HIDE DEF p
  <2>2. TypeOK' /\ SendqInv'
    BY <1>1, <1>2, <2>1 DEF IInv, TypeOK, SendqInv
  <2>3. QueueInv' /\ ReplyInv'
    BY <1>1, <1>2, <2>1 DEF IInv, TypeOK, QueueInv, ReplyInv
  <2>4. ClientInv' /\ OwnerInv'
    BY <1>1, <1>2, <2>1 DEF IInv, TypeOK, ClientInv, OwnerInv
  <2> QED BY <2>2, <2>3, <2>4 DEF IInv
<1> QED BY <1>3, <1>4

LEMMA ReplyMsgStep ==
  ASSUME NEW s \in Owners, NEW p \in Ports, IInv, ReplyMsg(s, p)
  PROVE  IInv'
<1> DEFINE c == queue[p]
<1>1. /\ c \in Clients /\ c # None /\ pc[s] = "scan" /\ suspended = None
      /\ target[c] = p /\ pc[c] \in Inside /\ task[c] = c /\ ~HasReply(c)
      /\ \A o \in Owners : pc[o] \notin {"reply", "clear"} /\ reply[o] = None
  <2>1. pc[s] = "scan" /\ CanRun(s) /\ queue[p] # None
    BY DEF ReplyMsg, CanServe
  <2>2. suspended = None
    BY <2>1 DEF IInv, ReplyInv, CanRun
  <2>3. \A o \in Owners : pc[o] \notin {"reply", "clear"} /\ reply[o] = None
    BY <2>2 DEF IInv, ReplyInv
  <2>4. c \in Clients
    BY <2>1 DEF IInv, TypeOK
  <2> QED BY <2>1, <2>2, <2>3, <2>4 DEF IInv, QueueInv
<1>2. /\ suspended' = s
      /\ reply' = [reply EXCEPT ![s] = <<p, c>>]
      /\ queue' = [queue EXCEPT ![p] = None]
      /\ todo' = [todo EXCEPT ![s] = @ \ {p}]
      /\ input' = [input EXCEPT ![p] = FALSE]
      /\ UNCHANGED <<tcb, delayed, target, task>>
  BY DEF ReplyMsg
<1>3. CASE sendq[p] # <<>>
  <2> DEFINE h == Head(sendq[p])
             rest == Tail(sendq[p])
  <2>1. /\ sendq' = [sendq EXCEPT ![p] = rest]
        /\ pc' = [pc EXCEPT ![s] = "reply", ![h] = "send"]
    BY <1>3 DEF ReplyMsg
  <2>2. /\ h \in Clients /\ pc[h] = "sendwait" /\ target[h] = p
        /\ \A q \in Ports : q # p => \A i \in DOMAIN sendq[q] : sendq[q][i] # h
    <3>1. sendq[p] \in Seq(Clients) /\ 1 \in DOMAIN sendq[p] /\ h = sendq[p][1]
      BY <1>3 DEF IInv, TypeOK
    <3> QED BY <3>1 DEF IInv, TypeOK, SendqInv
  <2>3. /\ rest \in Seq(Clients)
        /\ \A i \in DOMAIN rest :
             rest[i] \in Clients \ {h} /\ pc[rest[i]] = "sendwait" /\ target[rest[i]] = p
        /\ \A i, j \in DOMAIN rest : rest[i] = rest[j] => i = j
    <3>1. /\ sendq[p] \in Seq(Clients) /\ 1 \in DOMAIN sendq[p] /\ h = sendq[p][1]
          /\ rest \in Seq(Clients)
          /\ \A i \in DOMAIN rest :
               /\ i \in Nat /\ i + 1 \in DOMAIN sendq[p] /\ i + 1 # 1
               /\ rest[i] = sendq[p][i + 1] /\ rest[i] \in Clients
      BY <1>3 DEF IInv, TypeOK
    <3> HIDE DEF h, rest
    <3>2. \A i, j \in DOMAIN rest : rest[i] = rest[j] => i + 1 = j + 1
      BY <3>1 DEF IInv, SendqInv
    <3>3. \A i, j \in DOMAIN rest : i + 1 = j + 1 => i = j
      BY <3>1
    <3>4. \A i \in DOMAIN rest :
            rest[i] # h /\ pc[rest[i]] = "sendwait" /\ target[rest[i]] = p
      BY <3>1 DEF IInv, SendqInv
    <3> QED BY <3>1, <3>2, <3>3, <3>4
  <2> HIDE DEF c, h, rest
  <2>4. /\ \A d \in Clients : pc'[d] = IF d = h THEN "send" ELSE pc[d]
        /\ \A q \in Ports : sendq'[q] = IF q = p THEN rest ELSE sendq[q]
    BY <1>1, <2>1, <2>2 DEF IInv, TypeOK
  <2>5. TypeOK'
    <3>1. sendq' \in [Ports -> Seq(Clients)]
      BY <2>1, <2>3 DEF IInv, TypeOK
    <3>2. /\ queue' \in [Ports -> Clients \cup {None}]
          /\ reply' \in [Owners -> (Ports \X Clients) \cup {None}]
          /\ todo' \in [Owners -> SUBSET Ports] /\ input' \in [Ports -> BOOLEAN]
      BY <1>1, <1>2 DEF IInv, TypeOK
    <3> QED BY <1>2, <2>1, <3>1, <3>2 DEF IInv, TypeOK
  <2>6. SendqInv'
    <3> SUFFICES ASSUME NEW q \in Ports
                 PROVE  /\ \A i \in DOMAIN sendq'[q] :
                             pc'[sendq'[q][i]] = "sendwait" /\ target'[sendq'[q][i]] = q
                        /\ \A i, j \in DOMAIN sendq'[q] :
                             sendq'[q][i] = sendq'[q][j] => i = j
      BY DEF SendqInv
    <3>1. CASE q = p
      BY <1>2, <2>3, <2>4, <3>1
    <3>2. CASE q # p
      <4>1. \A i \in DOMAIN sendq[q] : sendq[q][i] \in Clients
        BY DEF IInv, TypeOK
      <4> QED BY <1>2, <2>2, <2>4, <3>2, <4>1 DEF IInv, SendqInv
    <3> QED BY <3>1, <3>2
  <2>7. QueueInv'
    <3>1. \A q \in Ports : queue[q] # None => queue[q] \in Clients
      BY DEF IInv, TypeOK
    <3>2. \A q \in Ports : queue[q] # None => queue[q] # h
      BY <2>2 DEF IInv, QueueInv
    <3> QED BY <1>2, <2>4, <3>1, <3>2 DEF IInv, TypeOK, QueueInv
  <2>8. ReplyInv'
    BY <1>1, <1>2, <2>1, <2>2 DEF IInv, TypeOK, QueueInv, ReplyInv, c
  <2>9. ClientInv'
    <3>1. \A o \in Owners : pc[o] # "clear"
      BY <1>1
    <3> QED BY <1>2, <2>2, <2>4, <3>1 DEF IInv, TypeOK, ClientInv
  <2>10. OwnerInv'
    BY <1>1, <2>1, <2>2 DEF IInv, TypeOK, OwnerInv
  <2> QED BY <2>5, <2>6, <2>7, <2>8, <2>9, <2>10 DEF IInv
<1>4. CASE sendq[p] = <<>>
  <2>1. UNCHANGED sendq /\ pc' = [pc EXCEPT ![s] = "reply"]
    BY <1>4 DEF ReplyMsg
  <2> HIDE DEF c
  <2>2. TypeOK' /\ SendqInv' /\ QueueInv'
    BY <1>1, <1>2, <2>1 DEF IInv, TypeOK, SendqInv, QueueInv
  <2>3. ReplyInv'
    BY <1>1, <1>2, <2>1 DEF IInv, TypeOK, QueueInv, ReplyInv, c
  <2>4. ClientInv' /\ OwnerInv'
    BY <1>1, <1>2, <2>1 DEF IInv, TypeOK, ClientInv, OwnerInv
  <2> QED BY <2>2, <2>3, <2>4 DEF IInv
<1> QED BY <1>3, <1>4

LEMMA ClientWaitStep ==
  ASSUME NEW c \in Clients, IInv, ClientWait(c)
  PROVE  IInv'
<1>1. UNCHANGED <<suspended, queue, sendq, target, task, todo, reply, input>>
  BY DEF ClientWait
<1>2. Mask(c) = {"NB_MSGPORT"} /\ c \notin Timed
  BY DEF Mask
<1>3. CanRun(c) => \A s \in Owners : suspended # s
  BY DEF CanRun
<1>4. CanRun(c) /\ HasReply(c) => task[c] = None
  BY <1>3 DEF IInv, ClientInv, ReplyInv
<1>5. CASE NotifyWaitEnter(c, "done") /\ HasReply(c)
  <2>1. /\ pc[c] = "wait" /\ task[c] = None
        /\ tcb' = [tcb EXCEPT ![c] = TN!Polled(tcb[c], {"NB_MSGPORT"})]
        /\ delayed' = delayed
        /\ pc' = [pc EXCEPT ![c] = "done"]
    BY <1>2, <1>4, <1>5 DEF NotifyWaitEnter
  <2>2. TypeOK' /\ SendqInv'
    BY <1>1, <2>1 DEF IInv, TypeOK, SendqInv, TN!Polled
  <2>3. QueueInv' /\ ReplyInv'
    BY <1>1, <2>1 DEF IInv, TypeOK, QueueInv, ReplyInv, TN!Polled
  <2>4. ClientInv' /\ OwnerInv'
    BY <1>1, <2>1 DEF IInv, TypeOK, ClientInv, OwnerInv, TN!Polled
  <2> QED BY <2>2, <2>3, <2>4 DEF IInv
<1>6. CASE NotifyWaitEnter(c, "done") /\ ~HasReply(c)
  <2>1. /\ pc[c] = "wait"
        /\ tcb' = [tcb EXCEPT ![c] = TN!Blocked(TN!Polled(tcb[c], {"NB_MSGPORT"}))]
        /\ delayed' = delayed \cup {c}
        /\ pc' = [pc EXCEPT ![c] = "waiting"]
    BY <1>2, <1>6 DEF NotifyWaitEnter
  <2>2. TypeOK' /\ SendqInv'
    <3>1. TN!Blocked(TN!Polled(tcb[c], {"NB_MSGPORT"})) \in TN!TCB
      BY DEF IInv, TypeOK, TN!Polled, TN!Blocked
    <3> QED BY <1>1, <2>1, <3>1 DEF IInv, TypeOK, SendqInv
  <2>3. QueueInv' /\ ReplyInv'
    BY <1>1, <1>6, <2>1 DEF IInv, TypeOK, QueueInv, ReplyInv, TN!Polled, TN!Blocked
  <2>4. ClientInv' /\ OwnerInv'
    BY <1>1, <1>6, <2>1 DEF IInv, TypeOK, ClientInv, OwnerInv, TN!Polled, TN!Blocked
  <2> QED BY <2>2, <2>3, <2>4 DEF IInv
<1>7. CASE NotifyWaitResume(c, "done", "done")
  <2>1. /\ pc[c] = "waiting" /\ CanRun(c)
        /\ tcb' = [tcb EXCEPT ![c] = TN!Resumed(tcb[c], {"NB_MSGPORT"})]
        /\ delayed' = delayed
        /\ pc' = [pc EXCEPT ![c] = "done"]
    BY <1>2, <1>7 DEF NotifyWaitResume
  <2>2. c \notin delayed /\ tcb[c].state = "received" /\ HasReply(c) /\ task[c] = None
    BY <1>4, <1>7, <2>1 DEF NotifyWaitResume, IInv, ClientInv, TypeOK
  <2>3. TypeOK' /\ SendqInv'
    BY <1>1, <2>1 DEF IInv, TypeOK, SendqInv, TN!Resumed
  <2>4. QueueInv' /\ ReplyInv'
    BY <1>1, <2>1, <2>2 DEF IInv, TypeOK, QueueInv, ReplyInv, TN!Resumed
  <2>5. ClientInv' /\ OwnerInv'
    BY <1>1, <2>1, <2>2 DEF IInv, TypeOK, ClientInv, OwnerInv, TN!Resumed
  <2> QED BY <2>3, <2>4, <2>5 DEF IInv
<1> QED BY <1>5, <1>6, <1>7 DEF ClientWait

LEMMA NotifySenderStep ==
  ASSUME NEW s \in Owners, IInv, NotifySender(s)
  PROVE  IInv'
<1> DEFINE c == reply[s][2]
<1>1. /\ pc[s] = "reply" /\ suspended = s /\ c \in Clients /\ task[c] = c
      /\ pc[c] \in Inside /\ (\A p \in Ports : queue[p] # c) /\ ~HasReply(c)
      /\ \A o \in Owners : pc[o] \in {"reply", "clear"} => o = s
  BY DEF IInv, TypeOK, ReplyInv, NotifySender
<1>2. /\ tcb' = [tcb EXCEPT ![c] = TN!Notified(tcb[c], {"NB_MSGPORT"})]
      /\ delayed' = delayed \ {c}
      /\ pc' = [pc EXCEPT ![s] = "clear"]
      /\ UNCHANGED <<suspended, queue, sendq, target, task, todo, reply, input>>
  BY <1>1 DEF NotifySender, Notify
<1> HIDE DEF c
<1>3. TypeOK' /\ SendqInv'
  BY <1>1, <1>2 DEF IInv, TypeOK, SendqInv, TN!Notified
<1>4. QueueInv' /\ OwnerInv'
  BY <1>1, <1>2 DEF IInv, TypeOK, QueueInv, OwnerInv, TN!Notified
<1>5. ReplyInv'
  BY <1>1, <1>2 DEF IInv, TypeOK, ReplyInv, TN!Notified, c
<1>6. ClientInv'
  BY <1>1, <1>2 DEF IInv, TypeOK, ClientInv, TN!Notified, c
<1> QED BY <1>3, <1>4, <1>5, <1>6 DEF IInv

LEMMA OwnerWaitStep ==
  ASSUME NEW s \in Owners, IInv, OwnerWait(s)
  PROVE  IInv'
<1>1. UNCHANGED <<suspended, queue, sendq, target, task, reply, input>>
  BY DEF OwnerWait
<1>2. /\ pc[s] \in {"wait", "waiting"}
      /\ \E new \in {"wait", "waiting", "scan", "exited"} : pc' = [pc EXCEPT ![s] = new]
      /\ \E t \in TN!TCB : tcb' = [tcb EXCEPT ![s] = t]
      /\ delayed' = delayed \/ delayed' = delayed \cup {s}
  <2>1. tcb[s] \in TN!TCB
    BY DEF IInv, TypeOK
  <2>2. CASE NotifyWaitEnter(s, "scan")
    BY <2>1, <2>2 DEF NotifyWaitEnter, TN!Polled, TN!Blocked
  <2>3. CASE NotifyWaitResume(s, "scan", IF s \in Timed THEN "wait" ELSE "exited")
    <3>1. TN!Resumed(tcb[s], Mask(s)) \in TN!TCB
      BY <2>1 DEF TN!Resumed
    <3>2. TN!Blocked(TN!Resumed(tcb[s], Mask(s))) \in TN!TCB
      BY <3>1 DEF TN!Blocked
    <3>3. \E new \in {"wait", "waiting", "scan", "exited"} : pc' = [pc EXCEPT ![s] = new]
      BY <2>3 DEF NotifyWaitResume, IInv, TypeOK
    <3> QED BY <2>3, <3>1, <3>2, <3>3 DEF NotifyWaitResume
  <2> QED BY <2>2, <2>3 DEF OwnerWait
<1>3. todo' \in [Owners -> SUBSET Ports]
  BY DEF OwnerWait, PortsOf, IInv, TypeOK
<1>4. TypeOK' /\ SendqInv'
  BY <1>1, <1>2, <1>3 DEF IInv, TypeOK, SendqInv
<1>5. QueueInv' /\ ReplyInv'
  BY <1>1, <1>2 DEF IInv, TypeOK, QueueInv, ReplyInv
<1>6. ClientInv' /\ OwnerInv'
  BY <1>1, <1>2 DEF IInv, TypeOK, ClientInv, OwnerInv
<1> QED BY <1>4, <1>5, <1>6 DEF IInv


(* The remaining steps touch little: one leaf per part of the invariant       *)
LEMMA DoMsgStep ==
  ASSUME NEW c \in Clients, NEW p \in Ports, IInv, DoMsg(c, p)
  PROVE  IInv'
<1>1. TypeOK' /\ SendqInv'
  BY DEF IInv, TypeOK, SendqInv, DoMsg
<1>2. QueueInv'
  BY DEF IInv, TypeOK, QueueInv, DoMsg
<1>3. ReplyInv'
  BY DEF IInv, TypeOK, ReplyInv, DoMsg
<1>4. ClientInv' /\ OwnerInv'
  BY DEF IInv, TypeOK, ClientInv, OwnerInv, DoMsg
<1> QED BY <1>1, <1>2, <1>3, <1>4 DEF IInv

LEMMA NotifyOwnerStep ==
  ASSUME NEW c \in Clients, IInv, NotifyOwner(c)
  PROVE  IInv'
<1> DEFINE s == Owner[target[c]]
<1>1. /\ s \in Owners /\ pc[c] = "notify"
      /\ tcb' = [tcb EXCEPT ![s] = TN!Notified(tcb[s], {"NB_MSGPORT"})]
      /\ delayed' = delayed \ {s}
      /\ pc' = [pc EXCEPT ![c] = "wait"]
      /\ UNCHANGED <<suspended, queue, sendq, target, task, todo, reply, input>>
  BY DEF NotifyOwner, Notify, IInv, ClientInv
<1> HIDE DEF s
<1>2. TypeOK' /\ SendqInv'
  BY <1>1 DEF IInv, TypeOK, SendqInv, TN!Notified
<1>3. QueueInv'
  BY <1>1 DEF IInv, TypeOK, QueueInv
<1>4. ReplyInv'
  BY <1>1 DEF IInv, TypeOK, ReplyInv
<1>5. ClientInv' /\ OwnerInv'
  BY <1>1 DEF IInv, TypeOK, ClientInv, OwnerInv
<1> QED BY <1>2, <1>3, <1>4, <1>5 DEF IInv

LEMMA ReturnStep ==
  ASSUME NEW c \in Clients, IInv, Return(c)
  PROVE  IInv'
<1>1. TypeOK' /\ SendqInv'
  BY DEF IInv, TypeOK, SendqInv, Return
<1>2. QueueInv'
  <2>1. \A p \in Ports : queue[p] # None => queue[p] \in Clients
    BY DEF IInv, TypeOK
  <2>2. \A p \in Ports : queue[p] # None => queue[p] # c
    BY DEF IInv, QueueInv, Return
  <2> QED BY <2>1, <2>2 DEF IInv, TypeOK, QueueInv, Return
<1>3. ReplyInv'
  BY DEF IInv, TypeOK, ReplyInv, Return
<1>4. ClientInv' /\ OwnerInv'
  BY DEF IInv, TypeOK, ClientInv, OwnerInv, Return
<1> QED BY <1>1, <1>2, <1>3, <1>4 DEF IInv

LEMMA RescanStep ==
  ASSUME NEW s \in Owners, IInv, Rescan(s)
  PROVE  IInv'
<1>1. TypeOK' /\ SendqInv'
  BY DEF IInv, TypeOK, SendqInv, Rescan
<1>2. QueueInv' /\ ReplyInv'
  BY DEF IInv, TypeOK, QueueInv, ReplyInv, Rescan
<1>3. ClientInv' /\ OwnerInv'
  BY DEF IInv, TypeOK, ClientInv, OwnerInv, Rescan
<1> QED BY <1>1, <1>2, <1>3 DEF IInv

LEMMA ClearTaskStep ==
  ASSUME NEW s \in Owners, IInv, ClearTask(s)
  PROVE  IInv'
<1>1. TypeOK' /\ SendqInv'
  BY DEF IInv, TypeOK, SendqInv, ReplyInv, ClearTask
<1>2. QueueInv' /\ ReplyInv'
  BY DEF IInv, TypeOK, QueueInv, ReplyInv, ClearTask
<1>3. ClientInv' /\ OwnerInv'
  BY DEF IInv, TypeOK, ReplyInv, ClientInv, OwnerInv, ClearTask
<1> QED BY <1>1, <1>2, <1>3 DEF IInv

LEMMA SkipStep ==
  ASSUME NEW s \in Owners, NEW p \in Ports, IInv, Skip(s, p)
  PROVE  IInv'
<1>1. TypeOK' /\ SendqInv'
  BY DEF IInv, TypeOK, SendqInv, Skip
<1>2. QueueInv' /\ ReplyInv' /\ ClientInv' /\ OwnerInv'
  BY DEF IInv, QueueInv, ReplyInv, ClientInv, OwnerInv, Skip
<1> QED BY <1>1, <1>2 DEF IInv

LEMMA TimeoutStep ==
  ASSUME NEW s \in Owners, IInv, Timeout(s)
  PROVE  IInv'
<1>1. TypeOK' /\ SendqInv'
  BY DEF IInv, TypeOK, SendqInv, Timeout
<1>2. QueueInv' /\ ReplyInv' /\ ClientInv' /\ OwnerInv'
  BY DEF IInv, QueueInv, ReplyInv, ClientInv, OwnerInv, Timeout
<1> QED BY <1>1, <1>2 DEF IInv

(* An interrupt that notifies a task other than a client                      *)
LEMMA InterruptStep ==
  ASSUME NEW t \in Tasks \ Clients, NEW bits \in SUBSET NB, IInv,
         Notify(t, bits), input' \in [Ports -> BOOLEAN],
         UNCHANGED <<pc, suspended, queue, sendq, target, task, todo, reply>>
  PROVE  IInv'
<1>1. /\ tcb' = [tcb EXCEPT ![t] = TN!Notified(tcb[t], bits)]
      /\ delayed' = delayed \ {t}
  BY DEF Notify
<1>2. TypeOK' /\ SendqInv'
  <2>1. TN!Notified(tcb[t], bits) \in TN!TCB
    BY DEF IInv, TypeOK, TN!Notified
  <2> QED BY <1>1, <2>1 DEF IInv, TypeOK, SendqInv
<1>3. QueueInv' /\ ReplyInv'
  BY <1>1 DEF IInv, TypeOK, QueueInv, ReplyInv
<1>4. ClientInv' /\ OwnerInv'
  BY <1>1 DEF IInv, TypeOK, ClientInv, OwnerInv
<1> QED BY <1>2, <1>3, <1>4 DEF IInv

LEMMA InvariantStep ==
  ASSUME Quiet, IInv, [Next]_vars
  PROVE  IInv'
<1>1. ASSUME NEW c \in Clients, ClientStep(c) PROVE IInv'
  BY <1>1, QueueSendStep, QueueBlockStep, NotifyOwnerStep, ClientWaitStep,
     ReturnStep DEF ClientStep
<1>2. ASSUME NEW c \in Clients, NEW p \in Ports, DoMsg(c, p) PROVE IInv'
  BY <1>2, DoMsgStep
<1>3. ASSUME NEW s \in Owners, OwnerStep(s) PROVE IInv'
  BY <1>3, OwnerWaitStep, RescanStep, NotifySenderStep, ClearTaskStep,
     SkipStep, ReplyMsgStep DEF OwnerStep
<1>4. ASSUME NEW s \in Owners, Timeout(s) PROVE IInv'
  BY <1>4, TimeoutStep
<1>5. ASSUME NEW p \in Ports, InputFromISR(p) PROVE IInv'
  <2>1. Owner[p] \in Tasks \ Clients
    OBVIOUS
  <2>2. input' \in [Ports -> BOOLEAN]
    BY <1>5 DEF InputFromISR, IInv, TypeOK
  <2> QED BY <1>5, <2>1, <2>2, InterruptStep DEF InputFromISR
<1>6. ASSUME NEW t \in Tasks, OtherIRQ(t) PROVE IInv'
  <2>1. t \in Tasks \ Clients
    BY <1>6 DEF OtherIRQ, Quiet
  <2>2. input' \in [Ports -> BOOLEAN]
    BY <1>6 DEF OtherIRQ, IInv, TypeOK
  <2> QED BY <1>6, <2>1, <2>2, InterruptStep DEF OtherIRQ
<1>7. CASE UNCHANGED vars
  BY <1>7 DEF vars, IInv, TypeOK, QueueInv, ReplyInv, ClientInv, OwnerInv,
              SendqInv
<1> QED BY <1>1, <1>2, <1>3, <1>4, <1>5, <1>6, <1>7 DEF Next

LEMMA InvariantInit == Init => IInv
<1> SUFFICES ASSUME Init PROVE IInv
  OBVIOUS
<1>1. TypeOK
  BY DEF Init, TypeOK, TN!FreshTCB
<1>2. QueueInv /\ ReplyInv /\ ClientInv /\ OwnerInv /\ SendqInv
  BY DEF Init, QueueInv, ReplyInv, ClientInv, OwnerInv, SendqInv, TN!FreshTCB
<1> QED BY <1>1, <1>2 DEF IInv

LEMMA InvariantHolds == ASSUME Quiet PROVE Spec => []IInv
<1>1. Init => IInv
  BY InvariantInit
<1>2. IInv /\ [Next]_vars => IInv'
  BY InvariantStep
<1> QED BY <1>1, <1>2, PTL DEF Spec

----------------------------------------------------------------------------
(* Every field of the model keeps its type: in particular ReplyMsg never runs *)
(* on an empty port, where it would use an uninitialised message pointer      *)
THEOREM TypeCorrect == ASSUME Quiet PROVE Spec => []TypeOK
<1>1. IInv => TypeOK
  BY DEF IInv
<1> QED BY <1>1, InvariantHolds, PTL

(* DoMsg returns only after ReplyMsg is through with the caller's message     *)
THEOREM DoMsgIsAnswered == ASSUME Quiet PROVE Spec => []AnsweredOnReturn
<1>1. IInv => AnsweredOnReturn
  BY DEF IInv, ClientInv, AnsweredOnReturn
<1> QED BY <1>1, InvariantHolds, PTL

(* The message a port holds or ReplyMsg works on lies in a live frame         *)
THEOREM MessagesStayLive == ASSUME Quiet PROVE Spec => []MessageLive
<1>1. IInv => MessageLive
  <2> SUFFICES ASSUME IInv,
                      NEW c \in ({queue[p] : p \in Ports}
                        \cup {reply[s][2] : s \in {o \in Owners : reply[o] # None}})
                        \ {None}
               PROVE  pc[c] \in Inside /\ task[c] = c
    BY DEF MessageLive
  <2>1. CASE \E p \in Ports : c = queue[p]
    BY <2>1 DEF IInv, QueueInv
  <2>2. CASE \E s \in Owners : reply[s] # None /\ c = reply[s][2]
    BY <2>2 DEF IInv, ReplyInv
  <2> QED BY <2>1, <2>2
<1> QED BY <1>1, InvariantHolds, PTL

----------------------------------------------------------------------------
(* Remote calls                                                               *)

(* An owner looks at its own ports only, and the port of the message that     *)
(* ReplyMsg works on is the one its sender has called, and empty              *)
CallInv ==
  \A s \in Owners :
    /\ todo[s] \subseteq PortsOf(s)
    /\ pc[s] \in {"reply", "clear"} =>
         /\ Owner[reply[s][1]] = s
         /\ target[reply[s][2]] = reply[s][1]
         /\ queue[reply[s][1]] = None

LEMMA CallInit == Init => CallInv
  BY DEF Init, CallInv

(* With the scheduler running no ReplyMsg is under way                        *)
LEMMA NoReply ==
  ASSUME IInv, NEW t \in Tasks, CanRun(t), t \notin Owners \/ pc[t] = "scan"
  PROVE  /\ suspended = None
         /\ \A s \in Owners : pc[s] \notin {"reply", "clear"} /\ reply[s] = None
<1>1. suspended = None
  BY DEF IInv, TypeOK, ReplyInv, CanRun
<1> QED BY <1>1 DEF IInv, ReplyInv

LEMMA CallStep ==
  ASSUME IInv, CallInv, [Next]_vars
  PROVE  CallInv'
<1> USE DEF CallInv
<1>1. ASSUME NEW c \in Clients, NEW p \in Ports, DoMsg(c, p) PROVE CallInv'
  BY <1>1 DEF DoMsg, IInv, TypeOK, ReplyInv
<1>2. ASSUME NEW c \in Clients, QueueSend(c) PROVE CallInv'
  <2>1. \A s \in Owners : pc[s] \notin {"reply", "clear"}
    BY <1>2, NoReply DEF QueueSend
  <2>2. \A s \in Owners : pc'[s] = pc[s]
    BY <1>2 DEF QueueSend, IInv, TypeOK
  <2> QED BY <1>2, <2>1, <2>2 DEF QueueSend
<1>3. ASSUME NEW c \in Clients, QueueBlock(c) PROVE CallInv'
  <2>1. \A s \in Owners : pc'[s] = pc[s]
    BY <1>3 DEF QueueBlock, IInv, TypeOK
  <2> QED BY <1>3, <2>1 DEF QueueBlock
<1>4. ASSUME NEW c \in Clients, NotifyOwner(c) PROVE CallInv'
  BY <1>4 DEF NotifyOwner, IInv, TypeOK
<1>5. ASSUME NEW c \in Clients, ClientWait(c) PROVE CallInv'
  <2>1. \A s \in Owners : pc'[s] = pc[s]
    BY <1>5 DEF ClientWait, NotifyWaitEnter, NotifyWaitResume, IInv, TypeOK
  <2> QED BY <1>5, <2>1 DEF ClientWait
<1>6. ASSUME NEW c \in Clients, Return(c) PROVE CallInv'
  BY <1>6 DEF Return, IInv, TypeOK, ReplyInv
<1>7. ASSUME NEW s \in Owners, OwnerWait(s) PROVE CallInv'
  <2>1. todo' = [todo EXCEPT ![s] = IF pc'[s] = "scan" THEN PortsOf(s) ELSE {}]
    BY <1>7 DEF OwnerWait
  <2>2. \A o \in Owners : todo'[o] \subseteq PortsOf(o)
    BY <2>1 DEF IInv, TypeOK
  <2>3. \A o \in Owners : pc'[o] \in {"reply", "clear"} => pc[o] = pc'[o]
    BY <1>7 DEF OwnerWait, NotifyWaitEnter, NotifyWaitResume, IInv, TypeOK
  <2> QED BY <1>7, <2>2, <2>3 DEF OwnerWait
<1>8. ASSUME NEW s \in Owners, NEW p \in Ports, Skip(s, p) PROVE CallInv'
  BY <1>8 DEF Skip, IInv, TypeOK
<1>9. ASSUME NEW s \in Owners, Rescan(s) PROVE CallInv'
  BY <1>9 DEF Rescan, IInv, TypeOK
<1>10. ASSUME NEW s \in Owners, NEW p \in Ports, ReplyMsg(s, p) PROVE CallInv'
  <2>1. /\ p \in todo[s] /\ queue[p] # None /\ queue[p] \in Clients
        /\ \A o \in Owners : pc[o] \notin {"reply", "clear"}
    BY <1>10, NoReply DEF ReplyMsg, CanServe, IInv, TypeOK
  <2>2. Owner[p] = s /\ target[queue[p]] = p
    BY <2>1 DEF PortsOf, IInv, QueueInv
  <2>3. /\ queue' = [queue EXCEPT ![p] = None] /\ target' = target
        /\ reply' = [reply EXCEPT ![s] = <<p, queue[p]>>]
        /\ todo' = [todo EXCEPT ![s] = @ \ {p}]
    BY <1>10 DEF ReplyMsg
  <2>4. \A o \in Owners : o # s => pc'[o] \notin {"reply", "clear"}
    <3>1. CASE sendq[p] # <<>>
      <4>1. Head(sendq[p]) \in Clients
        BY <3>1 DEF IInv, TypeOK
      <4> QED BY <1>10, <2>1, <3>1, <4>1 DEF ReplyMsg, IInv, TypeOK
    <3>2. CASE sendq[p] = <<>>
      BY <1>10, <2>1, <3>2 DEF ReplyMsg, IInv, TypeOK
    <3> QED BY <3>1, <3>2
  <2> QED BY <2>1, <2>2, <2>3, <2>4 DEF IInv, TypeOK
<1>11. ASSUME NEW s \in Owners, NotifySender(s) PROVE CallInv'
  BY <1>11 DEF NotifySender, IInv, TypeOK
<1>12. ASSUME NEW s \in Owners, ClearTask(s) PROVE CallInv'
  <2>1. \A o \in Owners : o # s => reply'[o] = reply[o] /\ pc'[o] = pc[o]
    BY <1>12 DEF ClearTask, IInv, TypeOK
  <2>2. pc'[s] = "scan"
    BY <1>12 DEF ClearTask, IInv, TypeOK
  <2> QED BY <1>12, <2>1, <2>2 DEF ClearTask
<1>13. ASSUME NEW s \in Owners, Timeout(s) PROVE CallInv'
  BY <1>13 DEF Timeout
<1>14. ASSUME NEW p \in Ports, InputFromISR(p) PROVE CallInv'
  BY <1>14 DEF InputFromISR
<1>15. ASSUME NEW t \in Tasks, OtherIRQ(t) PROVE CallInv'
  BY <1>15 DEF OtherIRQ
<1>16. CASE UNCHANGED vars
  BY <1>16 DEF vars
<1> QED BY <1>1, <1>2, <1>3, <1>4, <1>5, <1>6, <1>7, <1>8, <1>9, <1>10, <1>11,
           <1>12, <1>13, <1>14, <1>15, <1>16
        DEF Next, ClientStep, OwnerStep

LEMMA CallsHold == ASSUME Quiet PROVE Spec => [](IInv /\ CallInv)
<1>1. Init => IInv /\ CallInv
  BY InvariantInit, CallInit
<1>2. IInv /\ CallInv /\ [Next]_vars => (IInv /\ CallInv)'
  BY InvariantStep, CallStep
<1> QED BY <1>1, <1>2, PTL DEF Spec

LEMMA RefinesInit == Init => RC!Init
<1> SUFFICES ASSUME Init PROVE RC!Init
  OBVIOUS
<1>1. Phase = [c \in Clients |-> "idle"]
  BY DEF Init, Phase
<1>2. Serving = [p \in Ports |-> None]
  BY DEF Init, Serving, InService
<1> QED BY <1>1, <1>2 DEF Init, RC!Init

(* What leaves the refined variables alone                                    *)
LEMMA Stutters ==
  ASSUME \A c \in Clients : (pc'[c] = "idle") <=> (pc[c] = "idle"),
         UNCHANGED <<task, queue, reply, target>>
  PROVE  UNCHANGED RC!vars
<1>1. Phase' = Phase
  BY DEF Phase
<1>2. Serving' = Serving
  BY DEF Serving, InService
<1> QED BY <1>1, <1>2 DEF RC!vars

LEMMA RefinesStep ==
  ASSUME IInv, CallInv, IInv', [Next]_vars
  PROVE  [RC!Next]_RC!vars
<1>1. ASSUME NEW c \in Clients, NEW p \in Ports, DoMsg(c, p)
      PROVE  RC!Call(c, p)
  <2>1. /\ pc[c] = "idle" /\ pc' = [pc EXCEPT ![c] = "send"]
        /\ task' = [task EXCEPT ![c] = c]
        /\ target' = [target EXCEPT ![c] = p] /\ UNCHANGED <<queue, reply>>
    BY <1>1 DEF DoMsg
  <2>2. Phase[c] = "idle" /\ Phase' = [Phase EXCEPT ![c] = "calling"]
    BY <2>1 DEF Phase, IInv, TypeOK
  <2>3. Serving' = Serving
    BY <2>1 DEF Serving, InService
  <2> QED BY <2>1, <2>2, <2>3 DEF RC!Call
<1>2. ASSUME NEW c \in Clients, QueueSend(c)
      PROVE  RC!Accept(c) \/ UNCHANGED RC!vars
  <2> DEFINE p == target[c]
  <2>1. /\ pc[c] = "send" /\ p \in Ports /\ task[c] = c
        /\ \A s \in Owners : reply[s] = None
    BY <1>2, NoReply DEF QueueSend, IInv, ClientInv
  <2>2. CASE queue[p] = None
    <3>1. /\ queue' = [queue EXCEPT ![p] = c] /\ pc' = [pc EXCEPT ![c] = "notify"]
          /\ UNCHANGED <<task, reply, target>>
      BY <1>2, <2>2 DEF QueueSend
    <3>2. Phase[c] = "calling" /\ Phase' = Phase
      BY <2>1, <3>1 DEF Phase, IInv, TypeOK
    <3>3. Serving = queue /\ Serving' = queue'
      <4>1. \A q \in Ports : InService(q) = queue[q] /\ InService(q)' = queue'[q]
        BY <2>1, <3>1 DEF InService
      <4>2. queue = [q \in Ports |-> queue[q]] /\ queue' = [q \in Ports |-> queue'[q]]
        BY <3>1 DEF IInv, TypeOK
      <4> QED BY <4>1, <4>2 DEF Serving
    <3>4. \A q \in Ports : queue[q] # c
      BY <2>1 DEF IInv, QueueInv
    <3> QED BY <2>1, <2>2, <3>1, <3>2, <3>3, <3>4 DEF RC!Accept
  <2>3. CASE queue[p] # None
    <3>1. /\ pc' = [pc EXCEPT ![c] = "block"]
          /\ UNCHANGED <<task, queue, reply, target>>
      BY <1>2, <2>3 DEF QueueSend
    <3>2. \A d \in Clients : (pc'[d] = "idle") <=> (pc[d] = "idle")
      BY <2>1, <3>1 DEF IInv, TypeOK
    <3> QED BY <3>1, <3>2, Stutters
  <2> QED BY <2>2, <2>3
<1>3. ASSUME NEW c \in Clients, Return(c) PROVE RC!Return(c)
  <2>1. /\ pc[c] = "done" /\ task[c] = None
        /\ pc' = [pc EXCEPT ![c] = "idle"] /\ task' = [task EXCEPT ![c] = None]
        /\ target' = [target EXCEPT ![c] = None] /\ UNCHANGED <<queue, reply>>
    BY <1>3 DEF Return, IInv, ClientInv
  <2>2. Phase[c] = "answered" /\ Phase' = [Phase EXCEPT ![c] = "idle"]
    BY <2>1 DEF Phase, IInv, TypeOK
  <2>3. Serving' = Serving
    BY <2>1 DEF Serving, InService
  <2> QED BY <2>1, <2>2, <2>3 DEF RC!Return
<1>4. ASSUME NEW s \in Owners, NEW p \in Ports, ReplyMsg(s, p)
      PROVE  UNCHANGED RC!vars
  <2>1. /\ Owner[p] = s /\ queue[p] # None /\ pc[s] = "scan"
        /\ \A o \in Owners : reply[o] = None
    BY <1>4, NoReply DEF ReplyMsg, CanServe, CallInv, PortsOf
  <2>2. /\ queue' = [queue EXCEPT ![p] = None]
        /\ reply' = [reply EXCEPT ![s] = <<p, queue[p]>>]
        /\ UNCHANGED <<target, task>>
    BY <1>4 DEF ReplyMsg
  <2>3. Phase' = Phase
    <3>1. CASE sendq[p] # <<>>
      <4>1. Head(sendq[p]) \in Clients /\ pc[Head(sendq[p])] = "sendwait"
        BY <3>1 DEF IInv, TypeOK, SendqInv
      <4>2. pc' = [pc EXCEPT ![s] = "reply", ![Head(sendq[p])] = "send"]
        BY <1>4, <3>1 DEF ReplyMsg
      <4> QED BY <2>2, <4>1, <4>2 DEF Phase, IInv, TypeOK
    <3>2. CASE sendq[p] = <<>>
      <4>1. pc' = [pc EXCEPT ![s] = "reply"]
        BY <1>4, <3>2 DEF ReplyMsg
      <4> QED BY <2>2, <4>1 DEF Phase, IInv, TypeOK
    <3> QED BY <3>1, <3>2
  <2>4. Serving' = Serving
    <3>1. \A o \in Owners : reply'[o] = IF o = s THEN <<p, queue[p]>> ELSE None
      BY <2>1, <2>2 DEF IInv, TypeOK
    <3>2. \A q \in Ports : queue'[q] = IF q = p THEN None ELSE queue[q]
      BY <2>2 DEF IInv, TypeOK
    <3>3. <<p, queue[p]>> # None
      BY <2>1, NoneAssumption DEF IInv, TypeOK
    <3> QED BY <2>1, <3>1, <3>2, <3>3 DEF Serving, InService
  <2> QED BY <2>2, <2>3, <2>4 DEF RC!vars
<1>5. ASSUME NEW s \in Owners, ClearTask(s)
      PROVE  RC!Answer(reply[s][2])
  <2> DEFINE c == reply[s][2]
             p == reply[s][1]
  <2>1. /\ pc[s] = "clear" /\ c \in Clients /\ p \in Ports
        /\ reply[s] # None
        /\ Owner[p] = s /\ target[c] = p /\ queue[p] = None
        /\ pc[c] \in Inside /\ task[c] = c
    <3>1. pc[s] = "clear"
      BY <1>5 DEF ClearTask
    <3>2. /\ reply[s] \in Ports \X Clients
          /\ pc[c] \in Inside /\ task[c] = c
      BY <3>1 DEF IInv, ReplyInv
    <3>3. Owner[p] = s /\ target[c] = p /\ queue[p] = None
      BY <3>1 DEF CallInv
    <3> QED BY <3>1, <3>2, <3>3, NoneAssumption
  <2>2. /\ pc' = [pc EXCEPT ![s] = "scan"] /\ task' = [task EXCEPT ![c] = None]
        /\ reply' = [reply EXCEPT ![s] = None] /\ UNCHANGED <<queue, target>>
    BY <1>5 DEF ClearTask
  <2> HIDE DEF c, p
  <2>3. Phase[c] = "calling" /\ Phase' = [Phase EXCEPT ![c] = "answered"]
    <3>1. \A d \in Clients : pc'[d] = pc[d]
      BY <2>2 DEF IInv, TypeOK
    <3>2. \A d \in Clients : task'[d] = IF d = c THEN None ELSE task[d]
      BY <2>2 DEF IInv, TypeOK
    <3>3. pc[c] # "idle" /\ c # None
      BY <2>1 DEF IInv, TypeOK
    <3> QED BY <2>1, <3>1, <3>2, <3>3 DEF Phase
  <2>4. Serving[p] = c
    BY <2>1 DEF Serving, InService, c, p
  <2>5. Serving' = [Serving EXCEPT ![p] = None]
    <3>1. \A o \in Owners : reply'[o] = IF o = s THEN None ELSE reply[o]
      BY <2>2 DEF IInv, TypeOK
    <3>2. ASSUME NEW q \in Ports
          PROVE  Serving'[q] = IF q = p THEN None ELSE Serving[q]
      <4>1. CASE Owner[q] = s
        BY <2>1, <2>2, <3>1, <4>1 DEF Serving, InService, p
      <4>2. CASE Owner[q] # s
        BY <2>1, <2>2, <3>1, <4>2 DEF Serving, InService, p
      <4> QED BY <4>1, <4>2
    <3>3. Serving' = [q \in Ports |-> Serving'[q]]
      BY DEF Serving
    <3>4. Serving = [q \in Ports |-> Serving[q]]
      BY DEF Serving
    <3> QED BY <3>2, <3>3, <3>4, Zenon
  <2> QED BY <2>1, <2>2, <2>3, <2>4, <2>5 DEF RC!Answer, c
<1>6. ASSUME NEW c \in Clients, QueueBlock(c) \/ NotifyOwner(c) \/ ClientWait(c)
      PROVE  UNCHANGED RC!vars
  <2>1. UNCHANGED <<task, queue, reply, target>>
    BY <1>6 DEF QueueBlock, NotifyOwner, ClientWait
  <2>2. \A d \in Clients : (pc'[d] = "idle") <=> (pc[d] = "idle")
    BY <1>6 DEF QueueBlock, NotifyOwner, ClientWait, NotifyWaitEnter,
                NotifyWaitResume, IInv, TypeOK
  <2> QED BY <2>1, <2>2, Stutters
<1>7. ASSUME NEW s \in Owners,
             \/ OwnerWait(s) \/ Rescan(s) \/ NotifySender(s) \/ Timeout(s)
             \/ \E p \in Ports : Skip(s, p)
      PROVE  UNCHANGED RC!vars
  <2>1. UNCHANGED <<task, queue, reply, target>>
    BY <1>7 DEF OwnerWait, Rescan, NotifySender, Timeout, Skip
  <2>2. \A d \in Clients : pc'[d] = pc[d]
    BY <1>7 DEF OwnerWait, Rescan, NotifySender, Timeout, Skip, NotifyWaitEnter,
                NotifyWaitResume, IInv, TypeOK
  <2> QED BY <2>1, <2>2, Stutters
<1>8. ASSUME \/ \E p \in Ports : InputFromISR(p)
             \/ \E t \in Tasks : OtherIRQ(t)
             \/ UNCHANGED vars
      PROVE  UNCHANGED RC!vars
  <2>1. UNCHANGED <<pc, task, queue, reply, target>>
    BY <1>8 DEF InputFromISR, OtherIRQ, vars
  <2> QED BY <2>1, Stutters
<1>9. ASSUME NEW s \in Owners, ClearTask(s) PROVE RC!Next
  <2>1. reply[s][2] \in Clients
    BY <1>9 DEF ClearTask, IInv, ReplyInv
  <2> QED BY <1>5, <1>9, <2>1 DEF RC!Next
<1> QED BY <1>1, <1>2, <1>3, <1>4, <1>6, <1>7, <1>8, <1>9
        DEF Next, ClientStep, OwnerStep, RC!Next

(* Message ports implement remote calls: whatever the priorities, the number  *)
(* of clients and the moments at which tasks are preempted, a port serves one *)
(* call at a time and a caller goes on after its own call has been answered,  *)
(* once (DoMsg, ReplyMsg)                                                     *)
THEOREM PortsImplementCalls == ASSUME Quiet PROVE Spec => ImplementsRemoteCall
<1>1. Init => RC!Init
  BY RefinesInit
<1>2. IInv /\ CallInv /\ IInv' /\ [Next]_vars => [RC!Next]_RC!vars
  BY RefinesStep
<1> QED BY <1>1, <1>2, CallsHold, PTL DEF Spec, ImplementsRemoteCall, RC!Spec

----------------------------------------------------------------------------
(* Wake-ups                                                                   *)

(* The task of a drive: it owns one port, and waits for its messages only     *)
Dedicated(p) ==
  Owner[p] \in Timed /\ PortsOf(Owner[p]) = {p}

(* Its port holds the message of a client that has notified it                *)
Announced(p) == queue[p] # None /\ pc[queue[p]] # "notify"

WakeInv ==
  \A p \in Ports : Dedicated(p) =>
    LET s == Owner[p] IN
    /\ \A c \in Clients : pc[c] = "notify" /\ target[c] = p => queue[p] = c
    /\ HasReply(s) => Announced(p) /\ ~ (pc[s] = "scan" /\ todo[s] # {})
                      /\ pc[s] \notin {"reply", "clear"}
    /\ pc[s] = "scan" /\ todo[s] # {} => Announced(p)
    /\ pc[s] # "scan" => todo[s] = {}

LEMMA WakeInit == Init => WakeInv
  BY DEF Init, WakeInv, TN!FreshTCB

LEMMA WakeStep ==
  ASSUME IInv, CallInv, WakeInv, IInv', [Next]_vars
  PROVE  WakeInv'
<1> SUFFICES ASSUME NEW p \in Ports, Dedicated(p)
             PROVE  LET s == Owner[p] IN
    /\ \A c \in Clients : pc'[c] = "notify" /\ target'[c] = p => queue'[p] = c
    /\ HasReply(s)' => /\ Announced(p)' /\ ~ (pc'[s] = "scan" /\ todo'[s] # {})
                       /\ pc'[s] \notin {"reply", "clear"}
    /\ pc'[s] = "scan" /\ todo'[s] # {} => Announced(p)'
    /\ pc'[s] # "scan" => todo'[s] = {}
  BY DEF WakeInv, Dedicated, PortsOf
<1> DEFINE s == Owner[p]
           Same == /\ HasReply(s)' => HasReply(s)
                   /\ pc'[s] = pc[s] /\ todo'[s] = todo[s]
           Goal == /\ \A c \in Clients :
                        pc'[c] = "notify" /\ target'[c] = p => queue'[p] = c
                   /\ HasReply(s)' =>
                        /\ Announced(p)' /\ ~ (pc'[s] = "scan" /\ todo'[s] # {})
                        /\ pc'[s] \notin {"reply", "clear"}
                   /\ pc'[s] = "scan" /\ todo'[s] # {} => Announced(p)'
                   /\ pc'[s] # "scan" => todo'[s] = {}
<1> SUFFICES Goal
  OBVIOUS
<1>0. /\ s \in Owners /\ s \in Timed /\ s \notin Clients
      /\ \A q \in Ports : Owner[q] = s => q = p
      /\ \A c \in Clients : pc[c] = "notify" /\ target[c] = p => queue[p] = c
      /\ HasReply(s) => /\ Announced(p) /\ ~ (pc[s] = "scan" /\ todo[s] # {})
                        /\ pc[s] \notin {"reply", "clear"}
      /\ pc[s] = "scan" /\ todo[s] # {} => Announced(p)
      /\ pc[s] # "scan" => todo[s] = {}
      /\ todo[s] \subseteq {p}
      /\ queue[p] # None => queue[p] \in Clients /\ pc[queue[p]] \in Inside
                            /\ target[queue[p]] = p
      /\ queue'[p] # None => queue'[p] \in Clients /\ pc'[queue'[p]] \in Inside
  <2>1. /\ s \in Owners /\ s \in Timed /\ s \notin Clients
        /\ \A q \in Ports : Owner[q] = s => q = p
        /\ todo[s] \subseteq {p}
    BY DEF Dedicated, PortsOf, CallInv
  <2>2. /\ \A c \in Clients : pc[c] = "notify" /\ target[c] = p => queue[p] = c
        /\ HasReply(s) => /\ Announced(p) /\ ~ (pc[s] = "scan" /\ todo[s] # {})
                          /\ pc[s] \notin {"reply", "clear"}
        /\ pc[s] = "scan" /\ todo[s] # {} => Announced(p)
        /\ pc[s] # "scan" => todo[s] = {}
    BY DEF WakeInv
  <2>3. queue[p] # None => queue[p] \in Clients /\ pc[queue[p]] \in Inside
                            /\ target[queue[p]] = p
    BY DEF IInv, TypeOK, QueueInv
  <2>4. queue'[p] # None => queue'[p] \in Clients /\ pc'[queue'[p]] \in Inside
    BY DEF IInv, TypeOK, QueueInv
  <2> QED BY <2>1, <2>2, <2>3, <2>4
<1> HIDE DEF Goal
<1>1. ASSUME NEW c \in Clients, NEW q \in Ports, DoMsg(c, q) PROVE Goal
  BY <1>0, <1>1 DEF DoMsg, IInv, TypeOK, Goal, Announced
<1>2. ASSUME NEW c \in Clients, QueueSend(c) PROVE Goal
  BY <1>0, <1>2 DEF QueueSend, IInv, TypeOK, Goal, Announced
<1>3. ASSUME NEW c \in Clients, QueueBlock(c) PROVE Goal
  BY <1>0, <1>3 DEF QueueBlock, IInv, TypeOK, Goal, Announced
<1>4. ASSUME NEW c \in Clients, NotifyOwner(c) PROVE Goal
  <2>1. /\ pc[c] = "notify" /\ target[c] \in Ports
        /\ pc' = [pc EXCEPT ![c] = "wait"] /\ UNCHANGED <<queue, target, todo>>
        /\ DOMAIN pc = Tasks
    BY <1>4 DEF NotifyOwner, IInv, TypeOK, ClientInv
  <2>2. /\ \A t \in Tasks : t # c => pc'[t] = pc[t]
        /\ pc'[c] = "wait"
    BY <2>1
  <2>3. CASE target[c] = p
    <3>1. queue[p] = c /\ Announced(p)' /\ ~ Announced(p) /\ c # None
      BY <1>0, <2>1, <2>2, <2>3 DEF Announced
    <3>2. ~ (pc'[s] = "scan" /\ todo'[s] # {}) /\ pc'[s] = pc[s] /\ todo'[s] = todo[s]
      BY <1>0, <2>1, <2>2, <3>1
    <3>3. pc[s] \notin {"reply", "clear"}
      BY <1>0, <1>4, NoReply DEF NotifyOwner
    <3> QED BY <1>0, <2>1, <2>2, <2>3, <3>1, <3>2, <3>3 DEF Goal
  <2>4. CASE target[c] # p
    <3>1. Owner[target[c]] # s
      BY <1>0, <2>1, <2>4
    <3>2. tcb'[s] = tcb[s]
      BY <1>4, <3>1 DEF NotifyOwner, Notify, IInv, TypeOK
    <3> QED BY <1>0, <2>1, <2>2, <2>4, <3>2 DEF Goal, Announced
  <2> QED BY <2>3, <2>4
<1>5. ASSUME NEW c \in Clients, ClientWait(c) PROVE Goal
  <2>1. /\ pc'[c] \in {"waiting", "done"}
        /\ \A t \in Tasks : t # c => pc'[t] = pc[t] /\ tcb'[t] = tcb[t]
        /\ UNCHANGED <<queue, target, todo>>
    BY <1>5 DEF ClientWait, NotifyWaitEnter, NotifyWaitResume, IInv, TypeOK
  <2> QED BY <1>0, <2>1 DEF Goal, Announced
<1>6. ASSUME NEW c \in Clients, Return(c) PROVE Goal
  BY <1>0, <1>6 DEF Return, IInv, TypeOK, Goal, Announced
<1>7. ASSUME NEW o \in Owners, OwnerWait(o) PROVE Goal
  <2>1. /\ UNCHANGED <<queue, target>>
        /\ \A t \in Tasks : t # o => pc'[t] = pc[t] /\ tcb'[t] = tcb[t]
        /\ \A t \in Owners : t # o => todo'[t] = todo[t]
    BY <1>7 DEF OwnerWait, NotifyWaitEnter, NotifyWaitResume, IInv, TypeOK
  <2>2. CASE o # s
    BY <1>0, <2>1, <2>2 DEF Goal, Announced
  <2>3. CASE o = s
    <3>1. /\ pc[s] \in {"wait", "waiting"} /\ Mask(s) = {"NB_MSGPORT"}
          /\ todo'[s] = IF pc'[s] = "scan" THEN PortsOf(s) ELSE {}
      BY <1>0, <1>7, <2>3 DEF OwnerWait, NotifyWaitEnter, NotifyWaitResume, Mask,
                              IInv, TypeOK
    <3>2. /\ pc'[s] = "scan" => HasReply(s)
          /\ HasReply(s)' => HasReply(s) /\ pc'[s] # "scan"
          /\ pc'[s] \notin {"reply", "clear"}
      <4>1. CASE NotifyWaitEnter(s, "scan")
        BY <1>0, <3>1, <4>1 DEF NotifyWaitEnter, TN!Polled, TN!Blocked, IInv,
                                TypeOK
      <4>2. CASE NotifyWaitResume(s, "scan", "wait")
        <5>1. tcb[s] \in TN!TCB /\ DOMAIN tcb = Tasks /\ DOMAIN pc = Tasks
          BY <1>0 DEF IInv, TypeOK
        <5> DEFINE resumed == TN!Resumed(tcb[s], Mask(s))
        <5>2. /\ resumed \in TN!TCB
              /\ "NB_MSGPORT" \in resumed.value => HasReply(s)
              /\ tcb[s].state = "received" => "NB_MSGPORT" \notin resumed.value
          BY <3>1, <5>1 DEF TN!Resumed
        <5>3. TN!Blocked(resumed).value = resumed.value
          BY <5>2 DEF TN!Blocked
        <5> HIDE DEF resumed
        <5>4. CASE /\ tcb' = [tcb EXCEPT ![s] = resumed]
                   /\ pc' = [pc EXCEPT ![s] =
                        IF tcb[s].state = "received" /\ tcb[s].value \cap Mask(s) # {}
                        THEN "scan" ELSE "wait"]
          BY <1>0, <3>1, <5>1, <5>2, <5>4
        <5>5. CASE tcb' = [tcb EXCEPT ![s] = TN!Blocked(resumed)] /\ pc' = pc
          BY <1>0, <3>1, <5>1, <5>2, <5>3, <5>5
        <5> QED BY <4>2, <5>4, <5>5 DEF NotifyWaitResume, resumed
      <4> QED BY <1>0, <1>7, <2>3, <4>1, <4>2 DEF OwnerWait
    <3>3. \A c \in Clients : pc'[c] = pc[c]
      BY <2>1, <2>3
    <3> QED BY <1>0, <2>1, <3>1, <3>2, <3>3 DEF Goal, Announced
  <2> QED BY <2>2, <2>3
<1>8. ASSUME NEW o \in Owners, NEW q \in Ports, Skip(o, q) PROVE Goal
  BY <1>0, <1>8 DEF Skip, IInv, TypeOK, Goal, Announced
<1>9. ASSUME NEW o \in Owners, Rescan(o) PROVE Goal
  BY <1>0, <1>9 DEF Rescan, IInv, TypeOK, Goal, Announced
<1>10. ASSUME NEW o \in Owners, NEW q \in Ports, ReplyMsg(o, q) PROVE Goal
  <2>1. /\ Owner[q] = o /\ pc[o] = "scan" /\ q \in todo[o]
        /\ UNCHANGED <<tcb, target>>
        /\ queue' = [queue EXCEPT ![q] = None]
        /\ todo' = [todo EXCEPT ![o] = @ \ {q}]
    BY <1>10 DEF ReplyMsg, CallInv, PortsOf
  <2>2. /\ \A t \in Owners : t # o => pc'[t] = pc[t]
        /\ pc'[o] = "reply"
        /\ \A c \in Clients :
             pc'[c] = pc[c] \/ (pc[c] = "sendwait" /\ pc'[c] = "send")
    <3>1. CASE sendq[q] # <<>>
      <4>1. Head(sendq[q]) \in Clients /\ pc[Head(sendq[q])] = "sendwait"
        BY <3>1 DEF IInv, TypeOK, SendqInv
      <4>2. pc' = [pc EXCEPT ![o] = "reply", ![Head(sendq[q])] = "send"]
        BY <1>10, <3>1 DEF ReplyMsg
      <4>3. o \in Tasks /\ o \notin Clients /\ DOMAIN pc = Tasks
        BY DEF IInv, TypeOK
      <4> QED BY <4>1, <4>2, <4>3
    <3>2. CASE sendq[q] = <<>>
      <4>1. pc' = [pc EXCEPT ![o] = "reply"]
        BY <1>10, <3>2 DEF ReplyMsg
      <4>2. o \in Tasks /\ o \notin Clients /\ DOMAIN pc = Tasks
        BY DEF IInv, TypeOK
      <4> QED BY <4>1, <4>2
    <3> QED BY <3>1, <3>2
  <2>3. CASE o = s
    <3>1. q = p /\ Announced(p) /\ ~ HasReply(s) /\ todo'[s] = {}
      BY <1>0, <2>1, <2>3 DEF IInv, TypeOK
    <3> QED BY <1>0, <2>1, <2>2, <2>3, <3>1 DEF Goal, Announced
  <2>4. CASE o # s
    <3>1. q # p /\ queue'[p] = queue[p] /\ todo'[s] = todo[s]
      BY <1>0, <2>1, <2>4 DEF IInv, TypeOK
    <3> QED BY <1>0, <2>1, <2>2, <2>4, <3>1 DEF Goal, Announced
  <2> QED BY <2>3, <2>4
<1>11. ASSUME NEW o \in Owners, NotifySender(o) PROVE Goal
  <2>1. reply[o][2] \in Clients /\ task[reply[o][2]] = reply[o][2]
    BY <1>11 DEF NotifySender, IInv, ReplyInv
  <2> QED BY <1>0, <1>11, <2>1 DEF NotifySender, Notify, IInv, TypeOK, Goal,
                                   Announced
<1>12. ASSUME NEW o \in Owners, ClearTask(o) PROVE Goal
  BY <1>0, <1>12 DEF ClearTask, IInv, TypeOK, Goal, Announced
<1>13. ASSUME NEW o \in Owners, Timeout(o) PROVE Goal
  BY <1>0, <1>13 DEF Timeout, Goal, Announced
<1>14. ASSUME NEW t \in Tasks, NEW bits \in SUBSET (NB \ {"NB_MSGPORT"}),
              Notify(t, bits), UNCHANGED <<pc, queue, target, todo>>
       PROVE  Goal
  BY <1>0, <1>14 DEF Notify, TN!Notified, IInv, TypeOK, Goal, Announced
<1>15. ASSUME NEW q \in Ports, InputFromISR(q) PROVE Goal
  BY <1>14, <1>15 DEF InputFromISR
<1>16. ASSUME NEW t \in Tasks, OtherIRQ(t) PROVE Goal
  BY <1>14, <1>16 DEF OtherIRQ
<1>17. CASE UNCHANGED vars
  BY <1>0, <1>17 DEF vars, Goal, Announced
<1> QED BY <1>1, <1>2, <1>3, <1>4, <1>5, <1>6, <1>7, <1>8, <1>9, <1>10, <1>11,
           <1>12, <1>13, <1>15, <1>16, <1>17
        DEF Next, ClientStep, OwnerStep

(* FloppyIoTask never wakes up to an empty port, so that its assertion that   *)
(* there is a message holds                                                   *)
THEOREM NoEmptyWakeupHolds == ASSUME Quiet PROVE Spec => []NoEmptyWakeup
<1>1. Init => WakeInv
  BY WakeInit
<1>2. IInv /\ CallInv /\ WakeInv /\ IInv' /\ [Next]_vars => WakeInv'
  BY WakeStep
<1>3. WakeInv => NoEmptyWakeup
  BY DEF WakeInv, NoEmptyWakeup, Dedicated, Announced
<1> QED BY <1>1, <1>2, <1>3, CallsHold, PTL DEF Spec

HIDE SortsAssumption DEF Tasks, NB, ClientPcs, OwnerPcs, Sending, Inside,
                         HasReply, TN!TCB

------------------------------------------------------------------------------
(* NotifyWait                                                                 *)

USE TicksAssumption DEF AllBits, WN!TCB

(* In the middle of a wait, before a notification came, no awaited bit is on  *)
WaitInv ==
  /\ phase = "blocked" => own.state = "waiting"
  /\ phase # "run" /\ own.state # "received" => own.value \cap mask = {}

WaitIInv == WaitTypeOK /\ WaitInv

LEMMA TickRange == \A n \in Nat : Tick(n) \in 0 .. TickMax
  BY DEF Tick

(* what blocking does to the variables it touches *)
LEMMA BlockType ==
  ASSUME NEW t \in WN!TCB, NEW n \in 0 .. TickMax, WaitTypeOK, Block(t, n)
  PROVE  /\ own' \in WN!TCB /\ ticks' \in 0 .. TickMax /\ phase' = "blocked"
         /\ wake' \in 0 .. Forever
         /\ own'.state = "waiting" /\ own'.value = t.value
<1>1. wake' \in 0 .. Forever
  BY DEF Block, WaitTypeOK, Forever
<1> QED BY <1>1 DEF Block, WN!Blocked

LEMMA EnterStep ==
  ASSUME NEW m \in Masks, NEW n \in Timeouts, WaitIInv, Enter(m, n)
  PROVE  WaitIInv'
<1> DEFINE polled == WN!Polled(own, m)
<1>1. polled \in WN!TCB /\ polled.state = "none" /\ polled.value = own.value \ m
  BY DEF WaitIInv, WaitTypeOK, WN!Polled
<1>2. /\ phase = "run" /\ mask' = m /\ elapsed' = elapsed
      /\ asked' \in [since: 0 .. MaxElapsed, ticks: 0 .. TickMax]
  BY DEF Enter, WaitIInv, WaitTypeOK
<1>3. CASE own.value \cap m # {} \/ n = 0
  <2>1. own' = polled /\ result' = own.value \cap m
        /\ UNCHANGED <<phase, ticks, end, wake>>
    BY <1>3 DEF Enter
  <2> HIDE DEF polled
  <2> QED BY <1>1, <1>2, <2>1 DEF WaitIInv, WaitTypeOK, WaitInv, Forever
<1>4. CASE ~(own.value \cap m # {} \/ n = 0)
  <2>1. end' = Tick(elapsed + n) /\ Block(polled, n) /\ UNCHANGED result
    BY <1>4 DEF Enter
  <2>2. end' \in 0 .. TickMax
    BY <2>1, TickRange DEF WaitIInv, WaitTypeOK
  <2> HIDE DEF polled
  <2>3. /\ own' \in WN!TCB /\ ticks' \in 0 .. TickMax /\ phase' = "blocked"
        /\ wake' \in 0 .. Forever
        /\ own'.state = "waiting" /\ own'.value = polled.value
    BY <1>1, <2>1, BlockType DEF WaitIInv
  <2> QED BY <1>1, <1>2, <1>4, <2>1, <2>2, <2>3 DEF WaitIInv, WaitTypeOK, WaitInv, Forever
<1> QED BY <1>3, <1>4

LEMMA ResumeStep ==
  ASSUME WaitIInv, Resume
  PROVE  WaitIInv'
<1> DEFINE resumed == WN!Resumed(own, mask)
           leave == (own.state = "received" /\ own.value \cap mask # {}) \/ end <= Now
<1>1. resumed \in WN!TCB /\ resumed.value \cap mask = {}
  BY DEF WaitIInv, WaitTypeOK, WaitInv, WN!Resumed, Resume
<1>2. phase = "ready" /\ UNCHANGED <<elapsed, mask, end, asked>>
  BY DEF Resume
<1>3. CASE leave
  <2>1. /\ own' = resumed /\ result' = own.value \cap mask /\ phase' = "run"
        /\ wake' = Forever /\ UNCHANGED ticks
    BY <1>3 DEF Resume
  <2>2. Forever \in 0 .. Forever
    BY DEF Forever
  <2> HIDE DEF resumed
  <2> QED BY <1>1, <1>2, <2>1, <2>2 DEF WaitIInv, WaitTypeOK, WaitInv, Forever
<1>4. CASE ~leave
  <2>1. Block(resumed, end - Now) /\ UNCHANGED result
    BY <1>4 DEF Resume
  <2>2. end - Now \in 0 .. TickMax
    BY <1>4, TickRange DEF WaitIInv, WaitTypeOK, Now
  <2> HIDE DEF resumed
  <2>3. /\ own' \in WN!TCB /\ ticks' \in 0 .. TickMax /\ phase' = "blocked"
        /\ wake' \in 0 .. Forever
        /\ own'.state = "waiting" /\ own'.value = resumed.value
    BY <1>1, <2>1, <2>2, BlockType DEF WaitIInv
  <2> QED BY <1>1, <1>2, <2>1, <2>3 DEF WaitIInv, WaitTypeOK, WaitInv, Forever
<1> QED BY <1>3, <1>4

LEMMA WaitInvariantHolds == WaitSpec => []WaitIInv
<1>1. WaitInit => WaitIInv
  BY DEF WaitInit, WaitIInv, WaitTypeOK, WaitInv, Forever, WN!FreshTCB
<1>2. WaitIInv /\ [WaitNext]_waitVars => WaitIInv'
  <2> SUFFICES ASSUME WaitIInv, [WaitNext]_waitVars PROVE WaitIInv'
    OBVIOUS
  <2>1. CASE \E m \in Masks, n \in Timeouts : Enter(m, n)
    BY <2>1, EnterStep
  <2>2. CASE Resume
    BY <2>2, ResumeStep
  <2>3. ASSUME NEW b \in AllBits, NotifySendFromISR({b}) PROVE WaitIInv'
    <3>1. own' \in WN!TCB /\ own'.state = "received"
      BY <2>3 DEF NotifySendFromISR, WaitIInv, WaitTypeOK, WN!Notified
    <3> QED BY <2>3, <3>1 DEF NotifySendFromISR, WaitIInv, WaitTypeOK, WaitInv, Forever
  <2>4. CASE IncrementTick
    BY <2>4 DEF IncrementTick, WaitIInv, WaitTypeOK, WaitInv, Forever
  <2>5. CASE UNCHANGED waitVars
    BY <2>5 DEF waitVars, WaitIInv, WaitTypeOK, WaitInv, Forever
  <2> QED BY <2>1, <2>2, <2>3, <2>4, <2>5 DEF WaitNext
<1> QED BY <1>1, <1>2, PTL DEF WaitSpec

(* A task never sleeps with a bit on that it waits for                        *)
THEOREM NoSleepOnBitHolds == WaitSpec => []NoSleepOnBit
<1>1. WaitIInv => NoSleepOnBit
  BY DEF WaitIInv, WaitInv, NoSleepOnBit
<1> QED BY <1>1, WaitInvariantHolds, PTL

(* A bit leaves the notified value only into the result of a NotifyWait that  *)
(* waited for it                                                              *)
THEOREM BitsConsumedOnceHolds == WaitSpec => BitsConsumedOnce
<1> DEFINE Kept == \A b \in own.value : b \in own'.value \/ (Returns /\ b \in result')
<1>1. WaitIInv /\ [WaitNext]_waitVars => [Kept]_waitVars
  <2> SUFFICES ASSUME WaitIInv, WaitNext PROVE Kept
    OBVIOUS
  <2>1. ASSUME NEW m \in Masks, NEW n \in Timeouts, Enter(m, n) PROVE Kept
    <3>1. CASE own.value \cap m # {} \/ n = 0
      <4>1. /\ own' = WN!Polled(own, m) /\ result' = own.value \cap m
            /\ phase = "run" /\ phase' = phase
        BY <2>1, <3>1 DEF Enter
      <4>2. Returns
        BY <2>1, <4>1 DEF Returns
      <4> QED BY <4>1, <4>2 DEF WN!Polled
    <3>2. CASE ~(own.value \cap m # {} \/ n = 0)
      BY <2>1, <3>2 DEF Enter, Block, WN!Polled, WN!Blocked
    <3> QED BY <3>1, <3>2
  <2>2. CASE Resume
    <3>1. CASE phase' = "run"
      <4>1. Returns /\ result' = own.value \cap mask /\ own' = WN!Resumed(own, mask)
        BY <2>2, <3>1 DEF Resume, Returns, Block
      <4> QED BY <4>1 DEF WN!Resumed
    <3>2. CASE phase' # "run"
      <4>1. own' = WN!Blocked(WN!Resumed(own, mask))
            /\ ~(own.state = "received" /\ own.value \cap mask # {})
        BY <2>2, <3>2 DEF Resume, Block
      <4> QED BY <4>1 DEF WN!Blocked, WN!Resumed
    <3> QED BY <3>1, <3>2
  <2>3. CASE \E b \in AllBits : NotifySendFromISR({b})
    BY <2>3 DEF NotifySendFromISR, WN!Notified
  <2>4. CASE IncrementTick
    BY <2>4 DEF IncrementTick
  <2> QED BY <2>1, <2>2, <2>3, <2>4 DEF WaitNext
<1> QED BY <1>1, WaitInvariantHolds, PTL DEF WaitSpec, BitsConsumedOnce

(* Every variable has its type, whatever the width of the counter             *)
THEOREM WaitTypeCorrect == WaitSpec => []WaitTypeOK
<1>1. WaitIInv => WaitTypeOK
  BY DEF WaitIInv
<1> QED BY <1>1, WaitInvariantHolds, PTL

----------------------------------------------------------------------------
(* Deadlines.  Nobody waits for ever, and the machine is not up for so long   *)
(* that a deadline lies behind the wrap of the tick counter: at 50 Hz and 32  *)
(* bits that takes 2.7 years.  NotifyWait needs both (kernel/notify.c:13,23). *)
Unwrapped == \A n \in Timeouts : MaxElapsed + n < TickMax

(* A task in the middle of a wait goes by the deadline it set when it called  *)
DeadlineInv ==
  /\ phase # "run" =>
       /\ asked.ticks \in Timeouts
       /\ end = asked.since + asked.ticks
  /\ phase = "blocked" => wake = asked.since + asked.ticks

LEMMA NoWrap ==
  ASSUME NEW n \in 0 .. TickMax
  PROVE  Tick(n) = n
  BY DEF Tick

LEMMA InRange ==
  ASSUME Unwrapped
  PROVE  \A n \in Timeouts : \A s \in 0 .. MaxElapsed :
           s + n < TickMax /\ s \in 0 .. TickMax
<1> SUFFICES ASSUME NEW n \in Timeouts, NEW s \in 0 .. MaxElapsed
             PROVE  s + n < TickMax /\ s \in 0 .. TickMax
  OBVIOUS
<1>1. MaxElapsed + n < TickMax
  BY DEF Unwrapped
<1>2. n \in Nat
  OBVIOUS
<1> QED BY <1>1, <1>2

LEMMA DeadlineEnter ==
  ASSUME Unwrapped, NEW m \in Masks, NEW n \in Timeouts, WaitIInv, DeadlineInv,
         Enter(m, n)
  PROVE  DeadlineInv'
<1>1. /\ phase = "run" /\ asked' = [since |-> elapsed, ticks |-> n]
      /\ asked'.since = elapsed /\ asked'.ticks = n
  BY DEF Enter
<1>2. CASE phase' = "run"
  BY <1>2 DEF DeadlineInv
<1>3. CASE phase' # "run"
  <2>1. end' = Tick(elapsed + n) /\ Block(WN!Polled(own, m), n)
    BY <1>1, <1>3 DEF Enter
  <2>2. elapsed + n \in 0 .. TickMax /\ n # portMAX_DELAY
    BY DEF Unwrapped, WaitIInv, WaitTypeOK, portMAX_DELAY
  <2>3. end' = elapsed + n
    BY <2>1, <2>2, NoWrap
  <2>4. wake' = elapsed + n
    BY <2>1, <2>2 DEF Block
  <2> QED BY <1>1, <2>3, <2>4 DEF DeadlineInv
<1> QED BY <1>2, <1>3

LEMMA DeadlineResume ==
  ASSUME Unwrapped, WaitIInv, DeadlineInv, Resume
  PROVE  DeadlineInv'
<1>1. phase = "ready" /\ UNCHANGED <<elapsed, mask, end, asked>>
  BY DEF Resume
<1>2. CASE phase' = "run"
  BY <1>2 DEF DeadlineInv
<1>3. CASE phase' # "run"
  <2>1. Block(WN!Resumed(own, mask), end - Now) /\ ~ end <= Now
    BY <1>1, <1>3 DEF Resume
  <2>2. Now = elapsed /\ elapsed \in Nat
    <3>1. asked.ticks \in Timeouts
      BY <1>1 DEF DeadlineInv
    <3>2. elapsed \in 0 .. TickMax
      BY <3>1 DEF Unwrapped, WaitIInv, WaitTypeOK
    <3> QED BY <3>2, NoWrap DEF Now
  <2>3. asked.ticks \in Timeouts /\ end = asked.since + asked.ticks
    BY <1>1 DEF DeadlineInv
  <2>4. asked.since \in 0 .. MaxElapsed /\ end \in 0 .. TickMax
    BY DEF WaitIInv, WaitTypeOK
  <2>5. end < TickMax
    BY <2>3, <2>4, InRange
  <2>6. wake' = elapsed + (end - elapsed)
    BY <2>1, <2>2, <2>4, <2>5 DEF Block, portMAX_DELAY
  <2>7. wake' = end
    BY <2>2, <2>4, <2>6
  <2> QED BY <1>1, <2>3, <2>7 DEF DeadlineInv
<1> QED BY <1>2, <1>3

LEMMA DeadlinesHold == ASSUME Unwrapped PROVE WaitSpec => []DeadlineInv
<1>1. WaitInit => DeadlineInv
  BY DEF WaitInit, DeadlineInv
<1>2. WaitIInv /\ DeadlineInv /\ [WaitNext]_waitVars => DeadlineInv'
  <2> SUFFICES ASSUME WaitIInv, DeadlineInv, [WaitNext]_waitVars PROVE DeadlineInv'
    OBVIOUS
  <2>1. CASE \E m \in Masks, n \in Timeouts : Enter(m, n)
    BY <2>1, DeadlineEnter
  <2>2. CASE Resume
    BY <2>2, DeadlineResume
  <2>3. CASE \E b \in AllBits : NotifySendFromISR({b})
    BY <2>3 DEF NotifySendFromISR, DeadlineInv
  <2>4. CASE IncrementTick
    BY <2>4 DEF IncrementTick, DeadlineInv
  <2>5. CASE UNCHANGED waitVars
    BY <2>5 DEF waitVars, DeadlineInv
  <2> QED BY <2>1, <2>2, <2>3, <2>4, <2>5 DEF WaitNext
<1> QED BY <1>1, <1>2, WaitInvariantHolds, PTL DEF WaitSpec

(* However often it is woken up early, a task sleeps until the deadline it    *)
(* set when it called, neither longer nor shorter                             *)
THEOREM DeadlineKeptHolds == ASSUME Unwrapped PROVE WaitSpec => []DeadlineKept
<1>1. DeadlineInv => DeadlineKept
  BY DEF DeadlineInv, DeadlineKept
<1> QED BY <1>1, DeadlinesHold, PTL

(* NotifyWait returns 0 only when the time it was given has passed            *)
THEOREM ZeroOnlyAfterTimeoutHolds ==
  ASSUME Unwrapped PROVE WaitSpec => ZeroOnlyAfterTimeout
<1> DEFINE Late == Returns /\ result' = {} =>
                     /\ asked'.ticks # portMAX_DELAY
                     /\ elapsed >= asked'.since + asked'.ticks
<1>1. WaitIInv /\ DeadlineInv /\ [WaitNext]_waitVars => [Late]_waitVars
  <2> SUFFICES ASSUME WaitIInv, DeadlineInv, WaitNext, Returns, result' = {}
               PROVE  /\ asked'.ticks # portMAX_DELAY
                      /\ elapsed >= asked'.since + asked'.ticks
    OBVIOUS
  <2>1. ASSUME NEW m \in Masks, NEW n \in Timeouts, Enter(m, n), phase' = "run"
        PROVE  /\ asked'.ticks # portMAX_DELAY
               /\ elapsed >= asked'.since + asked'.ticks
    <3>1. asked'.since = elapsed /\ asked'.ticks = n /\ n = 0
      BY <2>1 DEF Enter, Block
    <3> QED BY <3>1 DEF WaitIInv, WaitTypeOK, portMAX_DELAY
  <2>2. CASE phase = "ready" /\ phase' = "run"
    <3>1. Resume
      BY <2>2 DEF WaitNext, Enter, NotifySendFromISR, IncrementTick
    <3>2. end <= Now /\ asked' = asked
      BY <2>2, <3>1 DEF Resume, Block
    <3>3. asked.ticks \in Timeouts /\ end = asked.since + asked.ticks
      BY <2>2 DEF DeadlineInv
    <3>4. elapsed \in 0 .. TickMax /\ asked.ticks # portMAX_DELAY
      BY <3>3 DEF Unwrapped, WaitIInv, WaitTypeOK, portMAX_DELAY
    <3>5. Now = elapsed
      BY <3>4, NoWrap DEF Now
    <3> QED BY <3>2, <3>3, <3>4, <3>5
  <2> QED BY <2>1, <2>2 DEF Returns
<1> QED BY <1>1, WaitInvariantHolds, DeadlinesHold, PTL DEF WaitSpec, ZeroOnlyAfterTimeout

HIDE TicksAssumption DEF AllBits, WN!TCB
==============================================================================
