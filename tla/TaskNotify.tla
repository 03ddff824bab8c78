----------------------------- MODULE TaskNotify -----------------------------
(* Direct-to-task notifications: the two fields of a task control block that  *)
(* FreeRTOS keeps for them (ucNotifyState and ulNotifiedValue) and the steps  *)
(* NotifyWait of kernel/notify.c takes on them.  The notified value is the    *)
(* set of bits that are on.                                                   *)

CONSTANT NB \* the bits of NotifyBits_t

TCB == [state: {"none", "waiting", "received"}, value: SUBSET NB]

FreshTCB == [state |-> "none", value |-> {}]

(* xTaskGenericNotify and xTaskGenericNotifyFromISR with eSetBits.  The       *)
(* caller also makes the task ready when it was blocked.                      *)
Notified(tcb, bits) ==
  [state |-> "received", value |-> tcb.value \cup bits]

(* The poll NotifyWait starts with: the eNoAction self-notification makes     *)
(* xTaskNotifyWait take the "received" path, so that it always clears `bits`  *)
Polled(tcb, bits) ==
  [state |-> "none", value |-> tcb.value \ bits]

(* xTaskNotifyWait with a timeout, up to the point where the task blocks      *)
Blocked(tcb) == [tcb EXCEPT !.state = "waiting"]

(* Fault: the bits that ended the wait stay on                                *)
FaultKeepBits(tcb, bits) == [state |-> "none", value |-> tcb.value]

(* xTaskNotifyWait once the task runs again.  The awaited bits are cleared    *)
(* only when a notification ended the wait, not when a timeout did            *)
Resumed(tcb, bits) ==
  [state |-> "none",
   value |-> IF tcb.state = "received" THEN tcb.value \ bits ELSE tcb.value]
=============================================================================
