----------------------------- MODULE RemoteCall -----------------------------
(* What message ports promise: a call is served by the owner of one port, a   *)
(* port serves one call at a time, and a caller goes on only after its own    *)
(* call has been answered, exactly once.                                      *)

CONSTANTS Clients, Ports, None

VARIABLES
  phase,   \* "idle", "calling" or "answered", per client
  target,  \* the port a client calls
  serving  \* the client whose call occupies a port, None when it is free

vars == <<phase, target, serving>>

Init ==
  /\ phase = [c \in Clients |-> "idle"]
  /\ target = [c \in Clients |-> None]
  /\ serving = [p \in Ports |-> None]

Call(c, p) ==
  /\ phase[c] = "idle"
  /\ phase' = [phase EXCEPT ![c] = "calling"]
  /\ target' = [target EXCEPT ![c] = p]
  /\ UNCHANGED serving

Accept(c) ==
  /\ phase[c] = "calling"
  /\ \A p \in Ports : serving[p] # c
  /\ serving[target[c]] = None
  /\ serving' = [serving EXCEPT ![target[c]] = c]
  /\ UNCHANGED <<phase, target>>

Answer(c) ==
  /\ phase[c] = "calling"
  /\ serving[target[c]] = c
  /\ phase' = [phase EXCEPT ![c] = "answered"]
  /\ serving' = [serving EXCEPT ![target[c]] = None]
  /\ UNCHANGED target

Return(c) ==
  /\ phase[c] = "answered"
  /\ phase' = [phase EXCEPT ![c] = "idle"]
  /\ target' = [target EXCEPT ![c] = None]
  /\ UNCHANGED serving

Next ==
  \E c \in Clients :
    \/ \E p \in Ports : Call(c, p)
    \/ Accept(c) \/ Answer(c) \/ Return(c)

Spec == Init /\ [][Next]_vars
=============================================================================
