------------------------------- MODULE MCMutex -------------------------------
(* Up to five tasks, three mutexes, and the idle task                         *)
EXTENDS Mutex

CONSTANTS high, middle, upper, low, bottom, idle, a, b, k

MCCreated == <<high, middle, upper, low, bottom, idle>>
MCFour == <<high, middle, low, bottom, idle>>
MCPriority ==
  [t \in Task |-> CASE t = high -> 3 [] t \in {middle, upper} -> 2
                    [] t \in {low, bottom} -> 1 [] t = idle -> 0]

C(kind, lock, ticks) == [kind |-> kind, lock |-> lock, ticks |-> ticks]

(* Three tasks of different priorities take a and nothing else.  Two others   *)
(* take b and k, the lower one of them both at once                           *)
MCProgram ==
  (high :> {C("take", a, 0), C("take", a, 1), C("give", a, 0),
            C("delay", NoLock, 1)}) @@
  (middle :> {C("take", a, 3), C("give", a, 0), C("delay", NoLock, 1)}) @@
  (upper :> {C("take", b, 1), C("take", k, 1), C("delay", NoLock, 1)}) @@
  (low :> {C("take", a, portMAX_DELAY), C("give", a, 0)}) @@
  (bottom :> {C("take", b, portMAX_DELAY), C("take", k, portMAX_DELAY),
              C("give", b, 0), C("give", k, 0)}) @@
  (idle :> {})
MCMaxCalls ==
  (high :> 3) @@ (middle :> 2) @@ (upper :> 2) @@ (low :> 4) @@ (bottom :> 4) @@
  (idle :> 0)

(* b before k *)
MCOrdered == {<<b, k>>}

----------------------------------------------------------------------------
(* Four tasks and two mutexes, a before b                                     *)
MCNested == {<<a, b>>}

(* A task waits for one mutex while another task waits for the one it holds,  *)
(* and does not wait alone                                                    *)
MCChain ==
  (high :> {C("take", a, 1), C("take", b, 1), C("delay", NoLock, 1),
            C("delay", NoLock, 2)}) @@
  (middle :> {C("take", b, portMAX_DELAY), C("delay", NoLock, 2)}) @@
  (low :> {C("take", a, portMAX_DELAY), C("take", b, portMAX_DELAY)}) @@
  (bottom :> {C("take", b, portMAX_DELAY)}) @@
  (idle :> {})
MCChainCalls == (high :> 4) @@ (middle :> 2) @@ (low :> 2) @@ (bottom :> 1) @@ (idle :> 0)

(* Two mutexes given back in the order in which they were taken, the second   *)
(* with a task of low priority waiting for it                                 *)
MCCorner ==
  (high :> {C("take", a, portMAX_DELAY), C("delay", NoLock, 2)}) @@
  (middle :> {C("delay", NoLock, 3)}) @@
  (low :> {C("take", a, portMAX_DELAY), C("take", b, portMAX_DELAY),
           C("give", a, 0), C("give", b, 0)}) @@
  (bottom :> {C("take", b, portMAX_DELAY)}) @@
  (idle :> {})
MCCornerCalls == (high :> 3) @@ (middle :> 3) @@ (low :> 4) @@ (bottom :> 3) @@ (idle :> 0)

(* Five tasks, none of which takes a mutex while it holds one: low inherits   *)
(* from high, which gives up, and goes on to take b while those of the        *)
(* priority in between wait for it                                            *)
MCOvertake ==
  (high :> {C("take", b, portMAX_DELAY), C("delay", NoLock, 2), C("give", b, 0),
            C("take", a, 1)}) @@
  (middle :> {C("take", b, portMAX_DELAY)}) @@
  (upper :> {C("take", b, portMAX_DELAY)}) @@
  (low :> {C("take", a, portMAX_DELAY), C("give", a, 0),
           C("take", b, portMAX_DELAY)}) @@
  (bottom :> {C("take", a, portMAX_DELAY)}) @@
  (idle :> {})
MCOvertakeCalls ==
  (high :> 4) @@ (middle :> 1) @@ (upper :> 1) @@ (low :> 3) @@ (bottom :> 1) @@ (idle :> 0)

(* middle raises low, its time is up, low gives the mutex, and before middle   *)
(* has looked for the second time high takes it                               *)
MCTimeout ==
  (high :> {C("delay", NoLock, 4), C("take", a, 0), C("delay", NoLock, 1)}) @@
  (middle :> {C("delay", NoLock, 1), C("take", a, 1), C("give", a, 0)}) @@
  (low :> {C("take", a, portMAX_DELAY), C("give", a, 0)}) @@
  (bottom :> {C("take", a, portMAX_DELAY), C("give", a, 0)}) @@
  (idle :> {})
MCTimeoutCalls ==
  (high :> 3) @@ (middle :> 3) @@ (low :> 2) @@ (bottom :> 2) @@ (idle :> 0)
=============================================================================
