------------------------- MODULE CountingSemaphore -------------------------
(***************************************************************************)
(* What semaphore.h promises its callers: permits are neither invented nor *)
(* lost, a caller without a permit sleeps, and while a permit is there     *)
(* some sleeping caller is eventually given one.                           *)
(***************************************************************************)
EXTENDS Naturals

CONSTANTS Threads,        \* the native threads calling the semaphore
          InitialValue    \* permits it is created with

VARIABLES permits,        \* permits nobody holds
          waiting         \* threads asleep in acquire()

avars == <<permits, waiting>>

Init == permits = InitialValue /\ waiting = {}

Acquire(t) ==
    /\ t \notin waiting
    /\ permits > 0
    /\ permits' = permits - 1
    /\ UNCHANGED waiting

Sleep(t) ==
    /\ t \notin waiting
    /\ waiting' = waiting \cup {t}
    /\ UNCHANGED permits

Grant(t) ==
    /\ t \in waiting
    /\ permits > 0
    /\ permits' = permits - 1
    /\ waiting' = waiting \ {t}

Release(t) ==
    /\ t \notin waiting
    /\ permits' = permits + 1
    /\ UNCHANGED waiting

Next == \E t \in Threads : Acquire(t) \/ Sleep(t) \/ Grant(t) \/ Release(t)

Spec == Init /\ [][Next]_avars /\ WF_avars(\E t \in Threads : Grant(t))
=============================================================================
