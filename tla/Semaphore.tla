----------------------------- MODULE Semaphore -----------------------------
(***************************************************************************)
(* Native threads using one semaphore object of src/src/kernel/semaphore.  *)
(***************************************************************************)
EXTENDS SemaphoreOps

CONSTANTS Threads,        \* the native threads calling the semaphore
          InitialValue,   \* the constructor's initialValue
          MaxReleases     \* bound of the model: calls of release()

ASSUME SemaphoreAssumption ==
    /\ IsFiniteSet(Threads)
    /\ InitialValue \in Nat
    /\ MaxReleases \in Nat

VARIABLES sem,            \* the semaphore
          acquired,       \* how many calls of acquire() have returned
          released        \* how many calls of release() have returned

vars == <<sem, acquired, released>>

\* Threads that are inside acquire(), asleep or on their way out.
Inside == sem.blocked \cup sem.woken

Init ==
    /\ sem = InitialSemaphore(InitialValue)
    /\ acquired = 0
    /\ released = 0
-----------------------------------------------------------------------------
\* mutant: the test of the value is dropped from the fast path
AcquireUnchecked(t) ==
    /\ t \notin Inside
    /\ sem' = AfterAcquire(sem)
    /\ acquired' = acquired + 1
    /\ UNCHANGED released

Acquire(t) ==
    /\ t \notin Inside
    /\ CanAcquire(sem)
    /\ sem' = AfterAcquire(sem)
    /\ acquired' = acquired + 1
    /\ UNCHANGED released

Sleep(t) ==
    /\ t \notin Inside
    /\ ~CanAcquire(sem)
    /\ sem' = AfterSleep(sem, t)
    /\ UNCHANGED <<acquired, released>>

Resume(t) ==
    /\ t \in sem.woken
    /\ sem' = AfterResume(sem, t)
    /\ acquired' = acquired + 1
    /\ UNCHANGED released

Release(t) ==
    /\ t \notin Inside
    /\ released < MaxReleases
    /\ sem' \in AfterRelease(sem)
    /\ released' = released + 1
    /\ UNCHANGED acquired

SpuriousWake(t) ==
    /\ t \in sem.blocked
    /\ sem' = AfterSpuriousWake(sem, t)
    /\ UNCHANGED <<acquired, released>>

Next == \E t \in Threads :
            Acquire(t) \/ Sleep(t) \/ Resume(t) \/ Release(t)

Spec == Init /\ [][Next]_vars /\ WF_vars(\E t \in Threads : Resume(t))

\* The same threads where the wait may also return by itself, any number of
\* times. The theorems are about this one too; TLC checks Spec.
SpuriousSpec == Init /\ [][Next \/ \E t \in Threads : SpuriousWake(t)]_vars
-----------------------------------------------------------------------------
(* Type invariant: in particular neither unsigned counter wraps below 0.    *)
TypeOK ==
    /\ sem \in SemaphoreOf(Threads)
    /\ acquired \in Nat
    /\ released \in Nat

(* No permit is invented or lost by the hand-off in release(): what was     *)
(* there plus what was released has been acquired, is kept, or is with a    *)
(* thread that was woken.                                                   *)
PermitsConserved ==
    InitialValue + released
        = acquired + Tokens(sem)

(* Nobody sleeps while the semaphore keeps a permit, and no sleeper is       *)
(* missing from waiting_count, all that release() looks at. Holds even if    *)
(* the wait returns by itself (SpuriousSpec), which leaves the count too     *)
(* high.                                                                     *)
NoStrandedWaiter ==
    /\ sem.waiting_count >= Cardinality(sem.blocked)
    /\ sem.blocked # {} => sem.value = 0

(* semaphore.h:20, "number of acquires before semaphore blocks": acquire()  *)
(* has not returned more often than there were permits.                     *)
NoMoreThanPermits == acquired <= InitialValue + released

(* The code implements the abstract counting semaphore, its liveness        *)
(* included: a permit handed to a thread that is waking up is still free.   *)
Abstract == INSTANCE CountingSemaphore
              WITH permits <- Tokens(sem),
                   waiting <- Inside

ImplementsCountingSemaphore == Abstract!Spec
=============================================================================
