---------------------------- MODULE SemaphoreOps ----------------------------
(***************************************************************************)
(* The counting semaphore of src/src/kernel/semaphore.{h,cpp} as a value:  *)
(*   value, waiting_count   the two fields of the class,                   *)
(*   blocked                the threads inside waiting.wait(lck),          *)
(*   woken                  the threads notify_one has woken and that have *)
(*                          not yet returned from acquire().               *)
(* Every method body runs under cond_lock, so each half of acquire (before *)
(* and after the wait) and the whole of release is one atomic step.        *)
(***************************************************************************)
EXTENDS Naturals, FiniteSets

SemaphoreOf(T) == [value : Nat, waiting_count : Nat,
                   blocked : SUBSET T, woken : SUBSET T]

InitialSemaphore(initialValue) ==
    [value |-> initialValue, waiting_count |-> 0, blocked |-> {}, woken |-> {}]

\* Permits nobody holds yet: kept in the value or handed to a waking thread.
Tokens(s) == s.value + Cardinality(s.woken)

CanAcquire(s) == s.value > 0

AfterAcquire(s) == [s EXCEPT !.value = @ - 1]

\* mutant: the waiter goes to sleep without counting itself
SleepsUncounted(s, t) == [s EXCEPT !.blocked = @ \cup {t}]

AfterSleep(s, t) == [s EXCEPT !.waiting_count = @ + 1, !.blocked = @ \cup {t}]

AfterResume(s, t) == [s EXCEPT !.woken = @ \ {t}]

(* notify_one: any one thread asleep on the condition variable, if any.     *)
AfterNotify(s) ==
    IF s.blocked = {} THEN {s}
    ELSE {[s EXCEPT !.blocked = @ \ {u}, !.woken = @ \cup {u}] : u \in s.blocked}

\* mutant: the early return after notify_one is missing, so the token is both
\* handed to the waiter and added to the value
ReleasesTwice(s) ==
    IF s.waiting_count > 0
    THEN AfterNotify([s EXCEPT !.waiting_count = @ - 1, !.value = @ + 1])
    ELSE {[s EXCEPT !.value = @ + 1]}

\* mutant: the value is incremented even though threads are waiting
ReleasesWithoutWaking(s) == {[s EXCEPT !.value = @ + 1]}

(* The token goes straight to one waiter; only without waiters is it kept. *)
AfterRelease(s) ==
    IF s.waiting_count > 0
    THEN AfterNotify([s EXCEPT !.waiting_count = @ - 1])
    ELSE {[s EXCEPT !.value = @ + 1]}

(* The standard lets condition_variable::wait return without a notify; the *)
(* code has no predicate, so such a thread leaves acquire().               *)
AfterSpuriousWake(s, t) ==
    [s EXCEPT !.blocked = @ \ {t}, !.woken = @ \cup {t}]
=============================================================================
