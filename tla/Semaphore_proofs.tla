-------------------------- MODULE Semaphore_proofs --------------------------
(***************************************************************************)
(* Theorems about Semaphore for every finite set of threads, every initial *)
(* value and every bound. Type correctness and NoStrandedWaiter hold even  *)
(* with spurious wake-ups; conservation of permits and the refinement do   *)
(* not: one wait that returns by itself refutes both.                      *)
(***************************************************************************)
EXTENDS Semaphore, FiniteSetTheorems, TLAPS
-----------------------------------------------------------------------------
(* What the halves of acquire() and release() do to a semaphore, for every *)
(* finite set of threads.                                                  *)

\* No sleeper is missing from the count, and nobody sleeps beside a permit.
Covers(s) == /\ s.waiting_count >= Cardinality(s.blocked)
             /\ s.blocked # {} => s.value = 0

\* The count is exact: no wait has returned without a notify.
Exact(s) == s.waiting_count = Cardinality(s.blocked)

Disjoint(s) == s.blocked \cap s.woken = {}

(* One element more, or less, is one more, or less, in the count.           *)
LEMMA OneMore ==
  ASSUME NEW S, NEW x, IsFiniteSet(S), x \notin S
  PROVE  Cardinality(S \cup {x}) = Cardinality(S) + 1
  BY FS_AddElement

LEMMA OneLess ==
  ASSUME NEW S, NEW x, IsFiniteSet(S), x \in S
  PROVE  /\ Cardinality(S \ {x}) = Cardinality(S) - 1
         /\ Cardinality(S \ {x}) \in Nat
  <1>1. Cardinality(S \ {x}) = Cardinality(S) - 1 BY FS_RemoveElement
  <1>2. IsFiniteSet(S \ {x}) BY FS_RemoveElement
  <1> QED BY <1>1, <1>2, FS_CardinalityType

(* A semaphore over a finite set of threads has finite sets of threads and  *)
(* numbers for their sizes.                                                 *)
LEMMA SemaphoreSets ==
  ASSUME NEW T, IsFiniteSet(T), NEW s \in SemaphoreOf(T)
  PROVE  /\ IsFiniteSet(s.blocked) /\ IsFiniteSet(s.woken)
         /\ Cardinality(s.blocked) \in Nat
         /\ Cardinality(s.woken) \in Nat
         /\ s.blocked = {} <=> Cardinality(s.blocked) = 0
         /\ Tokens(s) \in Nat
  <1>1. s.blocked \subseteq T /\ s.woken \subseteq T /\ s.value \in Nat
    BY DEF SemaphoreOf
  <1>2. IsFiniteSet(s.blocked) /\ IsFiniteSet(s.woken)
    BY <1>1, FS_Subset
  <1>3. Cardinality(s.blocked) \in Nat /\ Cardinality(s.woken) \in Nat
    BY <1>2, FS_CardinalityType
  <1>4. s.blocked = {} <=> Cardinality(s.blocked) = 0
    BY <1>2, FS_EmptySet
  <1> QED BY <1>1, <1>2, <1>3, <1>4 DEF Tokens

(* The fast path of acquire() takes one permit and touches nobody.          *)
LEMMA AcquireEffect ==
  ASSUME NEW T, IsFiniteSet(T), NEW s \in SemaphoreOf(T), CanAcquire(s),
         Covers(s), Disjoint(s)
  PROVE  /\ AfterAcquire(s) \in SemaphoreOf(T)
         /\ Covers(AfterAcquire(s)) /\ Disjoint(AfterAcquire(s))
         /\ Exact(s) => Exact(AfterAcquire(s))
         /\ Tokens(AfterAcquire(s)) = Tokens(s) - 1
         /\ AfterAcquire(s).blocked = s.blocked
         /\ AfterAcquire(s).woken = s.woken
  <1> DEFINE r == AfterAcquire(s)
  <1>1. r.value = s.value - 1 /\ r.waiting_count = s.waiting_count
        /\ r.blocked = s.blocked /\ r.woken = s.woken
        /\ r \in SemaphoreOf(T)
    BY DEF AfterAcquire, CanAcquire, SemaphoreOf
  <1>2. s.value \in Nat BY DEF SemaphoreOf
  <1>3. s.blocked = {} BY <1>2 DEF Covers, CanAcquire
  <1>4. Tokens(r) = Tokens(s) - 1
    BY <1>1, <1>2, SemaphoreSets DEF Tokens
  <1> QED BY <1>1, <1>3, <1>4 DEF Covers, Disjoint, Exact

(* The slow path of acquire() puts the caller among the counted sleepers.   *)
LEMMA SleepEffect ==
  ASSUME NEW T, IsFiniteSet(T), NEW s \in SemaphoreOf(T), ~CanAcquire(s),
         NEW t \in T, t \notin s.blocked, t \notin s.woken,
         Covers(s), Disjoint(s)
  PROVE  /\ AfterSleep(s, t) \in SemaphoreOf(T)
         /\ Covers(AfterSleep(s, t)) /\ Disjoint(AfterSleep(s, t))
         /\ Exact(s) => Exact(AfterSleep(s, t))
         /\ Tokens(AfterSleep(s, t)) = Tokens(s)
         /\ AfterSleep(s, t).blocked = s.blocked \cup {t}
         /\ AfterSleep(s, t).woken = s.woken
  <1> DEFINE r == AfterSleep(s, t)
  <1>1. r.value = s.value /\ r.waiting_count = s.waiting_count + 1
        /\ r.blocked = s.blocked \cup {t} /\ r.woken = s.woken
        /\ r \in SemaphoreOf(T)
    <2>1. s.blocked \cup {t} \in SUBSET T /\ s.waiting_count + 1 \in Nat
      BY DEF SemaphoreOf
    <2> QED BY <2>1 DEF AfterSleep, SemaphoreOf
  <1>2. s.value = 0 /\ s.waiting_count \in Nat
    BY DEF SemaphoreOf, CanAcquire
  <1>3. Cardinality(r.blocked) = Cardinality(s.blocked) + 1
    <2>1. IsFiniteSet(s.blocked) BY SemaphoreSets
    <2>2. Cardinality(s.blocked \cup {t}) = Cardinality(s.blocked) + 1 BY <2>1, OneMore
    <2> QED BY <1>1, <2>2
  <1>4. Tokens(r) = Tokens(s) BY <1>1 DEF Tokens
  <1> QED
    BY <1>1, <1>2, <1>3, <1>4, SemaphoreSets DEF Covers, Disjoint, Exact

(* A woken thread leaves acquire() with the permit it was handed.           *)
LEMMA ResumeEffect ==
  ASSUME NEW T, IsFiniteSet(T), NEW s \in SemaphoreOf(T), NEW t \in s.woken,
         Covers(s), Disjoint(s)
  PROVE  /\ AfterResume(s, t) \in SemaphoreOf(T)
         /\ Covers(AfterResume(s, t)) /\ Disjoint(AfterResume(s, t))
         /\ Exact(s) => Exact(AfterResume(s, t))
         /\ Tokens(AfterResume(s, t)) = Tokens(s) - 1
         /\ Tokens(s) > 0
         /\ AfterResume(s, t).blocked = s.blocked
         /\ AfterResume(s, t).woken = s.woken \ {t}
  <1> DEFINE r == AfterResume(s, t)
  <1>1. r.value = s.value /\ r.waiting_count = s.waiting_count
        /\ r.blocked = s.blocked /\ r.woken = s.woken \ {t}
        /\ r \in SemaphoreOf(T)
    BY DEF AfterResume, SemaphoreOf
  <1>2. Cardinality(r.woken) = Cardinality(s.woken) - 1
        /\ Cardinality(r.woken) \in Nat
    <2>1. IsFiniteSet(s.woken) BY SemaphoreSets
    <2>2. /\ Cardinality(s.woken \ {t}) = Cardinality(s.woken) - 1
          /\ Cardinality(s.woken \ {t}) \in Nat
      BY <2>1, OneLess
    <2> QED BY <1>1, <2>2
  <1>3. s.value \in Nat BY DEF SemaphoreOf
  <1>4. Tokens(r) = Tokens(s) - 1 /\ Tokens(s) > 0
    BY <1>1, <1>2, <1>3, SemaphoreSets DEF Tokens
  <1> QED BY <1>1, <1>4 DEF Covers, Disjoint, Exact

(* release() adds exactly one permit if the count of sleepers is exact, and *)
(* in any case only moves threads from asleep to waking.                    *)
LEMMA ReleaseEffect ==
  ASSUME NEW T, IsFiniteSet(T), NEW s \in SemaphoreOf(T),
         NEW r \in AfterRelease(s), Covers(s), Disjoint(s)
  PROVE  /\ r \in SemaphoreOf(T)
         /\ Covers(r) /\ Disjoint(r)
         /\ Exact(s) => Exact(r) /\ Tokens(r) = Tokens(s) + 1
         /\ r.blocked \cup r.woken = s.blocked \cup s.woken
         /\ s.woken \subseteq r.woken
  <1> DEFINE d == [s EXCEPT !.waiting_count = @ - 1]
  <1>0. s.value \in Nat /\ s.waiting_count \in Nat BY DEF SemaphoreOf
  <1>1. CASE s.waiting_count = 0
    <2>1. r = [s EXCEPT !.value = @ + 1] BY <1>0, <1>1 DEF AfterRelease
    <2>2. r.value = s.value + 1 /\ r.waiting_count = 0
          /\ r.blocked = s.blocked /\ r.woken = s.woken
          /\ r \in SemaphoreOf(T)
      BY <1>1, <2>1 DEF SemaphoreOf
    <2>3. s.blocked = {} BY <1>1, SemaphoreSets DEF Covers
    <2>4. Tokens(r) = Tokens(s) + 1
      BY <1>0, <2>2, SemaphoreSets DEF Tokens
    <2> QED BY <1>1, <2>2, <2>3, <2>4, SemaphoreSets DEF Covers, Disjoint, Exact
  <1>2. CASE s.waiting_count > 0
    <2>0. d \in SemaphoreOf(T) /\ d.value = s.value
          /\ d.waiting_count = s.waiting_count - 1
          /\ d.blocked = s.blocked /\ d.woken = s.woken
      BY <1>0, <1>2 DEF SemaphoreOf
    <2>1. r \in AfterNotify(d) BY <1>0, <1>2 DEF AfterRelease
    <2>2. CASE s.blocked = {}
      <3>1. r = d BY <2>0, <2>1, <2>2 DEF AfterNotify
      <3>2. Cardinality(s.blocked) = 0 BY <2>2, SemaphoreSets
      <3>3. ~Exact(s) BY <1>2, <3>2 DEF Exact
      <3>4. Covers(r) /\ Disjoint(r)
        BY <1>0, <1>2, <2>0, <2>2, <3>1, <3>2 DEF Covers, Disjoint
      <3> QED BY <2>0, <3>1, <3>3, <3>4
    <2>3. CASE s.blocked # {}
      <3>1. PICK u \in s.blocked :
              r = [d EXCEPT !.blocked = @ \ {u}, !.woken = @ \cup {u}]
        BY <2>0, <2>1, <2>3 DEF AfterNotify
      <3>2. r.value = s.value /\ r.waiting_count = s.waiting_count - 1
            /\ r.blocked = s.blocked \ {u} /\ r.woken = s.woken \cup {u}
            /\ r \in SemaphoreOf(T)
        BY <2>0, <3>1 DEF SemaphoreOf
      <3>3. Cardinality(r.blocked) = Cardinality(s.blocked) - 1
            /\ Cardinality(r.blocked) \in Nat
        <4>1. IsFiniteSet(s.blocked) BY SemaphoreSets
        <4>2. /\ Cardinality(s.blocked \ {u}) = Cardinality(s.blocked) - 1
              /\ Cardinality(s.blocked \ {u}) \in Nat
          BY <4>1, OneLess
        <4> QED BY <3>2, <4>2
      <3>4. u \notin s.woken BY DEF Disjoint
      <3>5. Cardinality(r.woken) = Cardinality(s.woken) + 1
        <4>1. IsFiniteSet(s.woken) BY SemaphoreSets
        <4>2. Cardinality(s.woken \cup {u}) = Cardinality(s.woken) + 1
          BY <3>4, <4>1, OneMore
        <4> QED BY <3>2, <4>2
      <3>6. Tokens(r) = Tokens(s) + 1
        <4>1. Cardinality(s.woken) \in Nat BY SemaphoreSets
        <4> QED BY <1>0, <3>2, <3>5, <4>1 DEF Tokens
      <3>7. Covers(r) /\ (Exact(s) => Exact(r))
        BY <1>0, <3>2, <3>3, <2>3, SemaphoreSets DEF Covers, Exact
      <3>8. Disjoint(r) /\ r.blocked \cup r.woken = s.blocked \cup s.woken
            /\ s.woken \subseteq r.woken
        BY <3>2 DEF Disjoint
      <3> QED BY <3>2, <3>6, <3>7, <3>8
    <2> QED BY <2>2, <2>3
  <1> QED BY <1>0, <1>1, <1>2

(* A wait that returns by itself leaves the count too high, never too low.  *)
LEMMA SpuriousWakeEffect ==
  ASSUME NEW T, IsFiniteSet(T), NEW s \in SemaphoreOf(T), NEW t \in s.blocked,
         Covers(s), Disjoint(s)
  PROVE  /\ AfterSpuriousWake(s, t) \in SemaphoreOf(T)
         /\ Covers(AfterSpuriousWake(s, t))
         /\ Disjoint(AfterSpuriousWake(s, t))
  <1> DEFINE r == AfterSpuriousWake(s, t)
  <1>1. r.value = s.value /\ r.waiting_count = s.waiting_count
        /\ r.blocked = s.blocked \ {t} /\ r.woken = s.woken \cup {t}
        /\ r \in SemaphoreOf(T)
    BY DEF AfterSpuriousWake, SemaphoreOf
  <1>2. Cardinality(r.blocked) = Cardinality(s.blocked) - 1
        /\ Cardinality(r.blocked) \in Nat
    <2>1. IsFiniteSet(s.blocked) BY SemaphoreSets
    <2>2. /\ Cardinality(s.blocked \ {t}) = Cardinality(s.blocked) - 1
          /\ Cardinality(s.blocked \ {t}) \in Nat
      BY <2>1, OneLess
    <2> QED BY <1>1, <2>2
  <1>3. s.waiting_count \in Nat BY DEF SemaphoreOf
  <1> QED BY <1>1, <1>2, <1>3, SemaphoreSets DEF Covers, Disjoint
-----------------------------------------------------------------------------
USE SemaphoreAssumption

(* Inductive: the parts of NoStrandedWaiter need that no thread is asleep   *)
(* and awake at once.                                                       *)
IInv ==
    /\ TypeOK
    /\ Covers(sem)
    /\ Disjoint(sem)

(* Without spurious wake-ups the count is exact, which is what makes        *)
(* release() hand over a permit and never drop it.                          *)
ExactInv ==
    /\ Exact(sem)
    /\ PermitsConserved

LEMMA InitEstablishes == Init => IInv /\ ExactInv
  <1> SUFFICES ASSUME Init PROVE IInv /\ ExactInv OBVIOUS
  <1>1. sem = [value |-> InitialValue, waiting_count |-> 0,
               blocked |-> {}, woken |-> {}] /\ acquired = 0 /\ released = 0
    BY DEF Init, InitialSemaphore
  <1>2. Cardinality({}) = 0 BY FS_EmptySet
  <1> QED BY <1>1, <1>2
          DEF IInv, TypeOK, Covers, Disjoint, ExactInv, Exact,
              PermitsConserved, Tokens, SemaphoreOf

(* Every step of the code keeps the invariant and the exact accounting.     *)
LEMMA StepPreserves ==
  ASSUME IInv, [Next]_vars
  PROVE  IInv' /\ (ExactInv => ExactInv')
  <1>0. sem \in SemaphoreOf(Threads) /\ acquired \in Nat /\ released \in Nat
        /\ Covers(sem) /\ Disjoint(sem) /\ Tokens(sem) \in Nat
    BY SemaphoreSets DEF IInv, TypeOK
  <1>1. ASSUME NEW t \in Threads, Acquire(t) PROVE IInv' /\ (ExactInv => ExactInv')
    <2>1. sem' = AfterAcquire(sem) /\ CanAcquire(sem)
          /\ acquired' = acquired + 1 /\ released' = released
      BY <1>1 DEF Acquire
    <2> QED BY <1>0, <2>1, AcquireEffect
            DEF IInv, TypeOK, ExactInv, PermitsConserved, Exact, Tokens, Covers, Disjoint
  <1>2. ASSUME NEW t \in Threads, Sleep(t) PROVE IInv' /\ (ExactInv => ExactInv')
    <2>1. sem' = AfterSleep(sem, t) /\ ~CanAcquire(sem)
          /\ t \notin sem.blocked /\ t \notin sem.woken
          /\ acquired' = acquired /\ released' = released
      BY <1>2 DEF Sleep, Inside
    <2> QED BY <1>0, <2>1, SleepEffect
            DEF IInv, TypeOK, ExactInv, PermitsConserved, Exact, Tokens, Covers, Disjoint
  <1>3. ASSUME NEW t \in Threads, Resume(t) PROVE IInv' /\ (ExactInv => ExactInv')
    <2>1. sem' = AfterResume(sem, t) /\ t \in sem.woken
          /\ acquired' = acquired + 1 /\ released' = released
      BY <1>3 DEF Resume
    <2> QED BY <1>0, <2>1, ResumeEffect
            DEF IInv, TypeOK, ExactInv, PermitsConserved, Exact, Tokens, Covers, Disjoint
  <1>4. ASSUME NEW t \in Threads, Release(t) PROVE IInv' /\ (ExactInv => ExactInv')
    <2>1. sem' \in AfterRelease(sem)
          /\ acquired' = acquired /\ released' = released + 1
      BY <1>4 DEF Release
    <2> QED BY <1>0, <2>1, ReleaseEffect
            DEF IInv, TypeOK, ExactInv, PermitsConserved, Exact, Tokens, Covers, Disjoint
  <1>5. CASE UNCHANGED vars
    BY <1>5 DEF vars, IInv, TypeOK, Covers, Disjoint, ExactInv, Exact,
                PermitsConserved, Tokens
  <1> QED BY <1>1, <1>2, <1>3, <1>4, <1>5 DEF Next

(* A wait that returns by itself disturbs the accounting only.              *)
LEMMA SpuriousWakePreserves ==
  ASSUME IInv, NEW t \in Threads, SpuriousWake(t)
  PROVE  IInv'
  <1>1. sem \in SemaphoreOf(Threads) /\ acquired \in Nat /\ released \in Nat
        /\ Covers(sem) /\ Disjoint(sem)
    BY DEF IInv, TypeOK
  <1>2. sem' = AfterSpuriousWake(sem, t) /\ t \in sem.blocked
        /\ acquired' = acquired /\ released' = released
    BY DEF SpuriousWake
  <1> QED BY <1>1, <1>2, SpuriousWakeEffect DEF IInv, TypeOK, Covers, Disjoint

(* semaphore.cpp: the unsigned counters never wrap, and a thread is never   *)
(* left asleep while the semaphore keeps a permit, for any number of        *)
(* threads and with or without spurious wake-ups.                           *)
THEOREM WaitersNotStranded ==
  /\ Spec => []TypeOK /\ []NoStrandedWaiter
  /\ SpuriousSpec => []TypeOK /\ []NoStrandedWaiter
  <1>1. Init => IInv BY InitEstablishes
  <1>2. IInv /\ [Next]_vars => IInv' BY StepPreserves
  <1>3. IInv /\ [Next \/ \E t \in Threads : SpuriousWake(t)]_vars => IInv'
    BY <1>2, SpuriousWakePreserves
  <1>4. IInv => TypeOK /\ NoStrandedWaiter
    BY DEF IInv, Covers, NoStrandedWaiter
  <1> QED BY <1>1, <1>2, <1>3, <1>4, PTL DEF Spec, SpuriousSpec

(* semaphore.cpp: the unsigned value and waiting_count never wrap below 0,   *)
(* with or without spurious wake-ups.                                       *)
THEOREM SemaphoreTypeCorrect ==
  /\ Spec => []TypeOK
  /\ SpuriousSpec => []TypeOK
  <1> QED BY WaitersNotStranded, PTL

(* semaphore.cpp: without spurious wake-ups no permit is lost or invented   *)
(* by the direct hand-off in release(), so that acquire() never returns     *)
(* more often than there were permits (semaphore.h:20).                     *)
THEOREM PermitAccounting == Spec => []PermitsConserved /\ []NoMoreThanPermits
  <1>1. Init => IInv /\ ExactInv BY InitEstablishes
  <1>2. (IInv /\ ExactInv) /\ [Next]_vars => (IInv /\ ExactInv)'
    BY StepPreserves
  <1>3. IInv /\ ExactInv => PermitsConserved /\ NoMoreThanPermits
    <2> SUFFICES ASSUME IInv, PermitsConserved PROVE NoMoreThanPermits
      BY DEF ExactInv
    <2>1. Tokens(sem) \in Nat /\ acquired \in Nat /\ released \in Nat
      BY SemaphoreSets DEF IInv, TypeOK
    <2> QED BY <2>1 DEF PermitsConserved, NoMoreThanPermits
  <1> QED BY <1>1, <1>2, <1>3, PTL DEF Spec

(* semaphore.cpp implements the safety of the abstract counting semaphore:  *)
(* every step of the code is a step of CountingSemaphore or none.           *)
THEOREM CodeStepsAreAbstractSteps ==
  Spec => Abstract!Init /\ [][Abstract!Next]_(Abstract!avars)
  <1>1. Init => Abstract!Init
    <2>1. Cardinality({}) = 0 BY FS_EmptySet
    <2> QED BY <2>1 DEF Init, Abstract!Init, InitialSemaphore, Inside, Tokens
  <1>2. ASSUME IInv, ExactInv, [Next]_vars PROVE [Abstract!Next]_(Abstract!avars)
    <2>0. sem \in SemaphoreOf(Threads) /\ acquired \in Nat /\ Tokens(sem) \in Nat
          /\ Covers(sem) /\ Disjoint(sem) /\ Exact(sem)
      BY <1>2, SemaphoreSets DEF IInv, TypeOK, ExactInv
    <2>1. ASSUME NEW t \in Threads, Acquire(t) PROVE Abstract!Acquire(t)
      <3>1. t \notin Inside /\ CanAcquire(sem) /\ sem' = AfterAcquire(sem)
        BY <2>1 DEF Acquire
      <3>2. Tokens(sem)' = Tokens(sem) - 1 /\ Inside' = Inside
        BY <2>0, <3>1, AcquireEffect DEF Tokens, Inside
      <3>3. Tokens(sem) > 0
        BY <2>0, <3>1, SemaphoreSets DEF Tokens, CanAcquire, SemaphoreOf
      <3> QED BY <3>1, <3>2, <3>3 DEF Abstract!Acquire
    <2>2. ASSUME NEW t \in Threads, Sleep(t) PROVE Abstract!Sleep(t)
      <3>1. t \notin Inside /\ ~CanAcquire(sem) /\ sem' = AfterSleep(sem, t)
        BY <2>2 DEF Sleep
      <3>2. Tokens(sem)' = Tokens(sem) /\ Inside' = Inside \cup {t}
        BY <2>0, <3>1, SleepEffect DEF Tokens, Inside
      <3> QED BY <3>1, <3>2 DEF Abstract!Sleep
    <2>3. ASSUME NEW t \in Threads, Resume(t) PROVE Abstract!Grant(t)
      <3>1. t \in sem.woken /\ sem' = AfterResume(sem, t) BY <2>3 DEF Resume
      <3>2. t \notin sem.blocked BY <2>0, <3>1 DEF Disjoint
      <3>3. Tokens(sem)' = Tokens(sem) - 1 /\ Tokens(sem) > 0
            /\ Inside' = Inside \ {t} /\ t \in Inside
        BY <2>0, <3>1, <3>2, ResumeEffect DEF Tokens, Inside
      <3> QED BY <3>3 DEF Abstract!Grant
    <2>4. ASSUME NEW t \in Threads, Release(t) PROVE Abstract!Release(t)
      <3>1. t \notin Inside /\ sem' \in AfterRelease(sem) BY <2>4 DEF Release
      <3>2. Tokens(sem)' = Tokens(sem) + 1 /\ Inside' = Inside
        BY <2>0, <3>1, ReleaseEffect DEF Tokens, Inside
      <3> QED BY <3>1, <3>2 DEF Abstract!Release
    <2>5. CASE UNCHANGED vars
      BY <2>5 DEF vars, Abstract!avars, Tokens, Inside
    <2> QED BY <1>2, <2>1, <2>2, <2>3, <2>4, <2>5
            DEF Next, Abstract!Next
  <1>3. Init => IInv /\ ExactInv BY InitEstablishes
  <1>4. (IInv /\ ExactInv) /\ [Next]_vars => (IInv /\ ExactInv)'
    BY StepPreserves
  <1> QED BY <1>1, <1>2, <1>3, <1>4, PTL DEF Spec
=============================================================================
