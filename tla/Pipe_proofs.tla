---------------------------- MODULE Pipe_proofs ----------------------------
(***************************************************************************)
(* Theorems about Pipe for every number of writers, every buffer size and  *)
(* every sequence of calls.                                                *)
(*                                                                         *)
(* The release() with which close() ends the writing side adds a token to  *)
(* full that no byte belongs to. With one reader it is harmless. With two, *)
(* both can pass the second check while one byte is left, and both fetch:  *)
(* fields_count wraps. So what is said of a pipe with a closed writing end *)
(* is said of a pipe with one reading thread, which is what the shell and  *)
(* its programs use; while the writing end is open it holds for any number *)
(* of readers.                                                             *)
(***************************************************************************)
EXTENDS Pipe, FiniteSetTheorems, SequenceTheorems, TLAPS
-----------------------------------------------------------------------------
(* What the halves of acquire() and release() do to a semaphore, for every *)
(* finite set of threads: those lemmas of Semaphore_proofs a pipe needs.   *)

\* No sleeper is missing from the count, and nobody sleeps beside a permit.
Covers(s) == /\ s.waiting_count >= Cardinality(s.blocked)
             /\ s.blocked # {} => s.value = 0

\* The count is exact: no wait has returned without a notify.
Exact(s) == s.waiting_count = Cardinality(s.blocked)

Disjoint(s) == s.blocked \cap s.woken = {}

(* One element more, or less, is one more, or less, in the count.           *)
LEMMA OneMore ==
  ASSUME NEW S, NEW x, IsFiniteSet(S), x \notin S
  PROVE  Cardinality(S \cup {x}) = Cardinality(S) + 1
  BY FS_AddElement

LEMMA OneLess ==
  ASSUME NEW S, NEW x, IsFiniteSet(S), x \in S
  PROVE  /\ Cardinality(S \ {x}) = Cardinality(S) - 1
         /\ Cardinality(S \ {x}) \in Nat
  <1>1. Cardinality(S \ {x}) = Cardinality(S) - 1 BY FS_RemoveElement
  <1>2. IsFiniteSet(S \ {x}) BY FS_RemoveElement
  <1> QED BY <1>1, <1>2, FS_CardinalityType

(* A semaphore over a finite set of threads has finite sets of threads and  *)
(* numbers for their sizes.                                                 *)
LEMMA SemaphoreSets ==
  ASSUME NEW T, IsFiniteSet(T), NEW s \in SemaphoreOf(T)
  PROVE  /\ IsFiniteSet(s.blocked) /\ IsFiniteSet(s.woken)
         /\ Cardinality(s.blocked) \in Nat
         /\ Cardinality(s.woken) \in Nat
         /\ s.blocked = {} <=> Cardinality(s.blocked) = 0
         /\ Tokens(s) \in Nat
  <1>1. s.blocked \subseteq T /\ s.woken \subseteq T /\ s.value \in Nat
    BY DEF SemaphoreOf
  <1>2. IsFiniteSet(s.blocked) /\ IsFiniteSet(s.woken)
    BY <1>1, FS_Subset
  <1>3. Cardinality(s.blocked) \in Nat /\ Cardinality(s.woken) \in Nat
    BY <1>2, FS_CardinalityType
  <1>4. s.blocked = {} <=> Cardinality(s.blocked) = 0
    BY <1>2, FS_EmptySet
  <1> QED BY <1>1, <1>2, <1>3, <1>4 DEF Tokens

(* The fast path of acquire() takes one permit and touches nobody.          *)
LEMMA AcquireEffect ==
  ASSUME NEW T, IsFiniteSet(T), NEW s \in SemaphoreOf(T), CanAcquire(s),
         Covers(s), Disjoint(s)
  PROVE  /\ AfterAcquire(s) \in SemaphoreOf(T)
         /\ Covers(AfterAcquire(s)) /\ Disjoint(AfterAcquire(s))
         /\ Exact(s) => Exact(AfterAcquire(s))
         /\ Tokens(AfterAcquire(s)) = Tokens(s) - 1
         /\ AfterAcquire(s).blocked = s.blocked
         /\ AfterAcquire(s).woken = s.woken
  <1> DEFINE r == AfterAcquire(s)
  <1>1. r.value = s.value - 1 /\ r.waiting_count = s.waiting_count
        /\ r.blocked = s.blocked /\ r.woken = s.woken
        /\ r \in SemaphoreOf(T)
    BY DEF AfterAcquire, CanAcquire, SemaphoreOf
  <1>2. s.value \in Nat BY DEF SemaphoreOf
  <1>3. s.blocked = {} BY <1>2 DEF Covers, CanAcquire
  <1>4. Tokens(r) = Tokens(s) - 1
    BY <1>1, <1>2, SemaphoreSets DEF Tokens
  <1> QED BY <1>1, <1>3, <1>4 DEF Covers, Disjoint, Exact

(* The slow path of acquire() puts the caller among the counted sleepers.   *)
LEMMA SleepEffect ==
  ASSUME NEW T, IsFiniteSet(T), NEW s \in SemaphoreOf(T), ~CanAcquire(s),
         NEW t \in T, t \notin s.blocked, t \notin s.woken,
         Covers(s), Disjoint(s)
  PROVE  /\ AfterSleep(s, t) \in SemaphoreOf(T)
         /\ Covers(AfterSleep(s, t)) /\ Disjoint(AfterSleep(s, t))
         /\ Exact(s) => Exact(AfterSleep(s, t))
         /\ Tokens(AfterSleep(s, t)) = Tokens(s)
         /\ AfterSleep(s, t).blocked = s.blocked \cup {t}
         /\ AfterSleep(s, t).woken = s.woken
  <1> DEFINE r == AfterSleep(s, t)
  <1>1. r.value = s.value /\ r.waiting_count = s.waiting_count + 1
        /\ r.blocked = s.blocked \cup {t} /\ r.woken = s.woken
        /\ r \in SemaphoreOf(T)
    <2>1. s.blocked \cup {t} \in SUBSET T /\ s.waiting_count + 1 \in Nat
      BY DEF SemaphoreOf
    <2> QED BY <2>1 DEF AfterSleep, SemaphoreOf
  <1>2. s.value = 0 /\ s.waiting_count \in Nat
    BY DEF SemaphoreOf, CanAcquire
  <1>3. Cardinality(r.blocked) = Cardinality(s.blocked) + 1
    <2>1. IsFiniteSet(s.blocked) BY SemaphoreSets
    <2>2. Cardinality(s.blocked \cup {t}) = Cardinality(s.blocked) + 1 BY <2>1, OneMore
    <2> QED BY <1>1, <2>2
  <1>4. Tokens(r) = Tokens(s) BY <1>1 DEF Tokens
  <1> QED
    BY <1>1, <1>2, <1>3, <1>4, SemaphoreSets DEF Covers, Disjoint, Exact

(* A woken thread leaves acquire() with the permit it was handed.           *)
LEMMA ResumeEffect ==
  ASSUME NEW T, IsFiniteSet(T), NEW s \in SemaphoreOf(T), NEW t \in s.woken,
         Covers(s), Disjoint(s)
  PROVE  /\ AfterResume(s, t) \in SemaphoreOf(T)
         /\ Covers(AfterResume(s, t)) /\ Disjoint(AfterResume(s, t))
         /\ Exact(s) => Exact(AfterResume(s, t))
         /\ Tokens(AfterResume(s, t)) = Tokens(s) - 1
         /\ Tokens(s) > 0
         /\ AfterResume(s, t).blocked = s.blocked
         /\ AfterResume(s, t).woken = s.woken \ {t}
  <1> DEFINE r == AfterResume(s, t)
  <1>1. r.value = s.value /\ r.waiting_count = s.waiting_count
        /\ r.blocked = s.blocked /\ r.woken = s.woken \ {t}
        /\ r \in SemaphoreOf(T)
    BY DEF AfterResume, SemaphoreOf
  <1>2. Cardinality(r.woken) = Cardinality(s.woken) - 1
        /\ Cardinality(r.woken) \in Nat
    <2>1. IsFiniteSet(s.woken) BY SemaphoreSets
    <2>2. /\ Cardinality(s.woken \ {t}) = Cardinality(s.woken) - 1
          /\ Cardinality(s.woken \ {t}) \in Nat
      BY <2>1, OneLess
    <2> QED BY <1>1, <2>2
  <1>3. s.value \in Nat BY DEF SemaphoreOf
  <1>4. Tokens(r) = Tokens(s) - 1 /\ Tokens(s) > 0
    BY <1>1, <1>2, <1>3, SemaphoreSets DEF Tokens
  <1> QED BY <1>1, <1>4 DEF Covers, Disjoint, Exact

(* release() adds exactly one permit if the count of sleepers is exact, and *)
(* in any case only moves threads from asleep to waking.                    *)
LEMMA ReleaseEffect ==
  ASSUME NEW T, IsFiniteSet(T), NEW s \in SemaphoreOf(T),
         NEW r \in AfterRelease(s), Covers(s), Disjoint(s)
  PROVE  /\ r \in SemaphoreOf(T)
         /\ Covers(r) /\ Disjoint(r)
         /\ Exact(s) => Exact(r) /\ Tokens(r) = Tokens(s) + 1
         /\ r.blocked \cup r.woken = s.blocked \cup s.woken
         /\ s.woken \subseteq r.woken
  <1> DEFINE d == [s EXCEPT !.waiting_count = @ - 1]
  <1>0. s.value \in Nat /\ s.waiting_count \in Nat BY DEF SemaphoreOf
  <1>1. CASE s.waiting_count = 0
    <2>1. r = [s EXCEPT !.value = @ + 1] BY <1>0, <1>1 DEF AfterRelease
    <2>2. r.value = s.value + 1 /\ r.waiting_count = 0
          /\ r.blocked = s.blocked /\ r.woken = s.woken
          /\ r \in SemaphoreOf(T)
      BY <1>1, <2>1 DEF SemaphoreOf
    <2>3. s.blocked = {} BY <1>1, SemaphoreSets DEF Covers
    <2>4. Tokens(r) = Tokens(s) + 1
      BY <1>0, <2>2, SemaphoreSets DEF Tokens
    <2> QED BY <1>1, <2>2, <2>3, <2>4, SemaphoreSets DEF Covers, Disjoint, Exact
  <1>2. CASE s.waiting_count > 0
    <2>0. d \in SemaphoreOf(T) /\ d.value = s.value
          /\ d.waiting_count = s.waiting_count - 1
          /\ d.blocked = s.blocked /\ d.woken = s.woken
      BY <1>0, <1>2 DEF SemaphoreOf
    <2>1. r \in AfterNotify(d) BY <1>0, <1>2 DEF AfterRelease
    <2>2. CASE s.blocked = {}
      <3>1. r = d BY <2>0, <2>1, <2>2 DEF AfterNotify
      <3>2. Cardinality(s.blocked) = 0 BY <2>2, SemaphoreSets
      <3>3. ~Exact(s) BY <1>2, <3>2 DEF Exact
      <3>4. Covers(r) /\ Disjoint(r)
        BY <1>0, <1>2, <2>0, <2>2, <3>1, <3>2 DEF Covers, Disjoint
      <3> QED BY <2>0, <3>1, <3>3, <3>4
    <2>3. CASE s.blocked # {}
      <3>1. PICK u \in s.blocked :
              r = [d EXCEPT !.blocked = @ \ {u}, !.woken = @ \cup {u}]
        BY <2>0, <2>1, <2>3 DEF AfterNotify
      <3>2. r.value = s.value /\ r.waiting_count = s.waiting_count - 1
            /\ r.blocked = s.blocked \ {u} /\ r.woken = s.woken \cup {u}
            /\ r \in SemaphoreOf(T)
        BY <2>0, <3>1 DEF SemaphoreOf
      <3>3. Cardinality(r.blocked) = Cardinality(s.blocked) - 1
            /\ Cardinality(r.blocked) \in Nat
        <4>1. IsFiniteSet(s.blocked) BY SemaphoreSets
        <4>2. /\ Cardinality(s.blocked \ {u}) = Cardinality(s.blocked) - 1
              /\ Cardinality(s.blocked \ {u}) \in Nat
          BY <4>1, OneLess
        <4> QED BY <3>2, <4>2
      <3>4. u \notin s.woken BY DEF Disjoint
      <3>5. Cardinality(r.woken) = Cardinality(s.woken) + 1
        <4>1. IsFiniteSet(s.woken) BY SemaphoreSets
        <4>2. Cardinality(s.woken \cup {u}) = Cardinality(s.woken) + 1
          BY <3>4, <4>1, OneMore
        <4> QED BY <3>2, <4>2
      <3>6. Tokens(r) = Tokens(s) + 1
        <4>1. Cardinality(s.woken) \in Nat BY SemaphoreSets
        <4> QED BY <1>0, <3>2, <3>5, <4>1 DEF Tokens
      <3>7. Covers(r) /\ (Exact(s) => Exact(r))
        BY <1>0, <3>2, <3>3, <2>3, SemaphoreSets DEF Covers, Exact
      <3>8. Disjoint(r) /\ r.blocked \cup r.woken = s.blocked \cup s.woken
            /\ s.woken \subseteq r.woken
        BY <3>2 DEF Disjoint
      <3> QED BY <3>2, <3>6, <3>7, <3>8
    <2> QED BY <2>2, <2>3
  <1> QED BY <1>0, <1>1, <1>2
-----------------------------------------------------------------------------
OneReader == \A r, s \in Readers : r = s

Sound == OneReader \/ isOpenWrite

Count(S, l) == Cardinality(At(S, l))

(* The places between a semaphore and the buffer.                           *)
CellsHeld == Tokens(empty) + Count(Writers, "w_recheck")
               + Count(Writers, "w_store") + fields_count
               + Count(Readers, "r_signal")

BytesHeld == Tokens(full) + Count(Readers, "r_recheck")
               + Count(Readers, "r_fetch") + Count(Writers, "w_signal")
-----------------------------------------------------------------------------
(* The inductive invariant, by parts.                                       *)

\* The waiters of a semaphore are the threads at the wait label.
Waits(s, S, l) ==
    /\ Covers(s) /\ Disjoint(s) /\ Exact(s)
    /\ s.blocked \cup s.woken = At(S, l)

WaitsInv == Waits(empty, Writers, "w_wait") /\ Waits(full, Readers, "r_wait")

\* Nobody is on the way out while both ends are open.
AbortInv ==
    isOpenRead /\ isOpenWrite =>
        /\ \A w \in Writers : pc[w] # "w_abort"
        /\ \A r \in Readers : pc[r] # "r_eof"

CellsInv ==
    /\ fields_count + Count(Writers, "w_store") <= PIPE_SIZE
    /\ isOpenRead /\ isOpenWrite => CellsHeld = PIPE_SIZE

BytesInv ==
    /\ isOpenWrite => BytesHeld <= fields_count
    /\ isOpenRead /\ isOpenWrite => BytesHeld = fields_count
    /\ isOpenRead => BytesHeld \in {fields_count, fields_count + 1}

\* There is a byte for whoever has passed the second check.
FetchInv == \A r \in Readers : pc[r] = "r_fetch" => fields_count > 0

\* A thread inside a call has at least one byte left to move, or has just
\* moved its last one.
CallsInv == \A t \in Threads :
    /\ moved[t] <= asked[t]
    /\ pc[t] \notin {"idle", "w_signal", "r_signal"} => moved[t] < asked[t]

IInv == TypeOK /\ WaitsInv /\ AbortInv /\ CellsInv /\ BytesInv /\ FetchInv /\ CallsInv

SoundIInv == Sound => IInv

(* With ends that are closed only while no thread is inside them: what a    *)
(* closed end means for the threads of that side.                           *)
WritersGone == ~isOpenWrite => \A w \in Writers : pc[w] \in {"idle", "w_check"}

ReadersGone == ~isOpenRead => \A r \in Readers : pc[r] \in {"idle", "r_check"}

EofInv == \A r \in Readers : pc[r] = "r_eof" => ~isOpenWrite /\ isEmpty

OrderlyInv == WritersGone /\ ReadersGone /\ EofInv /\ ShortCallsMeanClosed

(* The indices delimit the stored bytes.                                    *)
Ring == write_index = (read_index + fields_count) % PIPE_SIZE
-----------------------------------------------------------------------------
USE PipeAssumption

LEMMA PlaceSets ==
  ASSUME NEW S, IsFiniteSet(S), NEW l
  PROVE  IsFiniteSet(At(S, l)) /\ Count(S, l) \in Nat
  BY FS_Subset, FS_CardinalityType DEF At, Count

(* Moving one thread to another label changes two of the counts.            *)
LEMMA GotoCounts ==
  ASSUME NEW S, IsFiniteSet(S), S \subseteq Threads,
         pc \in [Threads -> WriterLabels \cup ReaderLabels],
         NEW t \in S, NEW k, NEW l, pc[t] = k, k # l, Goto(t, l)
  PROVE  /\ At(S, l)' = At(S, l) \cup {t}
         /\ At(S, k)' = At(S, k) \ {t}
         /\ Count(S, l)' = Count(S, l) + 1
         /\ Count(S, k)' = Count(S, k) - 1
         /\ \A m : m # k /\ m # l => At(S, m)' = At(S, m)
         /\ \A m : m # k /\ m # l => Count(S, m)' = Count(S, m)
  <1>1. At(S, l)' = At(S, l) \cup {t} /\ At(S, k)' = At(S, k) \ {t}
        /\ t \notin At(S, l) /\ t \in At(S, k)
    BY DEF At, Goto
  <1>2. \A m : m # k /\ m # l => At(S, m)' = At(S, m)
    BY DEF At, Goto
  <1>3. Count(S, l)' = Count(S, l) + 1
    <2>1. IsFiniteSet(At(S, l)) BY PlaceSets
    <2>2. Cardinality(At(S, l) \cup {t}) = Cardinality(At(S, l)) + 1
      BY <1>1, <2>1, OneMore
    <2> QED BY <1>1, <2>2 DEF Count
  <1>4. Count(S, k)' = Count(S, k) - 1
    <2>1. IsFiniteSet(At(S, k)) BY PlaceSets
    <2>2. Cardinality(At(S, k) \ {t}) = Cardinality(At(S, k)) - 1
      BY <1>1, <2>1, OneLess
    <2> QED BY <1>1, <2>2 DEF Count
  <1>5. \A m : m # k /\ m # l => Count(S, m)' = Count(S, m)
    BY <1>2 DEF Count
  <1> QED BY <1>1, <1>2, <1>3, <1>4, <1>5

LEMMA GotoElsewhere ==
  ASSUME NEW S, S \subseteq Threads,
         pc \in [Threads -> WriterLabels \cup ReaderLabels],
         NEW t, t \notin S, NEW l, Goto(t, l)
  PROVE  \A m : At(S, m)' = At(S, m) /\ Count(S, m)' = Count(S, m)
  <1>1. \A m : At(S, m)' = At(S, m) BY DEF At, Goto
  <1> QED BY <1>1 DEF Count

(* The numbers of the invariant are natural numbers.                        *)
LEMMA Numbers ==
  ASSUME TypeOK
  PROVE  /\ IsFiniteSet(Threads)
         /\ Tokens(empty) \in Nat /\ Tokens(full) \in Nat
         /\ \A l : Count(Writers, l) \in Nat /\ Count(Readers, l) \in Nat
         /\ \A w \in Writers : Count(Writers, pc[w]) > 0
         /\ \A r \in Readers : Count(Readers, pc[r]) > 0
  <1>1. IsFiniteSet(Threads) BY FS_Union DEF Threads
  <1>2. Tokens(empty) \in Nat /\ Tokens(full) \in Nat
    BY <1>1, SemaphoreSets DEF TypeOK
  <1>3. \A l : Count(Writers, l) \in Nat /\ Count(Readers, l) \in Nat
    BY PlaceSets
  <1>4. ASSUME NEW S, IsFiniteSet(S), NEW t \in S PROVE Count(S, pc[t]) > 0
    <2>1. t \in At(S, pc[t]) BY DEF At
    <2>2. IsFiniteSet(At(S, pc[t])) /\ Count(S, pc[t]) \in Nat
      BY <1>4, PlaceSets
    <2> QED BY <2>1, <2>2, FS_EmptySet DEF Count
  <1> QED BY <1>1, <1>2, <1>3, <1>4

(* A step of a writer moves nobody else, and no reader.                     *)
LEMMA WriterGoes ==
  ASSUME TypeOK, NEW w \in Writers, NEW k, NEW l \in WriterLabels,
         pc[w] = k, k # l, Goto(w, l)
  PROVE  /\ pc' \in [Threads -> WriterLabels \cup ReaderLabels]
         /\ \A v \in Writers : pc'[v] \in WriterLabels
         /\ \A r \in Readers : pc'[r] \in ReaderLabels
         /\ pc'[w] = l /\ \A t \in Threads : t # w => pc'[t] = pc[t]
         /\ At(Writers, l)' = At(Writers, l) \cup {w}
         /\ At(Writers, k)' = At(Writers, k) \ {w}
         /\ Count(Writers, l)' = Count(Writers, l) + 1
         /\ Count(Writers, k)' = Count(Writers, k) - 1
         /\ \A m : m # k /\ m # l => At(Writers, m)' = At(Writers, m)
         /\ \A m : m # k /\ m # l => Count(Writers, m)' = Count(Writers, m)
         /\ \A m : At(Readers, m)' = At(Readers, m)
         /\ \A m : Count(Readers, m)' = Count(Readers, m)
  <1>1. w \in Threads /\ w \notin Readers /\ Writers \subseteq Threads
        /\ Readers \subseteq Threads
    BY DEF Threads
  <1>2. pc \in [Threads -> WriterLabels \cup ReaderLabels] BY DEF TypeOK
  <1>3. pc' \in [Threads -> WriterLabels \cup ReaderLabels]
        /\ pc'[w] = l /\ \A t \in Threads : t # w => pc'[t] = pc[t]
    BY <1>1, <1>2 DEF Goto
  <1>4. /\ \A v \in Writers : pc'[v] \in WriterLabels
        /\ \A r \in Readers : pc'[r] \in ReaderLabels
    BY <1>1, <1>3 DEF TypeOK
  <1>5. /\ At(Writers, l)' = At(Writers, l) \cup {w}
        /\ At(Writers, k)' = At(Writers, k) \ {w}
        /\ Count(Writers, l)' = Count(Writers, l) + 1
        /\ Count(Writers, k)' = Count(Writers, k) - 1
        /\ \A m : m # k /\ m # l => At(Writers, m)' = At(Writers, m)
        /\ \A m : m # k /\ m # l => Count(Writers, m)' = Count(Writers, m)
    BY <1>1, <1>2, GotoCounts
  <1>6. \A m : At(Readers, m)' = At(Readers, m)
               /\ Count(Readers, m)' = Count(Readers, m)
    BY <1>1, <1>2, GotoElsewhere
  <1> QED BY <1>3, <1>4, <1>5, <1>6

(* A step of a reader moves nobody else, and no writer.                     *)
LEMMA ReaderGoes ==
  ASSUME TypeOK, NEW r \in Readers, NEW k, NEW l \in ReaderLabels,
         pc[r] = k, k # l, Goto(r, l)
  PROVE  /\ pc' \in [Threads -> WriterLabels \cup ReaderLabels]
         /\ \A w \in Writers : pc'[w] \in WriterLabels
         /\ \A q \in Readers : pc'[q] \in ReaderLabels
         /\ pc'[r] = l /\ \A t \in Threads : t # r => pc'[t] = pc[t]
         /\ At(Readers, l)' = At(Readers, l) \cup {r}
         /\ At(Readers, k)' = At(Readers, k) \ {r}
         /\ Count(Readers, l)' = Count(Readers, l) + 1
         /\ Count(Readers, k)' = Count(Readers, k) - 1
         /\ \A m : m # k /\ m # l => At(Readers, m)' = At(Readers, m)
         /\ \A m : m # k /\ m # l => Count(Readers, m)' = Count(Readers, m)
         /\ \A m : At(Writers, m)' = At(Writers, m)
         /\ \A m : Count(Writers, m)' = Count(Writers, m)
  <1>1. r \in Threads /\ r \notin Writers /\ Writers \subseteq Threads
        /\ Readers \subseteq Threads
    BY DEF Threads
  <1>2. pc \in [Threads -> WriterLabels \cup ReaderLabels] BY DEF TypeOK
  <1>3. pc' \in [Threads -> WriterLabels \cup ReaderLabels]
        /\ pc'[r] = l /\ \A t \in Threads : t # r => pc'[t] = pc[t]
    BY <1>1, <1>2 DEF Goto
  <1>4. /\ \A w \in Writers : pc'[w] \in WriterLabels
        /\ \A q \in Readers : pc'[q] \in ReaderLabels
    BY <1>1, <1>3 DEF TypeOK
  <1>5. /\ At(Readers, l)' = At(Readers, l) \cup {r}
        /\ At(Readers, k)' = At(Readers, k) \ {r}
        /\ Count(Readers, l)' = Count(Readers, l) + 1
        /\ Count(Readers, k)' = Count(Readers, k) - 1
        /\ \A m : m # k /\ m # l => At(Readers, m)' = At(Readers, m)
        /\ \A m : m # k /\ m # l => Count(Readers, m)' = Count(Readers, m)
    BY <1>1, <1>2, GotoCounts
  <1>6. \A m : At(Writers, m)' = At(Writers, m)
               /\ Count(Writers, m)' = Count(Writers, m)
    BY <1>1, <1>2, GotoElsewhere
  <1> QED BY <1>3, <1>4, <1>5, <1>6
-----------------------------------------------------------------------------
(* A thread that goes on has bytes left to move, if it had before.          *)
LEMMA CallsKept ==
  ASSUME CallsInv, NEW t \in Threads, UNCHANGED calls,
         moved[t] < asked[t] \/ pc'[t] \in {"idle", "w_signal", "r_signal"},
         \A u \in Threads : u # t => pc'[u] = pc[u]
  PROVE  CallsInv'
  <1> SUFFICES ASSUME NEW u \in Threads
               PROVE  /\ moved'[u] <= asked'[u]
                      /\ pc'[u] \notin {"idle", "w_signal", "r_signal"}
                           => moved'[u] < asked'[u]
    BY DEF CallsInv
  <1>1. moved' = moved /\ asked' = asked BY DEF calls
  <1>2. CASE u = t BY <1>1, <1>2 DEF CallsInv
  <1>3. CASE u # t BY <1>1, <1>3 DEF CallsInv
  <1> QED BY <1>2, <1>3

(* Every step of a writer keeps the invariant.                              *)
LEMMA WriterKeeps ==
  ASSUME IInv, NEW w \in Writers, CallWrite(w) \/ WriteStep(w)
  PROVE  IInv'
  <1> USE DEF IInv
  <1>w. w \in Threads BY DEF Threads
  <1>0. /\ IsFiniteSet(Threads)
        /\ empty \in SemaphoreOf(Threads)
        /\ Covers(empty) /\ Disjoint(empty) /\ Exact(empty)
        /\ full \in SemaphoreOf(Threads)
        /\ Covers(full) /\ Disjoint(full) /\ Exact(full)
    BY Numbers DEF TypeOK, WaitsInv, Waits
  <1>1. CASE CallWrite(w)
    <2>1. PICK n \in 1..MaxChunk : asked' = [asked EXCEPT ![w] = n]
      BY <1>1 DEF CallWrite
    <2>2. pc[w] = "idle" /\ "w_check" \in WriterLabels /\ Goto(w, "w_check")
          /\ moved' = [moved EXCEPT ![w] = 0]
          /\ UNCHANGED <<empty, full, ring, status>>
      BY <1>1 DEF CallWrite, WriterLabels
    <2>3. TypeOK'
      BY <1>w, <2>1, <2>2, WriterGoes DEF TypeOK, ring
    <2>4. WaitsInv'
      BY <2>2, WriterGoes DEF WaitsInv, Waits, Covers, Disjoint, Exact
    <2>5. CellsInv' /\ BytesInv'
      BY <2>2, WriterGoes, Numbers
         DEF CellsInv, BytesInv, CellsHeld, BytesHeld, Tokens, isOpenRead,
             isOpenWrite, ring
    <2>6. AbortInv' /\ FetchInv'
      BY <2>2, WriterGoes
         DEF AbortInv, FetchInv, Threads, isOpenRead, isOpenWrite, ring
    <2>7. CallsInv'
      <3>1. asked'[w] \in 1..MaxChunk /\ moved'[w] = 0
        BY <1>w, <2>1, <2>2 DEF TypeOK
      <3>2. \A t \in Threads : t # w =>
              asked'[t] = asked[t] /\ moved'[t] = moved[t] /\ pc'[t] = pc[t]
        <4>1. \A t \in Threads : t # w => pc'[t] = pc[t] BY <2>2, WriterGoes
        <4> QED BY <2>1, <2>2, <4>1 DEF TypeOK
      <3>3. moved'[w] < asked'[w] BY <3>1
      <3> SUFFICES ASSUME NEW t \in Threads
                   PROVE  /\ moved'[t] <= asked'[t]
                          /\ pc'[t] \notin {"idle", "w_signal", "r_signal"} =>
                               moved'[t] < asked'[t]
        BY DEF CallsInv
      <3>4. CASE t = w BY <3>1, <3>3, <3>4
      <3>5. CASE t # w BY <3>2, <3>5 DEF CallsInv
      <3> QED BY <3>4, <3>5
    <2> QED BY <2>3, <2>4, <2>5, <2>6, <2>7
  <1>2. CASE WriteCheck(w)
    <2>1. PICK l \in {"w_acquire", "idle"} : Goto(w, l)
      BY <1>2 DEF WriteCheck
    <2>2. pc[w] = "w_check" /\ l \in WriterLabels /\ l # "w_check"
          /\ UNCHANGED <<empty, full, ring, status, calls>>
      BY <1>2 DEF WriteCheck, WriterLabels
    <2>3. TypeOK'
      BY <1>w, <2>1, <2>2, WriterGoes DEF TypeOK, ring, calls
    <2>4. WaitsInv'
      BY <2>1, <2>2, WriterGoes DEF WaitsInv, Waits, Covers, Disjoint, Exact
    <2>5. CellsInv' /\ BytesInv'
      BY <2>1, <2>2, WriterGoes, Numbers
         DEF CellsInv, BytesInv, CellsHeld, BytesHeld, Tokens, isOpenRead,
             isOpenWrite, ring
    <2>6. AbortInv' /\ FetchInv'
      BY <2>1, <2>2, WriterGoes
         DEF AbortInv, FetchInv, Threads, isOpenRead, isOpenWrite, ring
    <2>7. CallsInv'
      BY <1>w, <2>1, <2>2, WriterGoes, CallsKept DEF CallsInv
    <2> QED BY <2>3, <2>4, <2>5, <2>6, <2>7
  <1>3. CASE WriteAcquire(w) /\ CanAcquire(empty)
    <2>1. pc[w] = "w_acquire" /\ "w_recheck" \in WriterLabels
          /\ Goto(w, "w_recheck") /\ empty' = AfterAcquire(empty)
          /\ UNCHANGED <<full, ring, status, calls>>
      BY <1>3 DEF WriteAcquire, WriterLabels
    <2>2. /\ empty' \in SemaphoreOf(Threads)
          /\ Covers(empty') /\ Disjoint(empty') /\ Exact(empty')
          /\ Tokens(empty') = Tokens(empty) - 1
          /\ empty'.blocked = empty.blocked /\ empty'.woken = empty.woken
      BY <1>0, <1>3, <2>1, AcquireEffect
    <2>3. TypeOK'
      BY <1>w, <2>1, <2>2, WriterGoes DEF TypeOK, ring, calls
    <2>4. WaitsInv'
      BY <2>1, <2>2, WriterGoes DEF WaitsInv, Waits, Covers, Disjoint, Exact
    <2>5. CellsInv' /\ BytesInv'
      BY <2>1, <2>2, WriterGoes, Numbers
         DEF CellsInv, BytesInv, CellsHeld, BytesHeld, Tokens, isOpenRead,
             isOpenWrite, ring
    <2>6. AbortInv' /\ FetchInv'
      BY <2>1, WriterGoes
         DEF AbortInv, FetchInv, Threads, isOpenRead, isOpenWrite, ring
    <2>7. CallsInv'
      BY <1>w, <2>1, WriterGoes, CallsKept DEF CallsInv
    <2> QED BY <2>3, <2>4, <2>5, <2>6, <2>7
  <1>4. CASE WriteAcquire(w) /\ ~CanAcquire(empty)
    <2>1. pc[w] = "w_acquire" /\ "w_wait" \in WriterLabels
          /\ Goto(w, "w_wait") /\ empty' = AfterSleep(empty, w)
          /\ UNCHANGED <<full, ring, status, calls>>
      BY <1>4 DEF WriteAcquire, WriterLabels
    <2>2. w \notin empty.blocked /\ w \notin empty.woken
      BY <2>1 DEF WaitsInv, Waits, At
    <2>3. /\ empty' \in SemaphoreOf(Threads)
          /\ Covers(empty') /\ Disjoint(empty') /\ Exact(empty')
          /\ Tokens(empty') = Tokens(empty)
          /\ empty'.blocked = empty.blocked \cup {w}
          /\ empty'.woken = empty.woken
      BY <1>0, <1>w, <1>4, <2>1, <2>2, SleepEffect
    <2>4. TypeOK'
      BY <1>w, <2>1, <2>3, WriterGoes DEF TypeOK, ring, calls
    <2>5. WaitsInv'
      BY <2>1, <2>3, WriterGoes DEF WaitsInv, Waits, Covers, Disjoint, Exact
    <2>6. CellsInv' /\ BytesInv'
      BY <2>1, <2>3, WriterGoes, Numbers
         DEF CellsInv, BytesInv, CellsHeld, BytesHeld, Tokens, isOpenRead,
             isOpenWrite, ring
    <2>7. AbortInv' /\ FetchInv'
      BY <2>1, WriterGoes
         DEF AbortInv, FetchInv, Threads, isOpenRead, isOpenWrite, ring
    <2>8. CallsInv'
      BY <1>w, <2>1, WriterGoes, CallsKept DEF CallsInv
    <2> QED BY <2>4, <2>5, <2>6, <2>7, <2>8
  <1>5. CASE WriteResume(w)
    <2>1. pc[w] = "w_wait" /\ "w_recheck" \in WriterLabels
          /\ Goto(w, "w_recheck") /\ empty' = AfterResume(empty, w)
          /\ w \in empty.woken /\ UNCHANGED <<full, ring, status, calls>>
      BY <1>5 DEF WriteResume, WriterLabels
    <2>2. /\ empty' \in SemaphoreOf(Threads)
          /\ Covers(empty') /\ Disjoint(empty') /\ Exact(empty')
          /\ Tokens(empty') = Tokens(empty) - 1
          /\ empty'.blocked = empty.blocked
          /\ empty'.woken = empty.woken \ {w}
      BY <1>0, <2>1, ResumeEffect
    <2>3. w \notin empty.blocked BY <1>0, <2>1 DEF Disjoint
    <2>4. TypeOK'
      BY <1>w, <2>1, <2>2, WriterGoes DEF TypeOK, ring, calls
    <2>5. WaitsInv'
      BY <2>1, <2>2, <2>3, WriterGoes
         DEF WaitsInv, Waits, Covers, Disjoint, Exact
    <2>6. CellsInv' /\ BytesInv'
      BY <2>1, <2>2, WriterGoes, Numbers
         DEF CellsInv, BytesInv, CellsHeld, BytesHeld, Tokens, isOpenRead,
             isOpenWrite, ring
    <2>7. AbortInv' /\ FetchInv'
      BY <2>1, WriterGoes
         DEF AbortInv, FetchInv, Threads, isOpenRead, isOpenWrite, ring
    <2>8. CallsInv'
      BY <1>w, <2>1, WriterGoes, CallsKept DEF CallsInv
    <2> QED BY <2>4, <2>5, <2>6, <2>7, <2>8
  <1>6. CASE WriteRecheck(w)
    <2>1. PICK l \in {"w_store", "w_abort"} :
             Goto(w, l) /\ (l = "w_store" <=> isOpenRead /\ isOpenWrite)
      BY <1>6 DEF WriteRecheck, writteMakeSense
    <2>2. pc[w] = "w_recheck" /\ l \in WriterLabels /\ l # "w_recheck"
          /\ UNCHANGED <<empty, full, ring, status, calls>>
      BY <1>6 DEF WriteRecheck, WriterLabels
    <2>3. TypeOK'
      BY <1>w, <2>1, <2>2, WriterGoes DEF TypeOK, ring, calls
    <2>4. WaitsInv'
      BY <2>1, <2>2, WriterGoes DEF WaitsInv, Waits, Covers, Disjoint, Exact
    <2>5. CellsInv' /\ BytesInv'
      <3>1. Count(Readers, "r_signal")' = Count(Readers, "r_signal")
            /\ Count(Writers, "w_store")' \in
                  {Count(Writers, "w_store"), Count(Writers, "w_store") + 1}
            /\ Count(Writers, "w_recheck")' = Count(Writers, "w_recheck") - 1
            /\ (isOpenRead /\ isOpenWrite =>
                  Count(Writers, "w_store")' = Count(Writers, "w_store") + 1)
            /\ (~(isOpenRead /\ isOpenWrite) =>
                  Count(Writers, "w_store")' = Count(Writers, "w_store"))
            /\ Count(Writers, "w_recheck") > 0
        BY <2>1, <2>2, WriterGoes, Numbers
      <3>2. CellsInv'
        <4>1. /\ Tokens(empty)' = Tokens(empty)
              /\ isOpenRead' = isOpenRead /\ isOpenWrite' = isOpenWrite
              /\ fields_count' = fields_count /\ fields_count \in Nat
          BY <2>2 DEF Tokens, isOpenRead, isOpenWrite, TypeOK, ring
        <4>2. CASE isOpenRead /\ isOpenWrite
          BY <3>1, <4>1, <4>2, Numbers DEF CellsInv, CellsHeld
        <4>3. CASE ~(isOpenRead /\ isOpenWrite)
          BY <3>1, <4>1, <4>3 DEF CellsInv
        <4> QED BY <4>2, <4>3
      <3>3. BytesInv'
        BY <2>1, <2>2, WriterGoes, Numbers
           DEF BytesInv, BytesHeld, isOpenRead, isOpenWrite, Tokens, ring
      <3> QED BY <3>2, <3>3
    <2>6. AbortInv' /\ FetchInv'
      BY <2>1, <2>2, WriterGoes
         DEF AbortInv, FetchInv, Threads, isOpenRead, isOpenWrite, ring
    <2>7. CallsInv'
      BY <1>w, <2>1, <2>2, WriterGoes, CallsKept DEF CallsInv
    <2> QED BY <2>3, <2>4, <2>5, <2>6, <2>7
  <1>7. CASE WriteAbort(w)
    <2>1. pc[w] = "w_abort" /\ "idle" \in WriterLabels /\ Goto(w, "idle")
          /\ empty' \in AfterRelease(empty)
          /\ UNCHANGED <<full, ring, status, calls>>
      BY <1>7 DEF WriteAbort, WriterLabels
    <2>2. /\ empty' \in SemaphoreOf(Threads)
          /\ Covers(empty') /\ Disjoint(empty') /\ Exact(empty')
          /\ empty'.blocked \cup empty'.woken = empty.blocked \cup empty.woken
      BY <1>0, <2>1, ReleaseEffect
    <2>3. TypeOK'
      BY <1>w, <2>1, <2>2, WriterGoes DEF TypeOK, ring, calls
    <2>4. WaitsInv'
      BY <2>1, <2>2, WriterGoes DEF WaitsInv, Waits, Covers, Disjoint, Exact
    <2>5. CellsInv' /\ BytesInv'
      BY <2>1, WriterGoes, Numbers
         DEF CellsInv, BytesInv, BytesHeld, Tokens, AbortInv, isOpenRead,
             isOpenWrite, ring
    <2>6. AbortInv' /\ FetchInv'
      BY <2>1, WriterGoes
         DEF AbortInv, FetchInv, Threads, isOpenRead, isOpenWrite, ring
    <2>7. CallsInv'
      BY <1>w, <2>1, WriterGoes, CallsKept DEF CallsInv
    <2> QED BY <2>3, <2>4, <2>5, <2>6, <2>7
  <1>8. CASE WriteStore(w)
    <2>1. pc[w] = "w_store" /\ "w_signal" \in WriterLabels
          /\ Goto(w, "w_signal")
          /\ write_index' = (write_index + 1) % PIPE_SIZE
          /\ fields_count' = fields_count + 1
          /\ moved' = [moved EXCEPT ![w] = @ + 1]
          /\ UNCHANGED <<empty, full, read_index, status, asked>>
      BY <1>8 DEF WriteStore, WriterLabels
    <2>2. PICK b \in Bytes : buffer' = [buffer EXCEPT ![write_index] = b]
      BY <1>8 DEF WriteStore
    <2>3. /\ Count(Writers, "w_store") > 0
          /\ Count(Writers, "w_store")' = Count(Writers, "w_store") - 1
          /\ Count(Writers, "w_recheck")' = Count(Writers, "w_recheck")
          /\ Count(Writers, "w_signal")' = Count(Writers, "w_signal") + 1
          /\ \A l : Count(Readers, l)' = Count(Readers, l)
      BY <2>1, WriterGoes, Numbers
    <2>4. fields_count + 1 \in 0..PIPE_SIZE
      BY <2>3, Numbers DEF CellsInv, TypeOK
    <2>5. moved[w] < asked[w] /\ moved[w] + 1 \in 0..MaxChunk
      BY <1>w, <2>1 DEF CallsInv, TypeOK
    <2>6. TypeOK'
      <3>1. write_index' \in 0..PIPE_SIZE-1
            /\ buffer' \in [0..PIPE_SIZE-1 -> Bytes \cup {0}]
        BY <2>1, <2>2 DEF TypeOK
      <3>2. moved' \in [Threads -> 0..MaxChunk]
        BY <2>1, <2>5 DEF TypeOK
      <3> QED BY <2>1, <2>4, <3>1, <3>2, WriterGoes DEF TypeOK
    <2>7. WaitsInv'
      BY <2>1, WriterGoes DEF WaitsInv, Waits, Covers, Disjoint, Exact
    <2>8. CellsInv' /\ BytesInv'
      <3>1. /\ Tokens(empty)' = Tokens(empty) /\ Tokens(full)' = Tokens(full)
            /\ isOpenRead' = isOpenRead /\ isOpenWrite' = isOpenWrite
            /\ fields_count \in Nat
        BY <2>1 DEF Tokens, isOpenRead, isOpenWrite, TypeOK
      <3>2. CellsInv'
        BY <2>1, <2>3, <3>1, Numbers DEF CellsInv, CellsHeld
      <3>3. BytesInv'
        BY <2>1, <2>3, <3>1, Numbers DEF BytesInv, BytesHeld
      <3> QED BY <3>2, <3>3
    <2>9. AbortInv' /\ FetchInv'
      <3>1. AbortInv'
        BY <2>1, WriterGoes DEF AbortInv, Threads, isOpenRead, isOpenWrite
      <3>2. fields_count' > 0
        BY <2>1 DEF TypeOK
      <3> QED BY <3>1, <3>2 DEF FetchInv
    <2>10. CallsInv'
      BY <1>w, <2>1, <2>5, WriterGoes DEF CallsInv, TypeOK
    <2> QED BY <2>6, <2>7, <2>8, <2>9, <2>10
  <1>9. CASE WriteSignal(w)
    <2>1. PICK l \in {"w_check", "idle"} :
             Goto(w, l) /\ (l = "w_check" => moved[w] < asked[w])
      BY <1>9 DEF WriteSignal
    <2>2. pc[w] = "w_signal" /\ l \in WriterLabels /\ l # "w_signal"
          /\ full' \in AfterRelease(full)
          /\ UNCHANGED <<empty, ring, status, calls>>
      BY <1>9 DEF WriteSignal, WriterLabels
    <2>3. /\ full' \in SemaphoreOf(Threads)
          /\ Covers(full') /\ Disjoint(full') /\ Exact(full')
          /\ Tokens(full') = Tokens(full) + 1
          /\ full'.blocked \cup full'.woken = full.blocked \cup full.woken
      BY <1>0, <2>2, ReleaseEffect
    <2>4. TypeOK'
      BY <1>w, <2>1, <2>2, <2>3, WriterGoes DEF TypeOK, ring, calls
    <2>5. WaitsInv'
      BY <2>1, <2>2, <2>3, WriterGoes
         DEF WaitsInv, Waits, Covers, Disjoint, Exact
    <2>6. CellsInv' /\ BytesInv'
      BY <2>1, <2>2, <2>3, WriterGoes, Numbers
         DEF CellsInv, BytesInv, CellsHeld, BytesHeld, Tokens, isOpenRead,
             isOpenWrite, ring
    <2>7. AbortInv' /\ FetchInv'
      BY <2>1, <2>2, WriterGoes
         DEF AbortInv, FetchInv, Threads, isOpenRead, isOpenWrite, ring
    <2>8. CallsInv'
      BY <1>w, <2>1, <2>2, WriterGoes, CallsKept DEF CallsInv
    <2> QED BY <2>4, <2>5, <2>6, <2>7, <2>8
  <1> QED
    BY <1>1, <1>2, <1>3, <1>4, <1>5, <1>6, <1>7, <1>8, <1>9 DEF WriteStep

(* Every step of a reader keeps the invariant: with one reader, or as long  *)
(* as the writing end is open.                                              *)
LEMMA ReaderKeeps ==
  ASSUME IInv, Sound, NEW r \in Readers, CallRead(r) \/ ReadStep(r)
  PROVE  IInv'
  <1> USE DEF IInv
  <1>r. r \in Threads BY DEF Threads
  <1>0. /\ IsFiniteSet(Threads)
        /\ empty \in SemaphoreOf(Threads)
        /\ Covers(empty) /\ Disjoint(empty) /\ Exact(empty)
        /\ full \in SemaphoreOf(Threads)
        /\ Covers(full) /\ Disjoint(full) /\ Exact(full)
    BY Numbers DEF TypeOK, WaitsInv, Waits
  <1>1. CASE CallRead(r)
    <2>1. PICK n \in 1..MaxChunk : asked' = [asked EXCEPT ![r] = n]
      BY <1>1 DEF CallRead
    <2>2. pc[r] = "idle" /\ "r_check" \in ReaderLabels /\ Goto(r, "r_check")
          /\ moved' = [moved EXCEPT ![r] = 0]
          /\ UNCHANGED <<empty, full, ring, status>>
      BY <1>1 DEF CallRead, ReaderLabels
    <2>3. TypeOK'
      BY <1>r, <2>1, <2>2, ReaderGoes DEF TypeOK, ring
    <2>4. WaitsInv'
      BY <2>2, ReaderGoes DEF WaitsInv, Waits, Covers, Disjoint, Exact
    <2>5. CellsInv' /\ BytesInv'
      BY <2>2, ReaderGoes, Numbers
         DEF CellsInv, BytesInv, CellsHeld, BytesHeld, Tokens, isOpenRead,
             isOpenWrite, ring
    <2>6. AbortInv' /\ FetchInv'
      BY <2>2, ReaderGoes
         DEF AbortInv, FetchInv, Threads, isOpenRead, isOpenWrite, ring
    <2>7. CallsInv'
      <3>1. asked'[r] \in 1..MaxChunk /\ moved'[r] = 0
        BY <1>r, <2>1, <2>2 DEF TypeOK
      <3>2. \A t \in Threads : t # r =>
              asked'[t] = asked[t] /\ moved'[t] = moved[t] /\ pc'[t] = pc[t]
        <4>1. \A t \in Threads : t # r => pc'[t] = pc[t] BY <2>2, ReaderGoes
        <4> QED BY <2>1, <2>2, <4>1 DEF TypeOK
      <3>3. moved'[r] < asked'[r] BY <3>1
      <3> SUFFICES ASSUME NEW t \in Threads
                   PROVE  /\ moved'[t] <= asked'[t]
                          /\ pc'[t] \notin {"idle", "w_signal", "r_signal"} =>
                               moved'[t] < asked'[t]
        BY DEF CallsInv
      <3>4. CASE t = r BY <3>1, <3>3, <3>4
      <3>5. CASE t # r BY <3>2, <3>5 DEF CallsInv
      <3> QED BY <3>4, <3>5
    <2> QED BY <2>3, <2>4, <2>5, <2>6, <2>7
  <1>2. CASE ReadCheck(r)
    <2>1. PICK l \in {"r_acquire", "idle"} : Goto(r, l)
      BY <1>2 DEF ReadCheck
    <2>2. pc[r] = "r_check" /\ l \in ReaderLabels /\ l # "r_check"
          /\ UNCHANGED <<empty, full, ring, status, calls>>
      BY <1>2 DEF ReadCheck, ReaderLabels
    <2>3. TypeOK'
      BY <1>r, <2>1, <2>2, ReaderGoes DEF TypeOK, ring, calls
    <2>4. WaitsInv'
      BY <2>1, <2>2, ReaderGoes DEF WaitsInv, Waits, Covers, Disjoint, Exact
    <2>5. CellsInv' /\ BytesInv'
      BY <2>1, <2>2, ReaderGoes, Numbers
         DEF CellsInv, BytesInv, CellsHeld, BytesHeld, Tokens, isOpenRead,
             isOpenWrite, ring
    <2>6. AbortInv' /\ FetchInv'
      BY <2>1, <2>2, ReaderGoes
         DEF AbortInv, FetchInv, Threads, isOpenRead, isOpenWrite, ring
    <2>7. CallsInv'
      BY <1>r, <2>1, <2>2, ReaderGoes, CallsKept DEF CallsInv
    <2> QED BY <2>3, <2>4, <2>5, <2>6, <2>7
  <1>3. CASE ReadAcquire(r) /\ CanAcquire(full)
    <2>1. pc[r] = "r_acquire" /\ "r_recheck" \in ReaderLabels
          /\ Goto(r, "r_recheck") /\ full' = AfterAcquire(full)
          /\ UNCHANGED <<empty, ring, status, calls>>
      BY <1>3 DEF ReadAcquire, ReaderLabels
    <2>2. /\ full' \in SemaphoreOf(Threads)
          /\ Covers(full') /\ Disjoint(full') /\ Exact(full')
          /\ Tokens(full') = Tokens(full) - 1
          /\ full'.blocked = full.blocked /\ full'.woken = full.woken
      BY <1>0, <1>3, <2>1, AcquireEffect
    <2>3. TypeOK'
      BY <1>r, <2>1, <2>2, ReaderGoes DEF TypeOK, ring, calls
    <2>4. WaitsInv'
      BY <2>1, <2>2, ReaderGoes DEF WaitsInv, Waits, Covers, Disjoint, Exact
    <2>5. CellsInv' /\ BytesInv'
      BY <2>1, <2>2, ReaderGoes, Numbers
         DEF CellsInv, BytesInv, CellsHeld, BytesHeld, Tokens, isOpenRead,
             isOpenWrite, ring
    <2>6. AbortInv' /\ FetchInv'
      BY <2>1, ReaderGoes
         DEF AbortInv, FetchInv, Threads, isOpenRead, isOpenWrite, ring
    <2>7. CallsInv'
      BY <1>r, <2>1, ReaderGoes, CallsKept DEF CallsInv
    <2> QED BY <2>3, <2>4, <2>5, <2>6, <2>7
  <1>4. CASE ReadAcquire(r) /\ ~CanAcquire(full)
    <2>1. pc[r] = "r_acquire" /\ "r_wait" \in ReaderLabels
          /\ Goto(r, "r_wait") /\ full' = AfterSleep(full, r)
          /\ UNCHANGED <<empty, ring, status, calls>>
      BY <1>4 DEF ReadAcquire, ReaderLabels
    <2>2. r \notin full.blocked /\ r \notin full.woken
      BY <2>1 DEF WaitsInv, Waits, At
    <2>3. /\ full' \in SemaphoreOf(Threads)
          /\ Covers(full') /\ Disjoint(full') /\ Exact(full')
          /\ Tokens(full') = Tokens(full)
          /\ full'.blocked = full.blocked \cup {r}
          /\ full'.woken = full.woken
      BY <1>0, <1>r, <1>4, <2>1, <2>2, SleepEffect
    <2>4. TypeOK'
      BY <1>r, <2>1, <2>3, ReaderGoes DEF TypeOK, ring, calls
    <2>5. WaitsInv'
      BY <2>1, <2>3, ReaderGoes DEF WaitsInv, Waits, Covers, Disjoint, Exact
    <2>6. CellsInv' /\ BytesInv'
      BY <2>1, <2>3, ReaderGoes, Numbers
         DEF CellsInv, BytesInv, CellsHeld, BytesHeld, Tokens, isOpenRead,
             isOpenWrite, ring
    <2>7. AbortInv' /\ FetchInv'
      BY <2>1, ReaderGoes
         DEF AbortInv, FetchInv, Threads, isOpenRead, isOpenWrite, ring
    <2>8. CallsInv'
      BY <1>r, <2>1, ReaderGoes, CallsKept DEF CallsInv
    <2> QED BY <2>4, <2>5, <2>6, <2>7, <2>8
  <1>5. CASE ReadResume(r)
    <2>1. pc[r] = "r_wait" /\ "r_recheck" \in ReaderLabels
          /\ Goto(r, "r_recheck") /\ full' = AfterResume(full, r)
          /\ r \in full.woken /\ UNCHANGED <<empty, ring, status, calls>>
      BY <1>5 DEF ReadResume, ReaderLabels
    <2>2. /\ full' \in SemaphoreOf(Threads)
          /\ Covers(full') /\ Disjoint(full') /\ Exact(full')
          /\ Tokens(full') = Tokens(full) - 1
          /\ full'.blocked = full.blocked
          /\ full'.woken = full.woken \ {r}
      BY <1>0, <2>1, ResumeEffect
    <2>3. r \notin full.blocked BY <1>0, <2>1 DEF Disjoint
    <2>4. TypeOK'
      BY <1>r, <2>1, <2>2, ReaderGoes DEF TypeOK, ring, calls
    <2>5. WaitsInv'
      BY <2>1, <2>2, <2>3, ReaderGoes
         DEF WaitsInv, Waits, Covers, Disjoint, Exact
    <2>6. CellsInv' /\ BytesInv'
      BY <2>1, <2>2, ReaderGoes, Numbers
         DEF CellsInv, BytesInv, CellsHeld, BytesHeld, Tokens, isOpenRead,
             isOpenWrite, ring
    <2>7. AbortInv' /\ FetchInv'
      BY <2>1, ReaderGoes
         DEF AbortInv, FetchInv, Threads, isOpenRead, isOpenWrite, ring
    <2>8. CallsInv'
      BY <1>r, <2>1, ReaderGoes, CallsKept DEF CallsInv
    <2> QED BY <2>4, <2>5, <2>6, <2>7, <2>8
  <1>6. CASE ReadRecheck(r)
    <2>1. PICK l \in {"r_fetch", "r_eof"} :
             Goto(r, l) /\ (l = "r_fetch" <=> readMakeSense)
      BY <1>6 DEF ReadRecheck
    <2>2. pc[r] = "r_recheck" /\ l \in ReaderLabels /\ l # "r_recheck"
          /\ UNCHANGED <<empty, full, ring, status, calls>>
      BY <1>6 DEF ReadRecheck, ReaderLabels
    <2>3. /\ Tokens(empty)' = Tokens(empty) /\ Tokens(full)' = Tokens(full)
          /\ isOpenRead' = isOpenRead /\ isOpenWrite' = isOpenWrite
          /\ fields_count' = fields_count /\ fields_count \in Nat
      BY <2>2 DEF Tokens, isOpenRead, isOpenWrite, TypeOK, ring
    <2>4. /\ \A m : Count(Writers, m)' = Count(Writers, m)
          /\ Count(Readers, "r_signal")' = Count(Readers, "r_signal")
          /\ Count(Readers, "r_recheck") > 0
          /\ Count(Readers, "r_recheck")' = Count(Readers, "r_recheck") - 1
          /\ l = "r_fetch" =>
               Count(Readers, "r_fetch")' = Count(Readers, "r_fetch") + 1
          /\ l = "r_eof" =>
               Count(Readers, "r_fetch")' = Count(Readers, "r_fetch")
      BY <2>1, <2>2, ReaderGoes, Numbers
    <2>5. l = "r_eof" =>
            ~(isOpenRead /\ isOpenWrite) /\ (isOpenRead => fields_count = 0)
      BY <2>1 DEF readMakeSense, isEmpty
    <2>6. l = "r_fetch" => fields_count > 0
      <3>1. CASE ~isEmpty
        BY <2>3, <3>1 DEF isEmpty
      <3>2. CASE isOpenRead /\ isOpenWrite
        BY <2>3, <2>4, <3>2, Numbers DEF BytesInv, BytesHeld
      <3> QED BY <2>1, <3>1, <3>2 DEF readMakeSense
    <2>7. TypeOK'
      BY <1>r, <2>1, <2>2, ReaderGoes DEF TypeOK, ring, calls
    <2>8. WaitsInv'
      BY <2>1, <2>2, ReaderGoes DEF WaitsInv, Waits, Covers, Disjoint, Exact
    <2>9. CellsInv'
      BY <2>3, <2>4 DEF CellsInv, CellsHeld
    <2>10. BytesInv'
      BY <2>1, <2>3, <2>4, <2>5, Numbers DEF BytesInv, BytesHeld
    <2>11. AbortInv'
      BY <2>1, <2>2, <2>3, <2>5, ReaderGoes DEF AbortInv, Threads
    <2>12. FetchInv'
      BY <2>1, <2>2, <2>3, <2>6, ReaderGoes DEF FetchInv, Threads
    <2>13. CallsInv'
      BY <1>r, <2>1, <2>2, ReaderGoes, CallsKept DEF CallsInv
    <2> QED BY <2>7, <2>8, <2>9, <2>10, <2>11, <2>12, <2>13
  <1>7. CASE ReadEof(r)
    <2>1. pc[r] = "r_eof" /\ "idle" \in ReaderLabels /\ Goto(r, "idle")
          /\ empty' \in AfterRelease(empty)
          /\ UNCHANGED <<full, ring, status, calls>>
      BY <1>7 DEF ReadEof, ReaderLabels
    <2>2. /\ empty' \in SemaphoreOf(Threads)
          /\ Covers(empty') /\ Disjoint(empty') /\ Exact(empty')
          /\ empty'.blocked \cup empty'.woken = empty.blocked \cup empty.woken
      BY <1>0, <2>1, ReleaseEffect
    <2>3. TypeOK'
      BY <1>r, <2>1, <2>2, ReaderGoes DEF TypeOK, ring, calls
    <2>4. WaitsInv'
      BY <2>1, <2>2, ReaderGoes DEF WaitsInv, Waits, Covers, Disjoint, Exact
    <2>5. CellsInv' /\ BytesInv'
      BY <2>1, ReaderGoes, Numbers
         DEF CellsInv, BytesInv, BytesHeld, Tokens, AbortInv, isOpenRead,
             isOpenWrite, ring
    <2>6. AbortInv' /\ FetchInv'
      BY <2>1, ReaderGoes
         DEF AbortInv, FetchInv, Threads, isOpenRead, isOpenWrite, ring
    <2>7. CallsInv'
      BY <1>r, <2>1, ReaderGoes, CallsKept DEF CallsInv
    <2> QED BY <2>3, <2>4, <2>5, <2>6, <2>7
  <1>8. CASE ReadFetch(r)
    <2>1. pc[r] = "r_fetch" /\ "r_signal" \in ReaderLabels
          /\ Goto(r, "r_signal")
          /\ read_index' = (read_index + 1) % PIPE_SIZE
          /\ fields_count' = MinusOne(fields_count)
          /\ moved' = [moved EXCEPT ![r] = @ + 1]
          /\ UNCHANGED <<empty, full, buffer, write_index, status, asked>>
      BY <1>8 DEF ReadFetch, ReaderLabels
    <2>2. /\ Count(Readers, "r_fetch") > 0
          /\ Count(Readers, "r_fetch")' = Count(Readers, "r_fetch") - 1
          /\ Count(Readers, "r_recheck")' = Count(Readers, "r_recheck")
          /\ Count(Readers, "r_signal")' = Count(Readers, "r_signal") + 1
          /\ \A l : Count(Writers, l)' = Count(Writers, l)
      BY <2>1, ReaderGoes, Numbers
    <2>3. /\ fields_count \in 1..PIPE_SIZE
          /\ fields_count' = fields_count - 1
      BY <2>1 DEF FetchInv, MinusOne, TypeOK
    <2>4. moved[r] < asked[r] /\ moved[r] + 1 \in 0..MaxChunk
      <3>1. moved[r] < asked[r] BY <1>r, <2>1 DEF CallsInv
      <3>2. moved[r] \in 0..MaxChunk /\ asked[r] \in 0..MaxChunk BY <1>r DEF TypeOK
      <3>3. MaxChunk \in Nat BY PipeAssumption
      <3> QED BY <3>1, <3>2, <3>3
    <2>5. /\ Tokens(empty)' = Tokens(empty) /\ Tokens(full)' = Tokens(full)
          /\ isOpenRead' = isOpenRead /\ isOpenWrite' = isOpenWrite
      BY <2>1 DEF Tokens, isOpenRead, isOpenWrite
    <2>6. TypeOK'
      <3>1. read_index' \in 0..PIPE_SIZE-1 BY <2>1 DEF TypeOK
      <3>2. moved' \in [Threads -> 0..MaxChunk] BY <2>1, <2>4 DEF TypeOK
      <3> QED BY <2>1, <2>3, <3>1, <3>2, ReaderGoes DEF TypeOK
    <2>7. WaitsInv'
      BY <2>1, ReaderGoes DEF WaitsInv, Waits, Covers, Disjoint, Exact
    <2>8. CellsInv'
      BY <2>2, <2>3, <2>5, Numbers DEF CellsInv, CellsHeld
    <2>9. BytesInv'
      BY <2>2, <2>3, <2>5, Numbers DEF BytesInv, BytesHeld
    <2>10. AbortInv'
      BY <2>1, <2>5, ReaderGoes DEF AbortInv, Threads
    <2>11. FetchInv'
      <3> SUFFICES ASSUME NEW q \in Readers, pc'[q] = "r_fetch"
                   PROVE  fields_count' > 0
        BY DEF FetchInv
      <3>1. q # r /\ q \in At(Readers, "r_fetch") \ {r}
        BY <2>1, ReaderGoes DEF At, Threads
      <3>2. isOpenWrite BY <3>1 DEF Sound, OneReader
      <3>3. Count(Readers, "r_fetch")' > 0
        <4>1. q \in At(Readers, "r_fetch")' BY <2>1, <3>1, ReaderGoes
        <4>2. IsFiniteSet(At(Readers, "r_fetch")')
          BY FS_Subset DEF At
        <4> QED BY <2>2, <4>1, <4>2, Numbers, FS_EmptySet DEF Count
      <3> QED BY <2>2, <2>3, <2>5, <2>9, <3>2, <3>3, Numbers
              DEF BytesInv, BytesHeld
    <2>12. CallsInv'
      BY <1>r, <2>1, <2>4, ReaderGoes DEF CallsInv, TypeOK
    <2> QED BY <2>6, <2>7, <2>8, <2>9, <2>10, <2>11, <2>12
  <1>9. CASE ReadSignal(r)
    <2>1. PICK l \in {"r_check", "idle"} :
             Goto(r, l) /\ (l = "r_check" => moved[r] < asked[r])
      BY <1>9 DEF ReadSignal
    <2>2. pc[r] = "r_signal" /\ l \in ReaderLabels /\ l # "r_signal"
          /\ empty' \in AfterRelease(empty)
          /\ UNCHANGED <<full, ring, status, calls>>
      BY <1>9 DEF ReadSignal, ReaderLabels
    <2>3. /\ empty' \in SemaphoreOf(Threads)
          /\ Covers(empty') /\ Disjoint(empty') /\ Exact(empty')
          /\ Tokens(empty') = Tokens(empty) + 1
          /\ empty'.blocked \cup empty'.woken = empty.blocked \cup empty.woken
      BY <1>0, <2>2, ReleaseEffect
    <2>4. TypeOK'
      BY <1>r, <2>1, <2>2, <2>3, ReaderGoes DEF TypeOK, ring, calls
    <2>5. WaitsInv'
      BY <2>1, <2>2, <2>3, ReaderGoes
         DEF WaitsInv, Waits, Covers, Disjoint, Exact
    <2>6. CellsInv' /\ BytesInv'
      BY <2>1, <2>2, <2>3, ReaderGoes, Numbers
         DEF CellsInv, BytesInv, CellsHeld, BytesHeld, Tokens, isOpenRead,
             isOpenWrite, ring
    <2>7. AbortInv' /\ FetchInv'
      BY <2>1, <2>2, ReaderGoes
         DEF AbortInv, FetchInv, Threads, isOpenRead, isOpenWrite, ring
    <2>8. CallsInv'
      BY <1>r, <2>1, <2>2, ReaderGoes, CallsKept DEF CallsInv
    <2> QED BY <2>4, <2>5, <2>6, <2>7, <2>8
  <1> QED
    BY <1>1, <1>2, <1>3, <1>4, <1>5, <1>6, <1>7, <1>8, <1>9 DEF ReadStep

-----------------------------------------------------------------------------
(* Closing an end only signals the other side.                              *)
LEMMA CloseKeeps ==
  ASSUME IInv, CloseRead \/ CloseWrite
  PROVE  IInv'
  <1> USE DEF IInv
  <1>0. /\ IsFiniteSet(Threads)
        /\ empty \in SemaphoreOf(Threads)
        /\ Covers(empty) /\ Disjoint(empty) /\ Exact(empty)
        /\ full \in SemaphoreOf(Threads)
        /\ Covers(full) /\ Disjoint(full) /\ Exact(full)
    BY Numbers DEF TypeOK, WaitsInv, Waits
  <1>1. CASE CloseRead
    <2>1. /\ empty' \in AfterRelease(empty)
          /\ ~isOpenRead' /\ isOpenWrite' = isOpenWrite
          /\ status' \subseteq status
          /\ UNCHANGED <<full, ring, pc, calls>>
      BY <1>1 DEF CloseRead, isOpenRead, isOpenWrite
    <2>2. /\ empty' \in SemaphoreOf(Threads)
          /\ Covers(empty') /\ Disjoint(empty') /\ Exact(empty')
          /\ empty'.blocked \cup empty'.woken = empty.blocked \cup empty.woken
      BY <1>0, <2>1, ReleaseEffect
    <2>3. TypeOK'
      BY <2>1, <2>2 DEF TypeOK, ring, calls
    <2>4. WaitsInv'
      BY <2>1, <2>2 DEF WaitsInv, Waits, Covers, Disjoint, Exact, At
    <2>5. CellsInv' /\ BytesInv'
      BY <2>1, Numbers
         DEF CellsInv, BytesInv, BytesHeld, Count, At, Tokens, ring
    <2>6. AbortInv' /\ FetchInv' /\ CallsInv'
      BY <2>1 DEF AbortInv, FetchInv, CallsInv, ring, calls
    <2> QED BY <2>3, <2>4, <2>5, <2>6
  <1>2. CASE CloseWrite
    <2>1. /\ full' \in AfterRelease(full)
          /\ isOpenWrite /\ ~isOpenWrite' /\ isOpenRead' = isOpenRead
          /\ status' \subseteq status
          /\ UNCHANGED <<empty, ring, pc, calls>>
      BY <1>2 DEF CloseWrite, isOpenRead, isOpenWrite
    <2>2. /\ full' \in SemaphoreOf(Threads)
          /\ Covers(full') /\ Disjoint(full') /\ Exact(full')
          /\ Tokens(full') = Tokens(full) + 1
          /\ full'.blocked \cup full'.woken = full.blocked \cup full.woken
      BY <1>0, <2>1, ReleaseEffect
    <2>3. TypeOK'
      BY <2>1, <2>2 DEF TypeOK, ring, calls
    <2>4. WaitsInv'
      BY <2>1, <2>2 DEF WaitsInv, Waits, Covers, Disjoint, Exact, At
    <2>5. /\ \A l : Count(Writers, l)' = Count(Writers, l)
          /\ \A l : Count(Readers, l)' = Count(Readers, l)
          /\ Tokens(full)' = Tokens(full) + 1
          /\ fields_count' = fields_count /\ fields_count \in Nat
      BY <2>1, <2>2 DEF Count, At, Tokens, ring, TypeOK
    <2>6. CellsInv' BY <2>1, <2>5 DEF CellsInv
    <2>7. BytesInv' BY <2>1, <2>5, Numbers DEF BytesInv, BytesHeld
    <2>8. AbortInv' /\ FetchInv' /\ CallsInv'
      BY <2>1 DEF AbortInv, FetchInv, CallsInv, ring, calls
    <2> QED BY <2>3, <2>4, <2>6, <2>7, <2>8
  <1> QED BY <1>1, <1>2

LEMMA InitIInv == Init => IInv
  <1> SUFFICES ASSUME Init PROVE IInv OBVIOUS
  <1>1. /\ empty = [value |-> PIPE_SIZE, waiting_count |-> 0,
                    blocked |-> {}, woken |-> {}]
        /\ full = [value |-> 0, waiting_count |-> 0,
                   blocked |-> {}, woken |-> {}]
        /\ pc = [t \in Threads |-> "idle"] /\ fields_count = 0
        /\ isOpenRead /\ isOpenWrite
    BY DEF Init, InitialSemaphore, isOpenRead, isOpenWrite
  <1>2. Cardinality({}) = 0 BY FS_EmptySet
  <1>3. \A l : l # "idle" => At(Writers, l) = {} /\ At(Readers, l) = {}
    BY <1>1 DEF At, Threads
  <1>4. \A l : l # "idle" => Count(Writers, l) = 0 /\ Count(Readers, l) = 0
    BY <1>2, <1>3 DEF Count
  <1>5. Tokens(empty) = PIPE_SIZE /\ Tokens(full) = 0
    BY <1>1, <1>2 DEF Tokens
  <1>6. TypeOK
    <2>1. empty \in SemaphoreOf(Threads) /\ full \in SemaphoreOf(Threads)
      BY <1>1 DEF SemaphoreOf
    <2> QED BY <1>1, <2>1 DEF Init, TypeOK, WriterLabels, ReaderLabels, Threads
  <1>7. WaitsInv
    BY <1>1, <1>2, <1>3 DEF WaitsInv, Waits, Covers, Disjoint, Exact
  <1>8. AbortInv /\ FetchInv BY <1>1 DEF AbortInv, FetchInv, Threads
  <1>9. CellsInv /\ BytesInv
    BY <1>1, <1>4, <1>5 DEF CellsInv, BytesInv, CellsHeld, BytesHeld
  <1>10. CallsInv BY <1>1 DEF Init, CallsInv
  <1> QED BY <1>6, <1>7, <1>8, <1>9, <1>10 DEF IInv

(* The next step keeps the invariant as long as it leaves the pipe Sound.   *)
LEMMA StepKeeps ==
  ASSUME SoundIInv, [Next]_vars
  PROVE  SoundIInv'
  <1> SUFFICES ASSUME Sound' PROVE IInv'
    BY DEF SoundIInv
  <1>1. Sound
    BY DEF Sound, Next, vars, isOpenWrite, OneReader, CallWrite, WriteStep,
           WriteCheck, WriteAcquire, WriteResume, WriteRecheck, WriteAbort,
           WriteStore, WriteSignal, CallRead, ReadStep, ReadCheck,
           ReadAcquire, ReadResume, ReadRecheck, ReadEof, ReadFetch,
           ReadSignal, CloseRead, CloseWrite
  <1>2. IInv BY <1>1 DEF SoundIInv
  <1>3. CASE UNCHANGED vars
    BY <1>2, <1>3
       DEF vars, ring, calls, IInv, TypeOK, WaitsInv, Waits, AbortInv,
           CellsInv, BytesInv, CellsHeld, BytesHeld, FetchInv, CallsInv,
           Count, At, Covers, Disjoint, Exact, Tokens, isOpenRead, isOpenWrite
  <1> QED BY <1>1, <1>2, <1>3, WriterKeeps, ReaderKeeps, CloseKeeps DEF Next

LEMMA Invariance == Spec => []SoundIInv
  <1>1. Init => SoundIInv BY InitIInv DEF SoundIInv
  <1>2. SoundIInv /\ [Next]_vars => SoundIInv' BY StepKeeps
  <1> QED BY <1>1, <1>2, PTL DEF Spec
-----------------------------------------------------------------------------
(* fields_count never wraps and the counters, indices and semaphores stay   *)
(* in range (pipe.cpp write_in, read_out, close), however the ends are      *)
(* closed: for one reading thread always, for any number of them until the  *)
(* writing end is closed.                                                   *)
THEOREM PipeTypeCorrect ==
  /\ Spec => [](isOpenWrite => TypeOK)
  /\ OneReader => (Spec => []TypeOK)
  <1>1. SoundIInv => (isOpenWrite => TypeOK) BY DEF SoundIInv, Sound, IInv
  <1>2. Spec => [](isOpenWrite => TypeOK) BY <1>1, Invariance, PTL
  <1>3. ASSUME OneReader PROVE Spec => []TypeOK
    <2>1. SoundIInv => TypeOK BY <1>3 DEF SoundIInv, Sound, IInv
    <2> QED BY <2>1, Invariance, PTL
  <1> QED BY <1>2, <1>3

LEMMA BalanceFromInv == IInv => TokensBalance
  <1> SUFFICES ASSUME IInv PROVE TokensBalance OBVIOUS
  <1>1. ASSUME NEW S, IsFiniteSet(S), NEW k, NEW l, k # l
        PROVE  Cardinality(At(S, k) \cup At(S, l)) = Count(S, k) + Count(S, l)
    <2>1. At(S, k) \cap At(S, l) = {} BY <1>1 DEF At
    <2>2. IsFiniteSet(At(S, k)) /\ IsFiniteSet(At(S, l))
          /\ Count(S, k) \in Nat /\ Count(S, l) \in Nat
      BY <1>1, PlaceSets
    <2>3. Cardinality({}) = 0 BY FS_EmptySet
    <2>4. Cardinality(At(S, k) \cup At(S, l))
            = Cardinality(At(S, k)) + Cardinality(At(S, l)) - 0
      BY <2>1, <2>2, <2>3, FS_Union
    <2> QED BY <2>2, <2>4 DEF Count
  <1>2. /\ Cardinality(At(Writers, "w_recheck") \cup At(Writers, "w_store"))
             = Count(Writers, "w_recheck") + Count(Writers, "w_store")
        /\ Cardinality(At(Readers, "r_recheck") \cup At(Readers, "r_fetch"))
             = Count(Readers, "r_recheck") + Count(Readers, "r_fetch")
        /\ \A S, l : Cardinality(At(S, l)) = Count(S, l)
    BY <1>1 DEF Count
  <1>3. TypeOK /\ CellsInv /\ BytesInv BY DEF IInv
  <1>n. /\ Tokens(empty) \in Nat /\ Tokens(full) \in Nat
        /\ \A l : Count(Writers, l) \in Nat /\ Count(Readers, l) \in Nat
    BY <1>3, Numbers
  <1>4. CellsBalance
    <2>1. fields_count \in Nat BY <1>3 DEF TypeOK
    <2>2. Tokens(empty)
            + Cardinality(At(Writers, "w_recheck") \cup At(Writers, "w_store"))
            + fields_count
            + Cardinality(At(Readers, "r_signal")) = CellsHeld
      BY <1>2, <1>n, <2>1 DEF CellsHeld
    <2> QED BY <1>2, <1>3, <2>2 DEF CellsBalance, CellsInv
  <1>5. BytesBalance
    <2>1. Tokens(full)
            + Cardinality(At(Readers, "r_recheck") \cup At(Readers, "r_fetch"))
            + Cardinality(At(Writers, "w_signal")) = BytesHeld
      BY <1>2, <1>n DEF BytesHeld
    <2> QED BY <1>3, <2>1 DEF BytesBalance, BytesInv
  <1> QED BY <1>4, <1>5 DEF TokensBalance

(* No cell and no byte is lost or used twice between the two semaphores and *)
(* the buffer (pipe.cpp), whoever closes which end at whatever moment.      *)
THEOREM PipeTokensBalance ==
  /\ Spec => [](isOpenWrite => TokensBalance)
  /\ OneReader => (Spec => []TokensBalance)
  <1>1. SoundIInv => (isOpenWrite => TokensBalance)
    BY BalanceFromInv DEF SoundIInv, Sound
  <1>2. Spec => [](isOpenWrite => TokensBalance) BY <1>1, Invariance, PTL
  <1>3. ASSUME OneReader PROVE Spec => []TokensBalance
    <2>1. SoundIInv => TokensBalance
      BY <1>3, BalanceFromInv DEF SoundIInv, Sound
    <2> QED BY <2>1, Invariance, PTL
  <1> QED BY <1>2, <1>3
-----------------------------------------------------------------------------
(* Every step keeps what an orderly close guarantees.                       *)
LEMMA OrderlyKeeps ==
  ASSUME OrderlyClose, IInv, OrderlyInv, [Next]_vars
  PROVE  OrderlyInv'
  <1> USE DEF OrderlyInv
  <1>0. /\ Writers \subseteq Threads /\ Readers \subseteq Threads
        /\ pc \in [Threads -> WriterLabels \cup ReaderLabels]
        /\ moved \in [Threads -> Nat] /\ asked \in [Threads -> Nat]
        /\ fields_count \in Nat
    BY DEF IInv, TypeOK, Threads
  <1>1. ASSUME NEW w \in Writers, CallWrite(w) \/ WriteStep(w)
        PROVE  OrderlyInv'
    <2>0. w \in Threads /\ w \notin Readers BY <1>0
    <2>1. /\ status' = status
          /\ \A t \in Threads : t # w => pc'[t] = pc[t]
          /\ \A t \in Threads : t # w => moved'[t] = moved[t] /\ asked'[t] = asked[t]
      BY <1>0, <1>1, <2>0
         DEF CallWrite, WriteStep, WriteCheck, WriteAcquire, WriteResume,
             WriteRecheck, WriteAbort, WriteStore, WriteSignal, Goto, calls
    <2>2. ~isOpenWrite => pc[w] \in {"idle", "w_check"} BY DEF WritersGone
    <2>3. ~isOpenWrite => pc'[w] \in {"idle", "w_check"} /\ fields_count' = fields_count
      BY <1>0, <1>1, <2>0, <2>2
         DEF CallWrite, WriteStep, WriteCheck, WriteAcquire, WriteResume,
             WriteRecheck, WriteAbort, WriteStore, WriteSignal, Goto,
             writteMakeSense, ring
    <2>4. pc'[w] = "idle" /\ moved'[w] < asked'[w] => ~isOpenRead \/ ~isOpenWrite
      BY <1>0, <1>1, <2>0
         DEF CallWrite, WriteStep, WriteCheck, WriteAcquire, WriteResume,
             WriteRecheck, WriteAbort, WriteStore, WriteSignal, Goto,
             writteMakeSense, calls, AbortInv, IInv
    <2>5. WritersGone'
      BY <1>0, <2>1, <2>3 DEF WritersGone, isOpenWrite
    <2>6. ReadersGone' /\ EofInv'
      BY <1>0, <2>0, <2>1, <2>3
         DEF ReadersGone, EofInv, isOpenRead, isOpenWrite, isEmpty
    <2>7. ShortCallsMeanClosed'
      BY <1>0, <2>0, <2>1, <2>3, <2>4
         DEF ShortCallsMeanClosed, isOpenRead, isOpenWrite, isEmpty
    <2> QED BY <2>5, <2>6, <2>7
  <1>2. ASSUME NEW r \in Readers, CallRead(r) \/ ReadStep(r)
        PROVE  OrderlyInv'
    <2>0. r \in Threads /\ r \notin Writers BY <1>0
    <2>1. /\ status' = status
          /\ \A t \in Threads : t # r => pc'[t] = pc[t]
          /\ \A t \in Threads : t # r => moved'[t] = moved[t] /\ asked'[t] = asked[t]
      BY <1>0, <1>2, <2>0
         DEF CallRead, ReadStep, ReadCheck, ReadAcquire, ReadResume,
             ReadRecheck, ReadEof, ReadFetch, ReadSignal, Goto, calls
    <2>2. ~isOpenRead => pc[r] \in {"idle", "r_check"} BY DEF ReadersGone
    <2>3. ~isOpenRead => pc'[r] \in {"idle", "r_check"}
      BY <1>0, <1>2, <2>0, <2>2
         DEF CallRead, ReadStep, ReadCheck, ReadAcquire, ReadResume,
             ReadRecheck, ReadEof, ReadFetch, ReadSignal, Goto, readMakeSense
    <2>4. pc[r] = "r_eof" => ~isOpenWrite /\ isEmpty BY DEF EofInv
    <2>5. /\ pc'[r] = "r_eof" => ~isOpenWrite /\ isEmpty
          /\ pc'[r] = "idle" /\ moved'[r] < asked'[r] =>
                ~isOpenRead \/ (~isOpenWrite /\ isEmpty)
      BY <1>0, <1>2, <2>0, <2>2, <2>4
         DEF CallRead, ReadStep, ReadCheck, ReadAcquire, ReadResume,
             ReadRecheck, ReadEof, ReadFetch, ReadSignal, Goto,
             readMakeSense, calls
    <2>6. isEmpty => fields_count' = fields_count
      BY <1>2 DEF CallRead, ReadStep, ReadCheck, ReadAcquire, ReadResume,
             ReadRecheck, ReadEof, ReadFetch, ReadSignal, isEmpty, ring,
             IInv, FetchInv
    <2>7. WritersGone'
      BY <1>0, <2>0, <2>1 DEF WritersGone, isOpenWrite
    <2>8. ReadersGone' /\ EofInv'
      BY <1>0, <2>1, <2>3, <2>5, <2>6
         DEF ReadersGone, EofInv, isOpenRead, isOpenWrite, isEmpty
    <2>9. ShortCallsMeanClosed'
      BY <1>0, <2>0, <2>1, <2>5, <2>6
         DEF ShortCallsMeanClosed, isOpenRead, isOpenWrite, isEmpty
    <2> QED BY <2>7, <2>8, <2>9
  <1>3. CASE CloseRead
    <2>1. \A r \in Readers : pc[r] = "idle"
      BY <1>3 DEF CloseRead, Idle
    <2>2. ~isOpenRead' /\ isOpenWrite' = isOpenWrite
          /\ UNCHANGED <<full, ring, pc, calls>>
      BY <1>3 DEF CloseRead, isOpenRead, isOpenWrite
    <2> QED BY <2>1, <2>2
            DEF WritersGone, ReadersGone, EofInv, ShortCallsMeanClosed, isEmpty,
                ring, calls
  <1>4. CASE CloseWrite
    <2>1. \A w \in Writers : pc[w] = "idle"
      BY <1>4 DEF CloseWrite, Idle
    <2>2. ~isOpenWrite' /\ isOpenRead' = isOpenRead
          /\ UNCHANGED <<empty, ring, pc, calls>>
      BY <1>4 DEF CloseWrite, isOpenRead, isOpenWrite
    <2> QED BY <2>1, <2>2
            DEF WritersGone, ReadersGone, EofInv, ShortCallsMeanClosed, isEmpty,
                ring, calls
  <1>5. CASE UNCHANGED vars
    BY <1>5 DEF vars, ring, calls, WritersGone, ReadersGone, EofInv,
                ShortCallsMeanClosed, isOpenRead, isOpenWrite, isEmpty
  <1> QED BY <1>1, <1>2, <1>3, <1>4, <1>5 DEF Next

LEMMA InitOrderly == Init => OrderlyInv
  BY DEF Init, OrderlyInv, WritersGone, ReadersGone, EofInv,
         ShortCallsMeanClosed, isOpenRead, isOpenWrite, Threads

(* A short read means that the reading end is closed or that everything     *)
(* written was drained; a short write that an end is closed (pipe.cpp, the  *)
(* early returns of read_out and write_in): for one reading thread and      *)
(* handles that are closed when no thread is inside them.                   *)
THEOREM ShortCalls ==
  OneReader /\ OrderlyClose => (Spec => []ShortCallsMeanClosed)
  <1> SUFFICES ASSUME OneReader, OrderlyClose PROVE Spec => []ShortCallsMeanClosed
    OBVIOUS
  <1>1. SoundIInv => IInv BY DEF SoundIInv, Sound
  <1>2. Init => OrderlyInv BY InitOrderly
  <1>3. IInv /\ OrderlyInv /\ [Next]_vars => OrderlyInv' BY OrderlyKeeps
  <1>4. OrderlyInv => ShortCallsMeanClosed BY DEF OrderlyInv
  <1> QED BY <1>1, <1>2, <1>3, <1>4, Invariance, PTL DEF Spec
-----------------------------------------------------------------------------
(* Arithmetic of the ring: advancing an index and then going k cells on.    *)
LEMMA ModAdvance ==
  ASSUME NEW P \in Nat \ {0}, NEW x \in 0..P-1, NEW k \in 0..P-1
  PROVE  (((x + 1) % P) + k) % P = (x + (k + 1)) % P
  <1>2. CASE x + 1 < P
    <2>1. (x + 1) % P = x + 1 BY <1>2
    <2> QED BY <2>1
  <1>3. CASE ~(x + 1 < P)
    <2>1. (x + 1) % P = 0 BY <1>3
    <2>2. (x + (k + 1)) % P = k BY <1>3
    <2>3. k % P = k OBVIOUS
    <2> QED BY <2>1, <2>2, <2>3
  <1> QED BY <1>2, <1>3

(* The cell after the n-th one.                                             *)
LEMMA ModIncrement ==
  ASSUME NEW P \in Nat \ {0}, NEW x \in 0..P-1, NEW n \in 0..P-1
  PROVE  (((x + n) % P) + 1) % P = (x + (n + 1)) % P
  <1>1. CASE x + n < P
    <2>1. (x + n) % P = x + n BY <1>1
    <2>2. x + n + 1 = x + (n + 1) OBVIOUS
    <2> QED BY <2>1, <2>2
  <1>2. CASE ~(x + n < P)
    <2>1. (x + n) % P = x + n - P BY <1>2
    <2>2. (x + n - P + 1) % P = x + n - P + 1 BY <1>2
    <2>3. (x + (n + 1)) % P = x + n + 1 - P BY <1>2
    <2> QED BY <2>1, <2>2, <2>3
  <1> QED BY <1>1, <1>2

(* The cell behind the last stored byte holds none of the stored bytes.     *)
LEMMA ModApart ==
  ASSUME NEW P \in Nat \ {0}, NEW x \in 0..P-1, NEW n \in 0..P-1, NEW i \in 1..n
  PROVE  /\ (x + i - 1) % P \in 0..P-1
         /\ (x + i - 1) % P # (x + n) % P
  <1>1. (x + n) % P = IF x + n < P THEN x + n ELSE x + n - P
    <2>1. CASE x + n < P BY <2>1
    <2>2. CASE ~(x + n < P) BY <2>2
    <2> QED BY <2>1, <2>2
  <1>2. (x + i - 1) % P = IF x + i - 1 < P THEN x + i - 1 ELSE x + i - 1 - P
    <2>1. CASE x + i - 1 < P BY <2>1
    <2>2. CASE ~(x + i - 1 < P) BY <2>2
    <2> QED BY <2>1, <2>2
  <1> QED BY <1>1, <1>2

(* A function on 1..n is a sequence; one that extends it by an element, and  *)
(* one that drops its first.                                                *)
LEMMA SeqOfFunction ==
  ASSUME NEW S, NEW n \in Nat, NEW q \in [1..n -> S]
  PROVE  /\ q \in Seq(S) /\ Len(q) = n
         /\ n > 0 => q # <<>>
         /\ n = 0 => q = <<>>
  <1>1. q \in Seq(S) /\ Len(q) = n
    OBVIOUS
  <1> QED BY <1>1

LEMMA SeqAppended ==
  ASSUME NEW S, NEW n \in Nat, NEW q \in [1..n -> S],
         NEW b \in S, NEW r \in [1..n+1 -> S],
         r[n+1] = b, \A i \in 1..n : r[i] = q[i]
  PROVE  r = Append(q, b)
  <1>1. q \in Seq(S) /\ Len(q) = n BY SeqOfFunction
  <1>2. /\ Append(q, b) \in Seq(S) /\ Len(Append(q, b)) = n + 1
        /\ \A i \in 1..n : Append(q, b)[i] = q[i]
        /\ Append(q, b)[n+1] = b
    BY <1>1, AppendProperties
  <1>3. r \in Seq(S) /\ Len(r) = n + 1 BY SeqOfFunction
  <1>4. \A i \in 1..Len(r) : r[i] = Append(q, b)[i] BY <1>2, <1>3
  <1> QED BY <1>2, <1>3, <1>4, SeqEqual

LEMMA SeqShortened ==
  ASSUME NEW S, NEW n \in Nat, n > 0, NEW q \in [1..n -> S],
         NEW r \in [1..n-1 -> S], \A i \in 1..n-1 : r[i] = q[i+1]
  PROVE  r = Tail(q)
  <1>1. q \in Seq(S) /\ Len(q) = n /\ q # <<>> BY SeqOfFunction
  <1>2. /\ Tail(q) \in Seq(S) /\ Len(Tail(q)) = n - 1
        /\ \A i \in 1..n-1 : Tail(q)[i] = q[i+1]
    BY <1>1, HeadTailProperties
  <1>3. r \in Seq(S) /\ Len(r) = n - 1
    <2>1. n - 1 \in Nat OBVIOUS
    <2> QED BY <2>1, SeqOfFunction
  <1>4. \A i \in 1..Len(r) : r[i] = Tail(q)[i] BY <1>2, <1>3
  <1> QED BY <1>2, <1>3, <1>4, SeqEqual
-----------------------------------------------------------------------------
(* Every step that leaves fields_count in range keeps the ring.             *)
LEMMA RingKeeps ==
  ASSUME IInv, Ring, [Next]_vars
  PROVE  Ring'
  <1> USE DEF Ring
  <1>0. /\ read_index \in 0..PIPE_SIZE-1 /\ fields_count \in 0..PIPE_SIZE
        /\ write_index \in 0..PIPE_SIZE-1
    BY DEF IInv, TypeOK
  <1>1. ASSUME NEW w \in Writers, WriteStore(w) PROVE Ring'
    <2>1. /\ write_index' = (write_index + 1) % PIPE_SIZE
          /\ fields_count' = fields_count + 1 /\ read_index' = read_index
          /\ pc[w] = "w_store"
      BY <1>1 DEF WriteStore
    <2>2. fields_count \in 0..PIPE_SIZE-1
      BY <1>0, <2>1, Numbers DEF IInv, CellsInv
    <2> QED BY <1>0, <2>1, <2>2, ModIncrement
  <1>2. ASSUME NEW r \in Readers, ReadFetch(r) PROVE Ring'
    <2>1. /\ read_index' = (read_index + 1) % PIPE_SIZE
          /\ fields_count' = fields_count - 1 /\ write_index' = write_index
          /\ fields_count - 1 \in 0..PIPE_SIZE-1
      BY <1>0, <1>2 DEF ReadFetch, MinusOne, IInv, FetchInv
    <2>2. (((read_index + 1) % PIPE_SIZE) + (fields_count - 1)) % PIPE_SIZE
            = (read_index + (fields_count - 1 + 1)) % PIPE_SIZE
      BY <1>0, <2>1, ModAdvance
    <2>3. fields_count - 1 + 1 = fields_count BY <1>0
    <2> QED BY <2>1, <2>2, <2>3
  <1>3. CASE UNCHANGED ring
    BY <1>3 DEF ring
  <1> QED
    BY <1>1, <1>2, <1>3
       DEF Next, vars, CallWrite, WriteStep, WriteCheck, WriteAcquire,
           WriteResume, WriteRecheck, WriteAbort, WriteSignal, CallRead,
           ReadStep, ReadCheck, ReadAcquire, ReadResume, ReadRecheck, ReadEof,
           ReadSignal, CloseRead, CloseWrite

(* What the channel holds.                                                  *)
Contents == [i \in 1..fields_count |-> buffer[(read_index + i - 1) % PIPE_SIZE]]

LEMMA ContentsIsSeq ==
  ASSUME IInv
  PROVE  /\ Contents \in [1..fields_count -> Bytes \cup {0}]
         /\ Len(Contents) = fields_count
         /\ fields_count > 0 => Contents # <<>>
         /\ fields_count = 0 => Contents = <<>>
  <1>1. /\ read_index \in 0..PIPE_SIZE-1 /\ fields_count \in 0..PIPE_SIZE
        /\ buffer \in [0..PIPE_SIZE-1 -> Bytes \cup {0}]
    BY DEF IInv, TypeOK
  <1>2. \A i \in 1..fields_count : (read_index + i - 1) % PIPE_SIZE \in 0..PIPE_SIZE-1
    BY <1>1
  <1>3. Contents \in [1..fields_count -> Bytes \cup {0}]
    BY <1>1, <1>2 DEF Contents
  <1>4. fields_count \in Nat BY <1>1
  <1> QED BY <1>3, <1>4, SeqOfFunction

(* A store appends the byte to the contents, and no stored byte is touched. *)
LEMMA StoreAppends ==
  ASSUME IInv, Ring, OrderlyInv, NEW w \in Writers, WriteStore(w)
  PROVE  \E b \in Bytes : Channel!Send(b)
  <1>0. /\ read_index \in 0..PIPE_SIZE-1 /\ fields_count \in 0..PIPE_SIZE
        /\ write_index \in 0..PIPE_SIZE-1
        /\ buffer \in [0..PIPE_SIZE-1 -> Bytes \cup {0}]
    BY DEF IInv, TypeOK
  <1>1. /\ fields_count' = fields_count + 1 /\ read_index' = read_index
        /\ pc[w] = "w_store" /\ status' = status
    BY DEF WriteStore
  <1>2. fields_count \in 0..PIPE_SIZE-1
    BY <1>0, <1>1, Numbers DEF IInv, CellsInv
  <1>3. "openWrite" \in status
    BY <1>1 DEF OrderlyInv, WritersGone, isOpenWrite
  <1>4. PICK b \in Bytes : buffer' = [buffer EXCEPT ![write_index] = b]
    BY DEF WriteStore
  <1>5. /\ Contents'[fields_count+1] = b
        /\ \A i \in 1..fields_count : Contents'[i] = Contents[i]
        /\ Contents' \in [1..fields_count+1 -> Bytes \cup {0}]
    <2>1. ASSUME NEW i \in 1..fields_count
          PROVE  buffer'[(read_index + i - 1) % PIPE_SIZE]
                   = buffer[(read_index + i - 1) % PIPE_SIZE]
      <3>1. (read_index + i - 1) % PIPE_SIZE \in 0..PIPE_SIZE-1
            /\ (read_index + i - 1) % PIPE_SIZE # write_index
        BY <1>0, <1>2, <2>1, ModApart DEF Ring
      <3> QED BY <1>0, <1>4, <3>1
    <2>2. buffer'[(read_index + (fields_count + 1) - 1) % PIPE_SIZE] = b
      <3>1. read_index + (fields_count + 1) - 1 = read_index + fields_count
        BY <1>0
      <3> QED BY <1>0, <1>4, <3>1 DEF Ring
    <2>3. Contents' = [i \in 1..fields_count+1 |->
                         buffer'[(read_index + i - 1) % PIPE_SIZE]]
      BY <1>1 DEF Contents
    <2>4. \A i \in 1..fields_count :
             Contents[i] = buffer[(read_index + i - 1) % PIPE_SIZE]
      BY DEF Contents
    <2>5. \A i \in 1..fields_count+1 :
             i # fields_count+1 => i \in 1..fields_count
      BY <1>0
    <2>6. \A i \in 1..fields_count :
             i \in 1..fields_count+1 /\ fields_count+1 \in 1..fields_count+1
      BY <1>0
    <2>7. Contents'[fields_count+1] = b
      <3>1. fields_count+1 \in 1..fields_count+1 BY <1>0
      <3> QED BY <2>2, <2>3, <3>1
    <2>8. \A i \in 1..fields_count : Contents'[i] = Contents[i]
      BY <2>1, <2>3, <2>4, <2>6
    <2>9. \A i \in 1..fields_count+1 : Contents'[i] \in Bytes \cup {0}
      BY <2>5, <2>7, <2>8, ContentsIsSeq
    <2> QED BY <2>3, <2>7, <2>8, <2>9
  <1>6. /\ Len(Contents) = fields_count
        /\ Contents' = Append(Contents, b)
    <2>1. b \in Bytes \cup {0} /\ fields_count \in Nat BY <1>0
    <2> QED BY <1>5, <2>1, ContentsIsSeq, SeqAppended
  <1>7. Len(Contents) < PIPE_SIZE BY <1>2, <1>6
  <1>8. Channel!Send(b)
    BY <1>1, <1>3, <1>6, <1>7, Zenon DEF Channel!Send, Contents
  <1> QED BY <1>8

(* A fetch removes the first byte of the contents.                          *)
LEMMA FetchRemoves ==
  ASSUME IInv, OrderlyInv, NEW r \in Readers, ReadFetch(r)
  PROVE  Channel!Receive
  <1>0. /\ read_index \in 0..PIPE_SIZE-1 /\ fields_count \in 1..PIPE_SIZE
        /\ pc[r] = "r_fetch"
    BY DEF IInv, TypeOK, FetchInv, ReadFetch
  <1>1. /\ fields_count' = fields_count - 1 /\ buffer' = buffer
        /\ read_index' = (read_index + 1) % PIPE_SIZE /\ status' = status
    BY <1>0 DEF ReadFetch, MinusOne
  <1>2. "openRead" \in status
    BY <1>0 DEF OrderlyInv, ReadersGone, isOpenRead
  <1>3. /\ \A i \in 1..fields_count-1 : Contents'[i] = Contents[i+1]
        /\ Contents' \in [1..fields_count-1 -> Bytes \cup {0}]
    <2>1. ASSUME NEW i \in 1..fields_count-1
          PROVE  (((read_index + 1) % PIPE_SIZE) + i - 1) % PIPE_SIZE
                   = (read_index + (i + 1) - 1) % PIPE_SIZE
      <3> DEFINE k == i - 1
      <3>1. k \in 0..PIPE_SIZE-1 BY <1>0
      <3>2. (((read_index + 1) % PIPE_SIZE) + k) % PIPE_SIZE
              = (read_index + (k + 1)) % PIPE_SIZE
        <4> HIDE DEF k
        <4> QED BY <1>0, <3>1, ModAdvance
      <3>3. (read_index + 1) % PIPE_SIZE \in 0..PIPE_SIZE-1 BY <1>0
      <3> HIDE DEF k
      <3>4. ((read_index + 1) % PIPE_SIZE) + i - 1 = ((read_index + 1) % PIPE_SIZE) + k
        BY <3>3 DEF k
      <3>5. read_index + (i + 1) - 1 = read_index + (k + 1)
        BY <1>0 DEF k
      <3> QED BY <3>2, <3>4, <3>5
    <2>2. Contents' = [i \in 1..fields_count-1 |->
                buffer[(((read_index + 1) % PIPE_SIZE) + i - 1) % PIPE_SIZE]]
      BY <1>1 DEF Contents
    <2>3. ASSUME NEW i \in 1..fields_count-1
          PROVE  Contents[i+1] = buffer[(read_index + (i + 1) - 1) % PIPE_SIZE]
      <3>1. fields_count \in Nat BY <1>0
      <3>2. i + 1 \in 1..fields_count BY <3>1
      <3> QED BY <3>2 DEF Contents
    <2>4. ASSUME NEW i \in 1..fields_count-1
          PROVE  Contents'[i] = Contents[i+1] /\ Contents[i+1] \in Bytes \cup {0}
      <3>1. Contents'[i] = buffer[(((read_index + 1) % PIPE_SIZE) + i - 1) % PIPE_SIZE]
        BY <2>2
      <3>2. i + 1 \in 1..fields_count BY <1>0
      <3>3. Contents[i+1] \in Bytes \cup {0} BY <3>2, ContentsIsSeq
      <3> QED BY <3>1, <3>3, <2>1, <2>3
    <2>5. Contents' \in [1..fields_count-1 -> Bytes \cup {0}]
      BY <2>2, <2>4
    <2> QED BY <2>4, <2>5
  <1>4. Contents # <<>> /\ Contents' = Tail(Contents)
    <2>1. fields_count > 0 /\ fields_count \in Nat BY <1>0
    <2> QED BY <1>3, <2>1, ContentsIsSeq, SeqShortened
  <1> QED BY <1>1, <1>2, <1>4, Zenon DEF Channel!Receive, Contents

(* Every step of the pipe is a step of the abstract channel or none: bytes  *)
(* leave in the order in which they came, none is lost, duplicated or       *)
(* overwritten (pipe.cpp), for one reading thread and an orderly close.     *)
THEOREM PipeIsChannel ==
  OneReader /\ OrderlyClose => (Spec => ImplementsChannel)
  <1> SUFFICES ASSUME OneReader, OrderlyClose PROVE Spec => ImplementsChannel
    OBVIOUS
  <1>1. Init => Channel!Init
    <2> SUFFICES ASSUME Init PROVE Channel!Init OBVIOUS
    <2>1. Contents = <<>>
      <3>1. fields_count = 0 BY DEF Init
      <3> QED BY <3>1, InitIInv, ContentsIsSeq
    <2> QED BY <2>1 DEF Init, Channel!Init, Contents
  <1>2. ASSUME IInv, OrderlyInv, Ring, [Next]_vars
        PROVE  [Channel!Next]_(Channel!cvars)
    <2>1. ASSUME NEW w \in Writers, WriteStore(w) PROVE Channel!Next
      BY <1>2, <2>1, StoreAppends DEF Channel!Next
    <2>2. ASSUME NEW r \in Readers, ReadFetch(r) PROVE Channel!Next
      BY <1>2, <2>2, FetchRemoves DEF Channel!Next
    <2>3. CASE CloseRead
      <3>1. Channel!Close("openRead")
        BY <2>3 DEF CloseRead, Channel!Close, ring
      <3> QED BY <3>1 DEF Channel!Next
    <2>4. CASE CloseWrite
      <3>1. Channel!Close("openWrite")
        BY <2>4 DEF CloseWrite, Channel!Close, ring
      <3> QED BY <3>1 DEF Channel!Next
    <2>5. CASE UNCHANGED <<ring, status>>
      BY <2>5 DEF ring, Channel!cvars
    <2> QED
      BY <1>2, <2>1, <2>2, <2>3, <2>4, <2>5
         DEF Next, vars, CallWrite, WriteStep, WriteCheck, WriteAcquire,
             WriteResume, WriteRecheck, WriteAbort, WriteSignal, CallRead,
             ReadStep, ReadCheck, ReadAcquire, ReadResume, ReadRecheck,
             ReadEof, ReadSignal
  <1>3. SoundIInv => IInv BY DEF SoundIInv, Sound
  <1>4. Init => OrderlyInv BY InitOrderly
  <1>5. IInv /\ OrderlyInv /\ [Next]_vars => OrderlyInv' BY OrderlyKeeps
  <1>6. Init => Ring
    BY DEF Init, Ring
  <1>7. IInv /\ Ring /\ [Next]_vars => Ring' BY RingKeeps
  <1> QED
    BY <1>1, <1>2, <1>3, <1>4, <1>5, <1>6, <1>7, Invariance, PTL
       DEF Spec, ImplementsChannel, Channel!Spec
=============================================================================
