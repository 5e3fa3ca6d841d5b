---------------------------- MODULE Process_proofs ----------------------------
(***************************************************************************)
(* Theorems about Process for every number of threads and every size of    *)
(* the tables. The types are right whatever programs do, and the streams   *)
(* that are in use stay open whatever they do, as long as no two threads   *)
(* count the openings at the same time. The rest holds for programs that   *)
(* wait for one handle at a time and take no liberty but to count at the   *)
(* same time and to ask for a program that does not exist.                 *)
(***************************************************************************)
EXTENDS Process, FiniteSetTheorems, SequenceTheorems, WellFoundedInduction, TLAPS

USE ProcessAssumption, SlotAssumption DEF counting

Handles == Pids \cup Tids
Handle == Handles \cup {erInvalid_Handle}

Creating == {"initialisePCB", "loadProgram", "createProcessThread"}

\* The processes that hold the standard streams.
Streams == {p \in Pids : process_table[p] # None /\ process_table[p].io}
-----------------------------------------------------------------------------
(* The inductive invariant for programs of any kind. The first slots of     *)
(* both tables are init's: no other thread gets them, and no handle of a    *)
(* thread that creates, stops or removes a process leads there. A thread    *)
(* that runs has a tid.                                                     *)

ArgInv(n) ==
    /\ pc[n] \in {"advancePid", "createFreePCB"} =>
           arg[n] \in Pids \cup {erInvalid_Handle} /\ arg[n] # 0
    /\ pc[n] \in Creating => arg[n] \in Pids /\ arg[n] # 0
    /\ pc[n] \in {"startThread", "start"} => arg[n] \in Tids /\ arg[n] # BASE_TID_INDEX
    /\ pc[n] \in {"stop", "stopClean", "clean"} => arg[n] # 0
    /\ pc[n] = "clean" => arg[n] \in Handles
    /\ 0 \notin children[n]
    /\ n # Init0 => thread_to_tid[n] # BASE_TID_INDEX
    /\ pc[n] \notin {"unborn", "start"} => thread_to_tid[n] \in Tids

OthersAreNotInit ==
    \A t \in Tids : t # BASE_TID_INDEX /\ thread_table[t] # None => thread_table[t].pid # 0

Booted ==
    /\ thread_to_tid[Init0] = BASE_TID_INDEX /\ pc[Init0] \notin {"unborn", "start"}
    /\ thread_table[BASE_TID_INDEX] # None /\ thread_table[BASE_TID_INDEX].pid = 0
    /\ process_table[0] # None /\ process_table[0].io /\ ~process_table[0].q.assigned

\* The counter of the openings is in the hands of one thread at a time.
CountsAlone == "count at the same time" \notin Liberties

SeenInv ==
    \A n \in Native : Loaded(n) =>
        seen[n] = openCounter /\ \A m \in Native : Loaded(m) => m = n

Counted == CountsAlone => SeenInv /\ StreamsStayOpen

AnyInv ==
    /\ TypeOK
    /\ \A n \in Native : ArgInv(n)
    /\ OthersAreNotInit
    /\ ~halted => Booted
    /\ Counted
-----------------------------------------------------------------------------
(* Handles and slots.                                                       *)

LEMMA HandleSets ==
  /\ Pids \subseteq Nat /\ Tids \subseteq Nat /\ erInvalid_Handle \in Nat
  /\ 0 \in Pids /\ BASE_TID_INDEX \in Tids
  /\ \A h \in Tids : h \notin Pids /\ h # 0 /\ ~(h < BASE_TID_INDEX)
  /\ \A h \in Pids : h \notin Tids /\ h < BASE_TID_INDEX
  /\ erInvalid_Handle \notin Handles
  /\ MAX_PROCESS_COUNT \in Handles /\ MAX_PROCESS_COUNT # 0
  BY DEF Pids, Tids, BASE_TID_INDEX, erInvalid_Handle, Handles

LEMMA FiniteTables ==
  /\ IsFiniteSet(Pids) /\ Cardinality(Pids) = MAX_PROCESS_COUNT
  /\ IsFiniteSet(Tids) /\ Cardinality(Tids) = MAX_THREAD_COUNT
  <1>1. IsFiniteSet(0..(MAX_PROCESS_COUNT - 1))
        /\ Cardinality(0..(MAX_PROCESS_COUNT - 1)) = MAX_PROCESS_COUNT
    BY FS_Interval
  <1> DEFINE b == BASE_TID_INDEX
             e == BASE_TID_INDEX + MAX_THREAD_COUNT - 1
  <1>2. b \in Int /\ e \in Int /\ ~(b > e) /\ e - b + 1 = MAX_THREAD_COUNT
    BY DEF BASE_TID_INDEX
  <1>3. IsFiniteSet(b..e) /\ Cardinality(b..e) = MAX_THREAD_COUNT
    <2> HIDE DEF b, e
    <2>1. IsFiniteSet(b..e)
          /\ Cardinality(b..e) = IF b > e THEN 0 ELSE e - b + 1
      BY <1>2, FS_Interval
    <2> QED BY <1>2, <2>1
  <1> QED BY <1>1, <1>3 DEF Pids, Tids

\* A set of naturals has a least element.
LEMMA Lowest ==
  ASSUME NEW S \in SUBSET Nat, S # {}
  PROVE  \E x \in S : \A y \in S : x <= y
  <1>1. PICK x \in S : \A y \in S : ~(<<y, x>> \in OpToRel(<, Nat))
    BY NatLessThanWellFounded, WFMin
  <1>2. ASSUME NEW y \in S PROVE x <= y
    <2>1. <<y, x>> \in Nat \X Nat OBVIOUS
    <2>2. ~(y < x) BY <1>1, <2>1 DEF OpToRel
    <2> QED BY <2>2
  <1> QED BY <1>2

\* The scan for a slot ends at an empty one, or nowhere when the table is full.
LEMMA FreeSlot ==
  ASSUME NEW S \in SUBSET Nat, IsFiniteSet(S), S # {}, NEW next \in Nat,
         NEW table, DOMAIN table = S
  PROVE  \/ FirstFree(table, next) \in S /\ table[FirstFree(table, next)] = None
         \/ FirstFree(table, next) = erInvalid_Handle /\ \A h \in S : table[h] # None
  <1> DEFINE size == Cardinality(S)
             free == {h \in S : table[h] = None}
             distance(h) == (h + size - next) % size
             chosen == CHOOSE h \in free : \A g \in free : distance(h) <= distance(g)
  <1>1. FirstFree(table, next) = IF free = {} THEN erInvalid_Handle ELSE chosen
    BY DEF FirstFree
  <1>2. CASE free = {} BY <1>1, <1>2
  <1>3. CASE free # {}
    <2>1. size \in Nat /\ size # 0 BY FS_CardinalityType, FS_EmptySet
    <2>2. ASSUME NEW h \in free PROVE distance(h) \in Nat
      <3>1. h \in Nat OBVIOUS
      <3> HIDE DEF size, free
      <3> QED BY <2>1, <3>1
    <2> DEFINE ds == {distance(h) : h \in free}
    <2>3. ds \in SUBSET Nat /\ ds # {} BY <1>3, <2>2
    <2>4. PICK x \in ds : \A y \in ds : x <= y
      <3> HIDE DEF ds
      <3> QED BY <2>3, Lowest
    <2>5. \E h \in free : \A g \in free : distance(h) <= distance(g) BY <2>4
    <2>6. chosen \in free
      <3> HIDE DEF free, distance
      <3> QED BY <2>5
    <2> QED BY <1>1, <1>3, <2>6
  <1> QED BY <1>2, <1>3

LEMMA FreePid ==
  ASSUME TypeOK
  PROVE  \/ getNextFreePid \in Pids /\ process_table[getNextFreePid] = None
         \/ getNextFreePid = erInvalid_Handle /\ \A p \in Pids : process_table[p] # None
  <1>1. DOMAIN process_table = Pids /\ next_pid \in Nat /\ Pids # {}
    BY HandleSets DEF TypeOK
  <1> QED BY <1>1, HandleSets, FiniteTables, FreeSlot DEF getNextFreePid

LEMMA FreeTid ==
  ASSUME TypeOK
  PROVE  \/ getNextFreeTid \in Tids /\ thread_table[getNextFreeTid] = None
         \/ getNextFreeTid = erInvalid_Handle /\ \A t \in Tids : thread_table[t] # None
  <1>1. DOMAIN thread_table = Tids /\ next_tid \in Nat /\ Tids # {}
    BY HandleSets DEF TypeOK
  <1> QED BY <1>1, HandleSets, FiniteTables, FreeSlot DEF getNextFreeTid

LEMMA NextTypes ==
  /\ \A h \in Pids \cup {erInvalid_Handle} : NextPid(h) \in Pids
  /\ \A h \in Tids : NextTid(h) \in Tids
  BY DEF NextPid, NextTid, Pids, Tids, BASE_TID_INDEX, erInvalid_Handle
-----------------------------------------------------------------------------
(* Records.                                                                 *)

LEMMA QueueTypes ==
  /\ NewQueue \in Queue
  /\ \A q \in Queue : q.waiting_handles \in Seq(Tids) /\ q.is_locked \in BOOLEAN
                      /\ q.assigned \in BOOLEAN /\ q.waiters \in Nat
  /\ \A q \in Queue : \A t \in Tids :
        [q EXCEPT !.waiting_handles = Append(@, t)] \in Queue
  /\ \A q \in Queue : [q EXCEPT !.waiting_handles = <<>>] \in Queue
  /\ \A q \in Queue : [q EXCEPT !.waiters = IF @ > 0 THEN @ - 1 ELSE @] \in Queue
  /\ \A q \in Queue : [waiting_handles |-> <<>>, is_locked |-> TRUE, assigned |-> TRUE,
                       waiters |-> Len(q.waiting_handles)] \in Queue
  <1>1. \A q \in Queue : q.waiting_handles \in Seq(Tids) /\ q.is_locked \in BOOLEAN
                         /\ q.assigned \in BOOLEAN /\ q.waiters \in Nat
    BY DEF Queue
  <1>2. <<>> \in Seq(Tids) OBVIOUS
  <1>3. NewQueue \in Queue BY <1>2 DEF NewQueue, Queue
  <1>4. \A q \in Queue : \A t \in Tids :
           [q EXCEPT !.waiting_handles = Append(@, t)] \in Queue
    <2>1. \A s \in Seq(Tids) : \A t \in Tids : Append(s, t) \in Seq(Tids) OBVIOUS
    <2> QED BY <2>1 DEF Queue
  <1>5. \A q \in Queue : [q EXCEPT !.waiting_handles = <<>>] \in Queue
    BY <1>2 DEF Queue
  <1>6. \A q \in Queue : [q EXCEPT !.waiters = IF @ > 0 THEN @ - 1 ELSE @] \in Queue
    BY DEF Queue
  <1>7. \A q \in Queue : [waiting_handles |-> <<>>, is_locked |-> TRUE, assigned |-> TRUE,
                          waiters |-> Len(q.waiting_handles)] \in Queue
    <2>1. \A s \in Seq(Tids) : Len(s) \in Nat OBVIOUS
    <2> QED BY <1>1, <1>2, <2>1 DEF Queue
  <1> QED BY <1>1, <1>3, <1>4, <1>5, <1>6, <1>7

\* What the operations on a record do to it: the queue, and nothing else.
LEMMA RecordSteps ==
  ASSUME NEW r, r \in PCB \/ r \in TCB
  PROVE  /\ r.q \in Queue
         /\ \A t \in Tids :
               /\ Register(r, t).q = IF r.q.is_locked THEN r.q
                      ELSE [r.q EXCEPT !.waiting_handles = Append(@, t)]
               /\ Register(r, t).q \in Queue
         /\ AfterRead(r).q = [r.q EXCEPT !.waiters = IF @ > 0 THEN @ - 1 ELSE @]
         /\ AfterRead(r).q \in Queue
         /\ NoWaiters(r).q = [r.q EXCEPT !.waiting_handles = <<>>]
         /\ NoWaiters(r).q \in Queue
         /\ Done(r).q = [waiting_handles |-> <<>>, is_locked |-> TRUE, assigned |-> TRUE,
                         waiters |-> Len(r.q.waiting_handles)]
         /\ Done(r).q \in Queue
  <1>1. r.q \in Queue BY DEF PCB, TCB
  <1>2. ASSUME NEW t \in Tids
        PROVE  /\ Register(r, t).q = IF r.q.is_locked THEN r.q
                      ELSE [r.q EXCEPT !.waiting_handles = Append(@, t)]
               /\ Register(r, t).q \in Queue
    <2>1. Register(r, t).q = IF r.q.is_locked THEN r.q
                      ELSE [r.q EXCEPT !.waiting_handles = Append(@, t)]
      BY DEF Register, PCB, TCB
    <2> QED BY <1>1, <2>1, QueueTypes
  <1>3. AfterRead(r).q = [r.q EXCEPT !.waiters = IF @ > 0 THEN @ - 1 ELSE @]
    BY DEF AfterRead, PCB, TCB
  <1>4. NoWaiters(r).q = [r.q EXCEPT !.waiting_handles = <<>>]
    BY DEF NoWaiters, PCB, TCB
  <1>5. Done(r).q = [waiting_handles |-> <<>>, is_locked |-> TRUE, assigned |-> TRUE,
                     waiters |-> Len(r.q.waiting_handles)]
    BY DEF Done, PCB, TCB
  <1>6. AfterRead(r).q \in Queue BY <1>1, <1>3, QueueTypes
  <1>7. NoWaiters(r).q \in Queue BY <1>1, <1>4, QueueTypes
  <1>8. Done(r).q \in Queue BY <1>1, <1>5, QueueTypes
  <1> QED BY <1>1, <1>2, <1>3, <1>4, <1>5, <1>6, <1>7, <1>8

LEMMA PcbWith ==
  ASSUME NEW r \in PCB, NEW q \in Queue
  PROVE  /\ [r EXCEPT !.q = q] \in PCB /\ [r EXCEPT !.q = q] # None
         /\ [r EXCEPT !.q = q].creator = r.creator
         /\ [r EXCEPT !.q = q].io = r.io
         /\ [r EXCEPT !.q = q].q = q
  BY DEF PCB

LEMMA PcbSteps ==
  ASSUME NEW r \in PCB
  PROVE  /\ r # None /\ r.creator \in Native /\ r.io \in BOOLEAN
         /\ \A t \in Tids : /\ Register(r, t) \in PCB
                            /\ Register(r, t).creator = r.creator
                            /\ Register(r, t).io = r.io
         /\ AfterRead(r) \in PCB /\ AfterRead(r).creator = r.creator
         /\ AfterRead(r).io = r.io
         /\ Done(r) \in PCB /\ Done(r).creator = r.creator /\ Done(r).io = r.io
  <1>1. r # None /\ r.creator \in Native /\ r.io \in BOOLEAN /\ r.q \in Queue
    BY DEF PCB
  <1>2. ASSUME NEW t \in Tids
        PROVE  Register(r, t) \in PCB /\ Register(r, t).creator = r.creator
               /\ Register(r, t).io = r.io
    <2>1. CASE r.q.is_locked BY <2>1 DEF Register
    <2>2. CASE ~r.q.is_locked
      <3> DEFINE q == [r.q EXCEPT !.waiting_handles = Append(@, t)]
      <3>1. q \in Queue BY <1>1, QueueTypes
      <3>2. Register(r, t) = [r EXCEPT !.q = q] BY <2>2 DEF Register
      <3> HIDE DEF q
      <3> QED BY <3>1, <3>2, PcbWith
    <2> QED BY <2>1, <2>2
  <1>3. AfterRead(r) \in PCB /\ AfterRead(r).creator = r.creator /\ AfterRead(r).io = r.io
    <2> DEFINE q == [r.q EXCEPT !.waiters = IF @ > 0 THEN @ - 1 ELSE @]
    <2>1. q \in Queue BY <1>1, QueueTypes
    <2>2. AfterRead(r) = [r EXCEPT !.q = q] BY DEF AfterRead
    <2> HIDE DEF q
    <2> QED BY <2>1, <2>2, PcbWith
  <1>4. Done(r) \in PCB /\ Done(r).creator = r.creator /\ Done(r).io = r.io
    <2> DEFINE q == [waiting_handles |-> <<>>, is_locked |-> TRUE, assigned |-> TRUE,
                     waiters |-> Len(r.q.waiting_handles)]
    <2>1. q \in Queue BY <1>1, QueueTypes
    <2>2. Done(r) = [r EXCEPT !.q = q] BY DEF Done
    <2> HIDE DEF q
    <2> QED BY <2>1, <2>2, PcbWith
  <1> QED BY <1>1, <1>2, <1>3, <1>4

LEMMA TcbWith ==
  ASSUME NEW r \in TCB, NEW q \in Queue
  PROVE  /\ [r EXCEPT !.q = q] \in TCB /\ [r EXCEPT !.q = q] # None
         /\ [r EXCEPT !.q = q].pid = r.pid
         /\ [r EXCEPT !.q = q].thread = r.thread
         /\ [r EXCEPT !.q = q].waked_by = r.waked_by
         /\ [r EXCEPT !.q = q].q = q
  BY DEF TCB

LEMMA TcbSteps ==
  ASSUME NEW r \in TCB
  PROVE  /\ r # None /\ r.pid \in Pids \cup {erInvalid_Handle}
         /\ r.thread \in Native \cup {Nobody} /\ r.waked_by \in Handle
         /\ \A t \in Tids : /\ Register(r, t) \in TCB
                            /\ Register(r, t).pid = r.pid
                            /\ Register(r, t).thread = r.thread
                            /\ Register(r, t).waked_by = r.waked_by
         /\ AfterRead(r) \in TCB /\ AfterRead(r).pid = r.pid
         /\ AfterRead(r).thread = r.thread /\ AfterRead(r).waked_by = r.waked_by
         /\ Done(r) \in TCB /\ Done(r).pid = r.pid
         /\ Done(r).thread = r.thread /\ Done(r).waked_by = r.waked_by
         /\ NoWaiters(r) \in TCB /\ NoWaiters(r).pid = r.pid
         /\ NoWaiters(r).thread = r.thread /\ NoWaiters(r).waked_by = r.waked_by
         /\ \A h \in Handle : [r EXCEPT !.waked_by = h] \in TCB
         /\ \A m \in Native : [r EXCEPT !.thread = m] \in TCB
  <1>1. /\ r # None /\ r.pid \in Pids \cup {erInvalid_Handle}
        /\ r.thread \in Native \cup {Nobody} /\ r.waked_by \in Handle
        /\ r.q \in Queue
    BY DEF TCB, Handle, Handles
  <1>2. ASSUME NEW t \in Tids
        PROVE  /\ Register(r, t) \in TCB /\ Register(r, t).pid = r.pid
               /\ Register(r, t).thread = r.thread
               /\ Register(r, t).waked_by = r.waked_by
    <2>1. CASE r.q.is_locked BY <2>1 DEF Register
    <2>2. CASE ~r.q.is_locked
      <3> DEFINE q == [r.q EXCEPT !.waiting_handles = Append(@, t)]
      <3>1. q \in Queue BY <1>1, QueueTypes
      <3>2. Register(r, t) = [r EXCEPT !.q = q] BY <2>2 DEF Register
      <3> HIDE DEF q
      <3> QED BY <3>1, <3>2, TcbWith
    <2> QED BY <2>1, <2>2
  <1>3. /\ AfterRead(r) \in TCB /\ AfterRead(r).pid = r.pid
        /\ AfterRead(r).thread = r.thread /\ AfterRead(r).waked_by = r.waked_by
    <2> DEFINE q == [r.q EXCEPT !.waiters = IF @ > 0 THEN @ - 1 ELSE @]
    <2>1. q \in Queue BY <1>1, QueueTypes
    <2>2. AfterRead(r) = [r EXCEPT !.q = q] BY DEF AfterRead
    <2> HIDE DEF q
    <2> QED BY <2>1, <2>2, TcbWith
  <1>4. /\ Done(r) \in TCB /\ Done(r).pid = r.pid
        /\ Done(r).thread = r.thread /\ Done(r).waked_by = r.waked_by
    <2> DEFINE q == [waiting_handles |-> <<>>, is_locked |-> TRUE, assigned |-> TRUE,
                     waiters |-> Len(r.q.waiting_handles)]
    <2>1. q \in Queue BY <1>1, QueueTypes
    <2>2. Done(r) = [r EXCEPT !.q = q] BY DEF Done
    <2> HIDE DEF q
    <2> QED BY <2>1, <2>2, TcbWith
  <1>5. /\ NoWaiters(r) \in TCB /\ NoWaiters(r).pid = r.pid
        /\ NoWaiters(r).thread = r.thread /\ NoWaiters(r).waked_by = r.waked_by
    <2> DEFINE q == [r.q EXCEPT !.waiting_handles = <<>>]
    <2>1. q \in Queue BY <1>1, QueueTypes
    <2>2. NoWaiters(r) = [r EXCEPT !.q = q] BY DEF NoWaiters
    <2> HIDE DEF q
    <2> QED BY <2>1, <2>2, TcbWith
  <1>6. \A h \in Handle : [r EXCEPT !.waked_by = h] \in TCB BY DEF TCB, Handle, Handles
  <1>7. \A m \in Native : [r EXCEPT !.thread = m] \in TCB BY DEF TCB
  <1> QED BY <1>1, <1>2, <1>3, <1>4, <1>5, <1>6, <1>7

LEMMA NewRecords ==
  /\ \A n \in Native : [creator |-> n, io |-> FALSE, q |-> NewQueue] \in PCB
  /\ \A n \in Native : [creator |-> n, io |-> TRUE, q |-> NewQueue] \in PCB
  /\ \A p \in Pids \cup {erInvalid_Handle} : \A m \in Native \cup {Nobody} :
        NewTCB(p, m) \in TCB /\ NewTCB(p, m).pid = p /\ NewTCB(p, m).thread = m
        /\ NewTCB(p, m).q = NewQueue
  BY QueueTypes DEF PCB, TCB, NewTCB

\* A wake-up tells the woken by whom; their records are otherwise the same.
LEMMA WakeUpSteps ==
  ASSUME NEW table \in [Tids -> TCB \cup {None}], NEW ws, NEW waker \in Handle
  PROVE  /\ WakeUp(table, ws, waker) \in [Tids -> TCB \cup {None}]
         /\ \A t \in Tids :
               /\ table[t] = None => WakeUp(table, ws, waker)[t] = None
               /\ table[t] # None =>
                     /\ WakeUp(table, ws, waker)[t] # None
                     /\ WakeUp(table, ws, waker)[t].pid = table[t].pid
                     /\ WakeUp(table, ws, waker)[t].thread = table[t].thread
                     /\ WakeUp(table, ws, waker)[t].q = table[t].q
                     /\ WakeUp(table, ws, waker)[t].waked_by =
                           IF t \in ws THEN waker ELSE table[t].waked_by
  <1>1. ASSUME NEW t \in Tids
        PROVE  WakeUp(table, ws, waker)[t] =
                 IF t \in ws /\ table[t] # None
                 THEN [table[t] EXCEPT !.waked_by = waker] ELSE table[t]
    BY DEF WakeUp
  <1>2. ASSUME NEW r \in TCB
        PROVE  LET s == [r EXCEPT !.waked_by = waker]
               IN  s \in TCB /\ s # None /\ s.pid = r.pid /\ s.thread = r.thread
                   /\ s.q = r.q /\ s.waked_by = waker
    <2>1. [r EXCEPT !.waked_by = waker] \in TCB BY TcbSteps
    <2> QED BY <2>1, TcbSteps DEF TCB
  <1>3. ASSUME NEW t \in Tids
        PROVE  /\ WakeUp(table, ws, waker)[t] \in TCB \cup {None}
               /\ table[t] = None => WakeUp(table, ws, waker)[t] = None
               /\ table[t] # None =>
                     /\ WakeUp(table, ws, waker)[t] # None
                     /\ WakeUp(table, ws, waker)[t].pid = table[t].pid
                     /\ WakeUp(table, ws, waker)[t].thread = table[t].thread
                     /\ WakeUp(table, ws, waker)[t].q = table[t].q
                     /\ WakeUp(table, ws, waker)[t].waked_by =
                           IF t \in ws THEN waker ELSE table[t].waked_by
    <2>1. CASE t \in ws /\ table[t] # None
      <3>1. table[t] \in TCB BY <2>1
      <3>2. WakeUp(table, ws, waker)[t] = [table[t] EXCEPT !.waked_by = waker]
        BY <1>1, <2>1
      <3> QED BY <1>2, <2>1, <3>1, <3>2
    <2>2. CASE ~(t \in ws /\ table[t] # None)
      <3>1. WakeUp(table, ws, waker)[t] = table[t] /\ table[t] \in TCB \cup {None}
        BY <1>1, <2>2
      <3> QED BY <2>2, <3>1
    <2> QED BY <2>1, <2>2
  <1>4. WakeUp(table, ws, waker) = [t \in Tids |-> WakeUp(table, ws, waker)[t]]
    BY DEF WakeUp
  <1> QED BY <1>3, <1>4
-----------------------------------------------------------------------------
(* The openings of the standard streams.                                    *)

LEMMA StreamsCount ==
  ASSUME TypeOK
  PROVE  IsFiniteSet(Streams) /\ Cardinality(Streams) \in Nat
  <1>1. Streams \subseteq Pids BY DEF Streams
  <1> QED BY <1>1, FiniteTables, FS_Subset, FS_CardinalityType

LEMMA StreamsFewer ==
  ASSUME TypeOK, TypeOK', StreamsStayOpen, Streams' \subseteq Streams,
         openCounter' = openCounter
  PROVE  StreamsStayOpen'
  <1>1. /\ IsFiniteSet(Streams) /\ Cardinality(Streams) \in Nat
        /\ openCounter >= Cardinality(Streams)
    BY StreamsCount DEF StreamsStayOpen, Streams
  <1>2. Cardinality(Streams') <= Cardinality(Streams) BY <1>1, FS_Subset
  <1>3. Cardinality(Streams') \in Nat BY <1>1, FS_Subset, FS_CardinalityType
  <1>4. openCounter' >= Cardinality(Streams') BY <1>1, <1>2, <1>3 DEF TypeOK
  <1> QED BY <1>4 DEF StreamsStayOpen, Streams

\* A step that leaves the counter alone and opens nothing.
LEMMA CountedFewer ==
  ASSUME TypeOK, TypeOK', Counted, Streams' \subseteq Streams,
         UNCHANGED <<openCounter, seen>>
  PROVE  Counted'
  <1>1. CountsAlone' <=> CountsAlone BY DEF CountsAlone
  <1>2. SeenInv => SeenInv' BY DEF SeenInv, Loaded
  <1> QED BY <1>1, <1>2, StreamsFewer DEF Counted

\* A thread that has counted has nothing to store any more, and nobody had.
LEMMA ForgottenAll ==
  ASSUME TypeOK, Counted, NEW n \in Native, Loaded(n), Forget(n)
  PROVE  /\ seen' \in [Native -> Nat \cup {Unseen}]
         /\ CountsAlone => SeenInv' /\ seen[n] = openCounter
  <1>1. /\ seen' \in [Native -> Nat \cup {Unseen}] /\ seen'[n] = Unseen
        /\ \A m \in Native : m # n => seen'[m] = seen[m]
    BY DEF Forget, TypeOK
  <1>2. CountsAlone => \A m \in Native : ~Loaded(m)'
    BY <1>1 DEF Counted, SeenInv, Loaded
  <1> QED BY <1>1, <1>2 DEF Counted, SeenInv

LEMMA StreamsOneMore ==
  ASSUME TypeOK, TypeOK', StreamsStayOpen, NEW x, Streams' \subseteq Streams \cup {x},
         openCounter' = openCounter + 1
  PROVE  StreamsStayOpen'
  <1>1. /\ IsFiniteSet(Streams) /\ Cardinality(Streams) \in Nat
        /\ openCounter >= Cardinality(Streams)
    BY StreamsCount DEF StreamsStayOpen, Streams
  <1> DEFINE T == Streams \cup {x}
  <1>2. IsFiniteSet(T) /\ Cardinality(T) \in Nat
        /\ Cardinality(T) <= Cardinality(Streams) + 1
    <2>1. IsFiniteSet(T) /\ Cardinality(T) = IF x \in Streams THEN Cardinality(Streams)
                                             ELSE Cardinality(Streams) + 1
      BY <1>1, FS_AddElement
    <2> QED BY <1>1, <2>1
  <1>3. Cardinality(Streams') <= Cardinality(T) /\ Cardinality(Streams') \in Nat
    <2> HIDE DEF T
    <2>1. Streams' \subseteq T BY DEF T
    <2> QED BY <1>2, <2>1, FS_Subset, FS_CardinalityType
  <1>4. openCounter' >= Cardinality(Streams') BY <1>1, <1>2, <1>3 DEF TypeOK
  <1> QED BY <1>4 DEF StreamsStayOpen, Streams

LEMMA StreamsOneLess ==
  ASSUME TypeOK, StreamsStayOpen, NEW x \in Streams
  PROVE  /\ openCounter - 1 \in Nat
         /\ Streams' = Streams \ {x} /\ openCounter' = openCounter - 1 => StreamsStayOpen'
  <1>1. /\ IsFiniteSet(Streams) /\ Cardinality(Streams) \in Nat
        /\ openCounter >= Cardinality(Streams) /\ openCounter \in Nat
    BY StreamsCount DEF StreamsStayOpen, Streams, TypeOK
  <1>2. Cardinality(Streams \ {x}) = Cardinality(Streams) - 1
        /\ Cardinality(Streams \ {x}) \in Nat
    BY <1>1, FS_RemoveElement, FS_CardinalityType
  <1>3. openCounter - 1 \in Nat /\ openCounter - 1 >= Cardinality(Streams \ {x})
    BY <1>1, <1>2
  <1>4. Streams' = Streams \ {x} /\ openCounter' = openCounter - 1
          => openCounter' >= Cardinality(Streams')
    BY <1>3
  <1> QED BY <1>3, <1>4 DEF StreamsStayOpen, Streams

\* What a thread that counts alone stores: one opening more, or one less.
LEMMA OpenedOnce ==
  ASSUME TypeOK, Counted, CountsAlone, Booted, NEW n \in Native, Loaded(n)
  PROVE  Opened(n) = openCounter + 1
  <1>1. seen[n] = openCounter /\ StreamsStayOpen BY DEF Counted, SeenInv
  <1>2. 0 \in Streams BY HandleSets DEF Booted, Streams
  <1>3. openCounter - 1 \in Nat /\ openCounter \in Nat
    BY <1>1, <1>2, StreamsOneLess DEF TypeOK
  <1> QED BY <1>1, <1>3 DEF Opened

LEMMA ClosedOnce ==
  ASSUME TypeOK, Counted, CountsAlone, NEW n \in Native, Loaded(n), NEW h \in Pids,
         process_table[h] # None
  PROVE  Closed(n, h) = IF process_table[h].io THEN openCounter - 1 ELSE openCounter
  <1>1. seen[n] = openCounter /\ StreamsStayOpen BY DEF Counted, SeenInv
  <1>2. CASE process_table[h].io
    <2>1. h \in Streams BY <1>2 DEF Streams
    <2>2. openCounter - 1 \in Nat /\ openCounter \in Nat
      BY <1>1, <2>1, StreamsOneLess DEF TypeOK
    <2> QED BY <1>1, <1>2, <2>2 DEF Closed
  <1>3. CASE ~process_table[h].io BY <1>3 DEF Closed
  <1> QED BY <1>2, <1>3
-----------------------------------------------------------------------------
(* The invariant for programs of any kind, step by step.                    *)

LEMMA AnyInit ==
  ASSUME Init
  PROVE  AnyInv
  <1>1. /\ process_table \in [Pids -> PCB \cup {None}]
        /\ process_table[0] = [creator |-> Init0, io |-> TRUE, q |-> NewQueue]
        /\ \A p \in Pids : p # 0 => process_table[p] = None
    BY NewRecords, HandleSets DEF Init
  <1>2. [pid |-> 0, thread |-> Init0, waked_by |-> erInvalid_Handle, q |-> NewQueue] \in TCB
    BY QueueTypes, HandleSets DEF TCB
  <1>3. /\ thread_table \in [Tids -> TCB \cup {None}]
        /\ thread_table[BASE_TID_INDEX].pid = 0 /\ thread_table[BASE_TID_INDEX] # None
        /\ \A t \in Tids : t # BASE_TID_INDEX => thread_table[t] = None
    BY <1>2, HandleSets DEF Init
  <1>4. next_pid \in Pids /\ next_tid \in Tids
    <2> DEFINE k == 1 % MAX_THREAD_COUNT
    <2>1. k \in 0..(MAX_THREAD_COUNT - 1) /\ 1 % MAX_PROCESS_COUNT \in Pids
      BY DEF Pids
    <2>2. next_pid = 1 % MAX_PROCESS_COUNT /\ next_tid = BASE_TID_INDEX + k
      BY DEF Init
    <2> HIDE DEF k
    <2> QED BY <2>1, <2>2 DEF Tids, BASE_TID_INDEX
  <1>5. TypeOK
    <2>1. thread_to_tid \in [Native -> Tids \cup {erInvalid_Handle}]
      <3>1. /\ thread_to_tid = [n \in Native |->
                  IF n = Init0 THEN BASE_TID_INDEX ELSE erInvalid_Handle]
            /\ BASE_TID_INDEX \in Tids
        BY HandleSets DEF Init
      <3> QED BY <3>1
    <2>2. pc \in [Native -> Labels]
      <3>1. pc = [n \in Native |-> IF n = Init0 THEN "user" ELSE "unborn"] BY DEF Init
      <3>2. "user" \in Labels /\ "unborn" \in Labels BY DEF Labels
      <3> QED BY <3>1, <3>2
    <2>3. /\ arg \in [Native -> Pids \cup Tids \cup {erInvalid_Handle}]
          /\ want \in [Native -> SUBSET (Pids \cup Tids)]
          /\ children \in [Native -> SUBSET (Pids \cup Tids)]
      BY DEF Init
    <2>4. /\ procfs \subseteq Pids /\ openCounter \in Nat /\ mains \subseteq Native
          /\ seen \in [Native -> Nat \cup {Unseen}] /\ lost \in Nat
          /\ clones \in 0..MaxClones /\ crashed \in BOOLEAN /\ halted \in BOOLEAN
      <3>1. procfs = {} /\ openCounter = 1 /\ mains = {Init0} /\ clones = 0
            /\ crashed = FALSE /\ halted = FALSE /\ seen = [n \in Native |-> Unseen]
            /\ lost = 0
        BY DEF Init
      <3>2. /\ 0 \in 0..MaxClones /\ {0, 1} \subseteq Nat
            /\ {Init0} \subseteq Native /\ {} \subseteq Pids
        OBVIOUS
      <3> QED BY <3>1, <3>2
    <2> QED BY <1>1, <1>3, <1>4, <2>1, <2>2, <2>3, <2>4 DEF TypeOK
  <1>6. ASSUME NEW n \in Native PROVE ArgInv(n)
    <2>1. /\ pc[n] = IF n = Init0 THEN "user" ELSE "unborn"
          /\ thread_to_tid[n] = IF n = Init0 THEN BASE_TID_INDEX ELSE erInvalid_Handle
          /\ children[n] = {}
      BY DEF Init
    <2>2. erInvalid_Handle # BASE_TID_INDEX /\ BASE_TID_INDEX \in Tids
      BY HandleSets DEF Handles
    <2> QED BY <2>1, <2>2 DEF ArgInv, Creating
  <1>7. OthersAreNotInit BY <1>3 DEF OthersAreNotInit
  <1>8. Booted
    <2>1. process_table[0] # None /\ process_table[0].io /\ ~process_table[0].q.assigned
      BY <1>1, NewRecords DEF NewQueue
    <2> QED BY <1>3, <2>1, HandleSets DEF Init, Booted
  <1>9. Counted
    <2>1. Streams = {0}
      <3>1. process_table[0] # None /\ process_table[0].io BY <1>1, NewRecords
      <3> QED BY <1>1, <3>1, HandleSets DEF Streams
    <2>2. Cardinality(Streams) = 1 BY <2>1, FS_Singleton
    <2>3. StreamsStayOpen BY <2>2 DEF Init, StreamsStayOpen, Streams
    <2>4. SeenInv BY DEF Init, SeenInv, Loaded
    <2> QED BY <2>3, <2>4 DEF Counted
  <1> QED BY <1>5, <1>6, <1>7, <1>8, <1>9 DEF AnyInv

LEMMA AnyCrash ==
  ASSUME AnyInv, Crash
  PROVE  AnyInv'
  BY DEF Crash, AnyInv, TypeOK, ArgInv, OthersAreNotInit, Booted, Counted, CountsAlone,
         SeenInv, Loaded, StreamsStayOpen, tables, alloc, user

\* A step that changes no record, only where a thread is.
LEMMA AnyLocal ==
  ASSUME AnyInv, TypeOK', \A m \in Native : ArgInv(m)',
         UNCHANGED <<tables, thread_to_tid, openCounter, seen, lost, halted>>,
         pc'[Init0] \notin {"unborn", "start"}
  PROVE  AnyInv'
  BY DEF AnyInv, OthersAreNotInit, Booted, Counted, CountsAlone, SeenInv, Loaded,
         StreamsStayOpen, tables

\* A step that only reads the counter.
LEMMA LoadCounterAny ==
  ASSUME AnyInv, NEW n \in Native, LoadCounter(n)
  PROVE  AnyInv'
  <1>1. TypeOK /\ ~Loaded(n) BY DEF LoadCounter, AnyInv
  <1>2. /\ seen' = [seen EXCEPT ![n] = openCounter]
        /\ UNCHANGED <<tables, thread_to_tid, openCounter, lost, halted, next_pid, next_tid,
                       procfs, clones, pc, arg, want, children, mains, crashed>>
    BY DEF LoadCounter, Alive, alloc, user
  <1>3. seen' \in [Native -> Nat \cup {Unseen}] BY <1>1, <1>2 DEF TypeOK
  <1>4. TypeOK' BY <1>1, <1>2, <1>3 DEF TypeOK, tables
  <1>5. CountsAlone => SeenInv'
    <2>1. CountsAlone => \A m \in Native : ~Loaded(m) BY DEF LoadCounter, CountsAlone
    <2>2. /\ seen'[n] = openCounter'
          /\ \A m \in Native : m # n => seen'[m] = seen[m]
      BY <1>1, <1>2 DEF TypeOK
    <2> QED BY <2>1, <2>2 DEF SeenInv, Loaded
  <1>6. Counted'
    <2>1. StreamsStayOpen => StreamsStayOpen' BY <1>2 DEF StreamsStayOpen, tables
    <2> QED BY <1>5, <2>1 DEF AnyInv, Counted, CountsAlone
  <1>7. \A m \in Native : ArgInv(m)' BY <1>2 DEF AnyInv, ArgInv
  <1> QED BY <1>2, <1>4, <1>6, <1>7 DEF AnyInv, OthersAreNotInit, Booted, tables

LEMMA PcTypes ==
  ASSUME TypeOK, NEW n \in Native, NEW l \in Labels, Goto(n, l)
  PROVE  /\ pc' \in [Native -> Labels] /\ pc'[n] = l
         /\ \A m \in Native : m # n => pc'[m] = pc[m]
  BY DEF TypeOK, Goto

LEMMA ArgTypes ==
  ASSUME TypeOK, NEW n \in Native, NEW h \in Handle, SetArg(n, h)
  PROVE  /\ arg' \in [Native -> Handle] /\ arg'[n] = h
         /\ \A m \in Native : m # n => arg'[m] = arg[m]
  BY DEF TypeOK, SetArg, Handle, Handles

LEMMA ClonePickPidAny ==
  ASSUME AnyInv, NEW n \in Native, ClonePickPid(n)
  PROVE  AnyInv'
  <1>1. TypeOK /\ pc[n] = "user" /\ clones < MaxClones BY DEF ClonePickPid, MayClone, AnyInv
  <1>2. getNextFreePid \in Pids \cup {erInvalid_Handle} BY <1>1, FreePid
  <1>3. getNextFreePid # 0 \/ halted
    BY <1>1, FreePid, HandleSets DEF AnyInv, Booted, Handles
  <1>4. ~halted BY DEF ClonePickPid, Alive, Running
  <1>5. "advancePid" \in Labels BY DEF Labels, Cloning
  <1>6. /\ pc' \in [Native -> Labels] /\ pc'[n] = "advancePid"
        /\ \A m \in Native : m # n => pc'[m] = pc[m]
    BY <1>1, <1>5, PcTypes DEF ClonePickPid
  <1>7. /\ arg' \in [Native -> Handle] /\ arg'[n] = getNextFreePid
        /\ \A m \in Native : m # n => arg'[m] = arg[m]
    BY <1>1, <1>2, ArgTypes DEF ClonePickPid, Handle, Handles
  <1>8. /\ UNCHANGED <<tables, thread_to_tid, openCounter, seen, lost, halted, next_pid, next_tid,
                       procfs, want, children, mains, crashed>>
        /\ clones' = clones + 1
    BY DEF ClonePickPid, Alive, user
  <1>9. TypeOK'
    BY <1>1, <1>6, <1>7, <1>8 DEF TypeOK, tables, Handle, Handles
  <1>10. \A m \in Native : ArgInv(m)'
    BY <1>1, <1>2, <1>3, <1>4, <1>6, <1>7, <1>8 DEF AnyInv, ArgInv, Creating
  <1>11. pc'[Init0] \notin {"unborn", "start"} BY <1>4, <1>6 DEF AnyInv, Booted
  <1> QED BY <1>8, <1>9, <1>10, <1>11, AnyLocal

LEMMA AdvancePidAny ==
  ASSUME AnyInv, NEW n \in Native, AdvancePid(n)
  PROVE  AnyInv'
  <1>1. TypeOK /\ pc[n] = "advancePid" /\ ArgInv(n) BY DEF AdvancePid, AnyInv
  <1>2. next_pid' \in Pids BY <1>1, NextTypes DEF AdvancePid, ArgInv
  <1>3. ~halted BY DEF AdvancePid, Alive, Running
  <1>4. "createFreePCB" \in Labels BY DEF Labels, Cloning
  <1>5. /\ pc' \in [Native -> Labels] /\ pc'[n] = "createFreePCB"
        /\ \A m \in Native : m # n => pc'[m] = pc[m]
    BY <1>1, <1>4, PcTypes DEF AdvancePid
  <1>6. UNCHANGED <<tables, thread_to_tid, openCounter, seen, lost, halted, next_tid, procfs,
                    clones, want, children, mains, crashed, arg>>
    BY DEF AdvancePid, Alive, user
  <1>7. TypeOK' BY <1>1, <1>2, <1>5, <1>6 DEF TypeOK, tables
  <1>8. \A m \in Native : ArgInv(m)'
    BY <1>1, <1>5, <1>6 DEF AnyInv, ArgInv, Creating
  <1>9. pc'[Init0] \notin {"unborn", "start"} BY <1>3, <1>5 DEF AnyInv, Booted
  <1> QED BY <1>6, <1>7, <1>8, <1>9, AnyLocal

LEMMA CreateFreePCBAny ==
  ASSUME AnyInv, NEW n \in Native, CreateFreePCB(n)
  PROVE  AnyInv'
  <1>1. TypeOK /\ pc[n] = "createFreePCB" /\ ArgInv(n) BY DEF CreateFreePCB, AnyInv
  <1>2. CASE Crash BY <1>2, AnyCrash
  <1>3. CASE ~Crash
    <2> DEFINE r == [creator |-> n, io |-> FALSE, q |-> NewQueue]
    <2>1. /\ arg[n] \in Pids /\ arg[n] # 0 /\ Goto(n, "initialisePCB")
          /\ process_table' = [process_table EXCEPT ![arg[n]] = r]
          /\ UNCHANGED <<thread_table, thread_to_tid, next_pid, next_tid, clones, procfs,
                         openCounter, seen, lost, arg, want, children, mains, crashed, halted>>
          /\ ~halted
      BY <1>1, <1>3 DEF CreateFreePCB, Alive, Running, alloc, user, ArgInv
    <2>2. r \in PCB /\ ~r.io BY NewRecords
    <2> HIDE DEF r
    <2>3. "initialisePCB" \in Labels BY DEF Labels, Cloning
    <2>4. /\ pc' \in [Native -> Labels] /\ pc'[n] = "initialisePCB"
          /\ \A m \in Native : m # n => pc'[m] = pc[m]
      BY <1>1, <2>1, <2>3, PcTypes
    <2>5. TypeOK' BY <1>1, <2>1, <2>2, <2>4 DEF TypeOK
    <2>6. \A m \in Native : ArgInv(m)'
      BY <1>1, <2>1, <2>4 DEF AnyInv, ArgInv, Creating
    <2>7. OthersAreNotInit' BY <2>1 DEF AnyInv, OthersAreNotInit
    <2>8. Booted' BY <1>1, <2>1, <2>4, HandleSets DEF AnyInv, Booted, TypeOK
    <2>9. Streams' \subseteq Streams BY <1>1, <2>1, <2>2 DEF Streams, TypeOK
    <2>10. Counted' BY <1>1, <2>1, <2>5, <2>9, CountedFewer DEF AnyInv
    <2> QED BY <2>5, <2>6, <2>7, <2>8, <2>10 DEF AnyInv
  <1> QED BY <1>2, <1>3

LEMMA IoTrue ==
  ASSUME NEW r \in PCB
  PROVE  /\ [r EXCEPT !.io = TRUE] \in PCB /\ [r EXCEPT !.io = TRUE].io
         /\ [r EXCEPT !.io = TRUE].q = r.q
         /\ [r EXCEPT !.io = TRUE].creator = r.creator
  BY DEF PCB

LEMMA InheritStreamsAny ==
  ASSUME AnyInv, NEW n \in Native, InheritStreams(n)
  PROVE  AnyInv'
  BY AnyCrash, LoadCounterAny DEF InheritStreams

LEMMA InitialisePCBAny ==
  ASSUME AnyInv, NEW n \in Native, InitialisePCB(n)
  PROVE  AnyInv'
  <1>1. /\ TypeOK /\ pc[n] = "initialisePCB" /\ ArgInv(n) /\ arg[n] \in Pids /\ arg[n] # 0
        /\ Loaded(n)
    BY DEF InitialisePCB, AnyInv, ArgInv, Creating
  <1>2. /\ openCounter' = Opened(n) /\ Forget(n) /\ Goto(n, "loadProgram")
        /\ process_table' = IF OwnsSlot(n)
              THEN [process_table EXCEPT ![arg[n]].io = TRUE] ELSE process_table
        /\ UNCHANGED <<thread_table, thread_to_tid, next_pid, next_tid, clones, procfs,
                       lost, arg, want, children, mains, crashed, halted>>
        /\ ~halted
    BY DEF InitialisePCB, Alive, Running, alloc, user
  <1>3. OwnsSlot(n) => process_table[arg[n]] \in PCB BY <1>1 DEF OwnsSlot, TypeOK
  <1>4. /\ process_table' \in [Pids -> PCB \cup {None}]
        /\ \A p \in Pids : p # arg[n] => process_table'[p] = process_table[p]
    BY <1>1, <1>2, <1>3, IoTrue DEF TypeOK
  <1>5. "loadProgram" \in Labels BY DEF Labels, Cloning
  <1>6. /\ pc' \in [Native -> Labels] /\ pc'[n] = "loadProgram"
        /\ \A m \in Native : m # n => pc'[m] = pc[m]
    BY <1>1, <1>2, <1>5, PcTypes
  <1>7. /\ seen' \in [Native -> Nat \cup {Unseen}]
        /\ CountsAlone => SeenInv' /\ seen[n] = openCounter
    BY <1>1, <1>2, ForgottenAll DEF AnyInv
  <1>8. openCounter' \in Nat BY <1>1, <1>2 DEF Opened, TypeOK, Unseen
  <1>9. TypeOK' BY <1>1, <1>2, <1>4, <1>6, <1>7, <1>8 DEF TypeOK
  <1>10. \A m \in Native : ArgInv(m)'
    BY <1>1, <1>2, <1>6 DEF AnyInv, ArgInv, Creating
  <1>11. OthersAreNotInit' BY <1>2 DEF AnyInv, OthersAreNotInit
  <1>12. Booted' BY <1>1, <1>2, <1>4, <1>6, HandleSets DEF AnyInv, Booted
  <1>13. CountsAlone => StreamsStayOpen'
    <2> SUFFICES ASSUME CountsAlone PROVE StreamsStayOpen' OBVIOUS
    <2>1. StreamsStayOpen BY DEF AnyInv, Counted
    <2>2. openCounter' = openCounter + 1 BY <1>1, <1>2, OpenedOnce DEF AnyInv
    <2>3. Streams' \subseteq Streams \cup {arg[n]} BY <1>4 DEF Streams
    <2> QED BY <1>1, <1>9, <2>1, <2>2, <2>3, StreamsOneMore
  <1>14. Counted' BY <1>7, <1>13 DEF Counted, CountsAlone
  <1> QED BY <1>9, <1>10, <1>11, <1>12, <1>14 DEF AnyInv

LEMMA ProgramFoundAny ==
  ASSUME AnyInv, NEW n \in Native, ProgramFound(n)
  PROVE  AnyInv'
  <1>1. TypeOK /\ pc[n] = "loadProgram" /\ ArgInv(n) /\ arg[n] \in Pids /\ arg[n] # 0
    BY DEF ProgramFound, AnyInv, ArgInv, Creating
  <1>2. ~halted BY DEF ProgramFound, Alive, Running
  <1>3. "createProcessThread" \in Labels BY DEF Labels, Cloning
  <1>4. /\ pc' \in [Native -> Labels] /\ pc'[n] = "createProcessThread"
        /\ \A m \in Native : m # n => pc'[m] = pc[m]
    BY <1>1, <1>3, PcTypes DEF ProgramFound
  <1>5. /\ UNCHANGED <<tables, thread_to_tid, openCounter, seen, lost, halted, next_pid, next_tid,
                       clones, want, children, mains, crashed, arg>>
        /\ procfs' = procfs \cup {arg[n]}
    BY DEF ProgramFound, Alive, user, alloc
  <1>6. TypeOK' BY <1>1, <1>4, <1>5 DEF TypeOK, tables
  <1>7. \A m \in Native : ArgInv(m)'
    BY <1>1, <1>4, <1>5 DEF AnyInv, ArgInv, Creating
  <1>8. pc'[Init0] \notin {"unborn", "start"} BY <1>2, <1>4 DEF AnyInv, Booted
  <1> QED BY <1>5, <1>6, <1>7, <1>8, AnyLocal

LEMMA ProgramNotFoundAny ==
  ASSUME AnyInv, NEW n \in Native, ProgramNotFound(n)
  PROVE  AnyInv'
  <1>1. TypeOK /\ pc[n] = "loadProgram" /\ ArgInv(n) /\ arg[n] \in Pids /\ arg[n] # 0
    BY DEF ProgramNotFound, AnyInv, ArgInv, Creating
  <1>2. /\ process_table' = [process_table EXCEPT ![arg[n]] = None]
        /\ lost' = lost + 1
        /\ UNCHANGED <<thread_table, thread_to_tid, next_pid, next_tid, clones, procfs,
                       openCounter, seen, want, children, mains, crashed, halted>>
        /\ ~halted
    BY DEF ProgramNotFound, Alive, Running, alloc, user
  <1>3. "user" \in Labels /\ erInvalid_Handle \in Handle BY DEF Labels, Handle
  <1>4. /\ pc' \in [Native -> Labels] /\ pc'[n] = "user"
        /\ \A m \in Native : m # n => pc'[m] = pc[m]
    BY <1>1, <1>3, PcTypes DEF ProgramNotFound
  <1>5. /\ arg' \in [Native -> Handle] /\ arg'[n] = erInvalid_Handle
        /\ \A m \in Native : m # n => arg'[m] = arg[m]
    BY <1>1, <1>3, ArgTypes DEF ProgramNotFound
  <1>6. TypeOK' BY <1>1, <1>2, <1>4, <1>5 DEF TypeOK, Handle, Handles
  <1>7. \A m \in Native : ArgInv(m)'
    BY <1>1, <1>2, <1>4, <1>5 DEF AnyInv, ArgInv, Creating
  <1>8. OthersAreNotInit' BY <1>2 DEF AnyInv, OthersAreNotInit
  <1>9. Booted' BY <1>1, <1>2, <1>4, HandleSets DEF AnyInv, Booted, TypeOK
  <1>10. Streams' \subseteq Streams BY <1>1, <1>2 DEF Streams, TypeOK
  <1>11. Counted' BY <1>1, <1>2, <1>6, <1>10, CountedFewer DEF AnyInv
  <1> QED BY <1>6, <1>7, <1>8, <1>9, <1>11 DEF AnyInv

\* A step that changes thread records, none of the processes'.
LEMMA AnyThreads ==
  ASSUME AnyInv, TypeOK', \A m \in Native : ArgInv(m)', OthersAreNotInit',
         UNCHANGED <<process_table, openCounter, seen, lost, halted>>, ~halted,
         thread_table'[BASE_TID_INDEX] # None, thread_table'[BASE_TID_INDEX].pid = 0,
         pc'[Init0] \notin {"unborn", "start"}, thread_to_tid'[Init0] = BASE_TID_INDEX
  PROVE  AnyInv'
  BY DEF AnyInv, Booted, Counted, CountsAlone, SeenInv, Loaded, StreamsStayOpen

LEMMA CreateProcessThreadAny ==
  ASSUME AnyInv, NEW n \in Native, CreateProcessThread(n)
  PROVE  AnyInv'
  <1>1. TypeOK /\ pc[n] = "createProcessThread" /\ ArgInv(n) /\ arg[n] \in Pids /\ arg[n] # 0
    BY DEF CreateProcessThread, AnyInv, ArgInv, Creating
  <1>2. CASE Crash BY <1>2, AnyCrash
  <1>3. CASE ~Crash
    <2> DEFINE tid == getNextFreeTid
    <2>1. PICK m \in Native :
            /\ pc[m] = "unborn"
            /\ thread_table' = [thread_table EXCEPT ![tid] = NewTCB(arg[n], m)]
            /\ pc' = [pc EXCEPT ![n] = "user", ![m] = "start"]
            /\ arg' = [arg EXCEPT ![n] = erInvalid_Handle, ![m] = tid]
            /\ mains' = mains \cup {m}
      BY <1>3 DEF CreateProcessThread
    <2>2. /\ tid \in Tids /\ next_tid' = NextTid(tid)
          /\ children' = [children EXCEPT ![n] = @ \cup {arg[n]}]
          /\ UNCHANGED <<process_table, thread_to_tid, next_pid, clones, procfs,
                         openCounter, seen, lost, want, crashed, halted>>
          /\ ~halted
      BY <1>3 DEF CreateProcessThread, Alive, Running
    <2>3. thread_table[tid] = None BY <1>1, <2>2, FreeTid, HandleSets DEF Handles
    <2>4. tid # BASE_TID_INDEX BY <2>2, <2>3 DEF AnyInv, Booted
    <2> HIDE DEF tid
    <2>5. NewTCB(arg[n], m) \in TCB /\ NewTCB(arg[n], m).pid = arg[n] BY <1>1, NewRecords
    <2>6. m # n /\ m # Init0 BY <1>1, <2>1, <2>2 DEF AnyInv, Booted
    <2>7. /\ thread_table' \in [Tids -> TCB \cup {None}]
          /\ thread_table'[tid].pid # 0
          /\ \A t \in Tids : t # tid => thread_table'[t] = thread_table[t]
      BY <1>1, <2>1, <2>2, <2>5 DEF TypeOK
    <2>8. /\ pc' \in [Native -> Labels] /\ pc'[n] = "user" /\ pc'[m] = "start"
          /\ \A k \in Native : k # n /\ k # m => pc'[k] = pc[k]
      BY <1>1, <2>1, <2>6 DEF TypeOK, Labels
    <2>9. /\ arg' \in [Native -> Pids \cup Tids \cup {erInvalid_Handle}]
          /\ arg'[m] = tid /\ \A k \in Native : k # n /\ k # m => arg'[k] = arg[k]
      BY <1>1, <2>1, <2>2, <2>6 DEF TypeOK
    <2>10. /\ children' \in [Native -> SUBSET (Pids \cup Tids)]
           /\ \A k \in Native : children'[k] \subseteq children[k] \cup {arg[n]}
      BY <1>1, <2>2 DEF TypeOK
    <2>11. next_tid' \in Tids BY <2>2, NextTypes
    <2>12. TypeOK'
      BY <1>1, <2>1, <2>2, <2>7, <2>8, <2>9, <2>10, <2>11 DEF TypeOK
    <2>13. \A k \in Native : ArgInv(k)'
      BY <1>1, <2>2, <2>4, <2>6, <2>8, <2>9, <2>10 DEF AnyInv, ArgInv, Creating
    <2>14. OthersAreNotInit' BY <2>7 DEF AnyInv, OthersAreNotInit
    <2>15. /\ thread_table'[BASE_TID_INDEX] # None /\ thread_table'[BASE_TID_INDEX].pid = 0
           /\ pc'[Init0] \notin {"unborn", "start"}
           /\ thread_to_tid'[Init0] = BASE_TID_INDEX
      BY <2>2, <2>4, <2>6, <2>7, <2>8, HandleSets DEF AnyInv, Booted
    <2> QED BY <2>2, <2>12, <2>13, <2>14, <2>15, AnyThreads
  <1> QED BY <1>2, <1>3

LEMMA PidOfOthers ==
  ASSUME AnyInv, NEW n \in Native
  PROVE  /\ getPid(n) \in Pids \cup {erInvalid_Handle}
         /\ n # Init0 => getPid(n) # 0
         /\ ~halted => getPid(Init0) = 0
  <1>1. TypeOK /\ ArgInv(n) BY DEF AnyInv
  <1>2. getPid(n) \in Pids \cup {erInvalid_Handle} /\ (n # Init0 => getPid(n) # 0)
    <2>1. CASE thread_to_tid[n] = erInvalid_Handle \/ thread_table[thread_to_tid[n]] = None
      BY <2>1, HandleSets DEF getPid, getTid, Handles
    <2>2. CASE ~(thread_to_tid[n] = erInvalid_Handle \/ thread_table[thread_to_tid[n]] = None)
      <3>1. thread_to_tid[n] \in Tids /\ thread_table[thread_to_tid[n]] \in TCB
        BY <1>1, <2>2 DEF TypeOK
      <3>2. getPid(n) = thread_table[thread_to_tid[n]].pid BY <2>2 DEF getPid, getTid
      <3> QED BY <1>1, <3>1, <3>2, TcbSteps DEF AnyInv, OthersAreNotInit, ArgInv
    <2> QED BY <2>1, <2>2
  <1>3. ~halted => getPid(Init0) = 0
    BY HandleSets DEF AnyInv, Booted, getPid, getTid, Handles
  <1> QED BY <1>2, <1>3

LEMMA CreateThreadAny ==
  ASSUME AnyInv, NEW n \in Native, CreateThread(n)
  PROVE  AnyInv'
  <1>1. TypeOK /\ pc[n] = "user" /\ n # Init0 /\ clones < MaxClones
    BY DEF CreateThread, MayClone, AnyInv
  <1>2. CASE Crash BY <1>2, AnyCrash
  <1>3. CASE ~Crash
    <2> DEFINE tid == getNextFreeTid
    <2>1. /\ tid \in Tids /\ next_tid' = NextTid(tid) /\ SetArg(n, tid)
          /\ Goto(n, "startThread") /\ clones' = clones + 1
          /\ thread_table' = [thread_table EXCEPT ![tid] = NewTCB(getPid(n), Nobody)]
          /\ UNCHANGED <<process_table, thread_to_tid, next_pid, procfs,
                         openCounter, seen, lost, want, children, mains, crashed, halted>>
          /\ ~halted
      BY <1>3 DEF CreateThread, Alive, Running, user
    <2>2. thread_table[tid] = None BY <1>1, <2>1, FreeTid, HandleSets DEF Handles
    <2>3. tid # BASE_TID_INDEX BY <2>1, <2>2 DEF AnyInv, Booted
    <2> HIDE DEF tid
    <2>4. NewTCB(getPid(n), Nobody) \in TCB /\ NewTCB(getPid(n), Nobody).pid # 0
      BY <1>1, PidOfOthers, NewRecords
    <2>5. /\ thread_table' \in [Tids -> TCB \cup {None}]
          /\ thread_table'[tid].pid # 0
          /\ \A t \in Tids : t # tid => thread_table'[t] = thread_table[t]
      BY <1>1, <2>1, <2>4 DEF TypeOK
    <2>6. "startThread" \in Labels /\ tid \in Handle
      BY <2>1 DEF Labels, Cloning, Handle, Handles
    <2>7. /\ pc' \in [Native -> Labels] /\ pc'[n] = "startThread"
          /\ \A m \in Native : m # n => pc'[m] = pc[m]
      BY <1>1, <2>1, <2>6, PcTypes
    <2>8. /\ arg' \in [Native -> Handle] /\ arg'[n] = tid
          /\ \A m \in Native : m # n => arg'[m] = arg[m]
      BY <1>1, <2>1, <2>6, ArgTypes
    <2>9. next_tid' \in Tids BY <2>1, NextTypes
    <2>10. TypeOK'
      BY <1>1, <2>1, <2>5, <2>7, <2>8, <2>9 DEF TypeOK, Handle, Handles
    <2>11. \A m \in Native : ArgInv(m)'
      BY <1>1, <2>1, <2>3, <2>7, <2>8 DEF AnyInv, ArgInv, Creating
    <2>12. OthersAreNotInit' BY <2>5 DEF AnyInv, OthersAreNotInit
    <2>13. /\ thread_table'[BASE_TID_INDEX] # None /\ thread_table'[BASE_TID_INDEX].pid = 0
           /\ pc'[Init0] \notin {"unborn", "start"}
           /\ thread_to_tid'[Init0] = BASE_TID_INDEX
      BY <1>1, <2>1, <2>3, <2>5, <2>7, HandleSets DEF AnyInv, Booted
    <2> QED BY <2>1, <2>10, <2>11, <2>12, <2>13, AnyThreads
  <1> QED BY <1>2, <1>3

LEMMA StartThreadAny ==
  ASSUME AnyInv, NEW n \in Native, StartThread(n)
  PROVE  AnyInv'
  <1>1. /\ TypeOK /\ pc[n] = "startThread" /\ ArgInv(n) /\ arg[n] \in Tids
        /\ arg[n] # BASE_TID_INDEX
    BY DEF StartThread, AnyInv, ArgInv
  <1>2. PICK m \in Native :
          /\ pc[m] = "unborn"
          /\ thread_table' = IF thread_table[arg[n]] = None THEN thread_table
                             ELSE [thread_table EXCEPT ![arg[n]].thread = m]
          /\ pc' = [pc EXCEPT ![n] = "user", ![m] = "start"]
          /\ arg' = [arg EXCEPT ![n] = erInvalid_Handle, ![m] = arg[n]]
          /\ mains' = mains \ {m}
    BY DEF StartThread
  <1>3. /\ children' = [children EXCEPT ![n] = @ \cup {arg[n]}]
        /\ UNCHANGED <<process_table, thread_to_tid, next_pid, next_tid, clones, procfs,
                       openCounter, seen, lost, want, crashed, halted>>
        /\ ~halted
    BY DEF StartThread, Alive, Running, alloc
  <1>4. m # n /\ m # Init0 BY <1>1, <1>2, <1>3 DEF AnyInv, Booted
  <1>5. ASSUME NEW t \in Tids
        PROVE  /\ thread_table'[t] \in TCB \cup {None}
               /\ thread_table[t] = None => thread_table'[t] = None
               /\ thread_table[t] # None => /\ thread_table'[t] # None
                                            /\ thread_table'[t].pid = thread_table[t].pid
    <2>1. CASE t # arg[n] \/ thread_table[t] = None BY <1>1, <1>2, <2>1 DEF TypeOK
    <2>2. CASE t = arg[n] /\ thread_table[t] # None
      <3>1. thread_table[t] \in TCB /\ thread_table'[t] = [thread_table[t] EXCEPT !.thread = m]
        BY <1>1, <1>2, <2>2 DEF TypeOK
      <3>2. [thread_table[t] EXCEPT !.thread = m] \in TCB
            /\ [thread_table[t] EXCEPT !.thread = m].pid = thread_table[t].pid
        BY <3>1, TcbSteps DEF TCB
      <3> QED BY <2>2, <3>1, <3>2, TcbSteps
    <2> QED BY <2>1, <2>2
  <1>6. thread_table' \in [Tids -> TCB \cup {None}]
    <2>1. thread_table' = [t \in Tids |-> thread_table'[t]] BY <1>1, <1>2 DEF TypeOK
    <2> QED BY <1>5, <2>1
  <1>7. /\ pc' \in [Native -> Labels] /\ pc'[n] = "user" /\ pc'[m] = "start"
        /\ \A k \in Native : k # n /\ k # m => pc'[k] = pc[k]
    BY <1>1, <1>2, <1>4 DEF TypeOK, Labels
  <1>8. /\ arg' \in [Native -> Pids \cup Tids \cup {erInvalid_Handle}]
        /\ arg'[m] = arg[n] /\ \A k \in Native : k # n /\ k # m => arg'[k] = arg[k]
    BY <1>1, <1>2, <1>4 DEF TypeOK
  <1>9. /\ children' \in [Native -> SUBSET (Pids \cup Tids)]
        /\ \A k \in Native : children'[k] \subseteq children[k] \cup {arg[n]}
    BY <1>1, <1>3 DEF TypeOK
  <1>10. TypeOK' BY <1>1, <1>2, <1>3, <1>6, <1>7, <1>8, <1>9 DEF TypeOK
  <1>11. arg[n] # 0 BY <1>1, HandleSets
  <1>12. \A k \in Native : ArgInv(k)'
    BY <1>1, <1>3, <1>4, <1>7, <1>8, <1>9, <1>11 DEF AnyInv, ArgInv, Creating
  <1>13. OthersAreNotInit' BY <1>5 DEF AnyInv, OthersAreNotInit
  <1>14. /\ thread_table'[BASE_TID_INDEX] # None /\ thread_table'[BASE_TID_INDEX].pid = 0
         /\ pc'[Init0] \notin {"unborn", "start"}
         /\ thread_to_tid'[Init0] = BASE_TID_INDEX
    BY <1>3, <1>4, <1>5, <1>7, HandleSets DEF AnyInv, Booted
  <1> QED BY <1>3, <1>10, <1>12, <1>13, <1>14, AnyThreads

LEMMA StartRunningAny ==
  ASSUME AnyInv, NEW n \in Native, StartRunning(n)
  PROVE  AnyInv'
  <1>1. /\ TypeOK /\ pc[n] = "start" /\ ArgInv(n) /\ arg[n] \in Tids
        /\ arg[n] # BASE_TID_INDEX
    BY DEF StartRunning, AnyInv, ArgInv
  <1>2. /\ thread_to_tid' = [thread_to_tid EXCEPT ![n] = arg[n]]
        /\ UNCHANGED <<process_table, thread_table, next_pid, next_tid, clones, procfs,
                       openCounter, seen, lost, want, children, mains, crashed, halted>>
        /\ ~halted
    BY DEF StartRunning, Alive, Running, tables, alloc, user
  <1>3. n # Init0 BY <1>1, <1>2 DEF AnyInv, Booted
  <1>4. "user" \in Labels /\ erInvalid_Handle \in Handle BY DEF Labels, Handle
  <1>5. /\ pc' \in [Native -> Labels] /\ pc'[n] = "user"
        /\ \A m \in Native : m # n => pc'[m] = pc[m]
    BY <1>1, <1>4, PcTypes DEF StartRunning
  <1>6. /\ arg' \in [Native -> Handle] /\ arg'[n] = erInvalid_Handle
        /\ \A m \in Native : m # n => arg'[m] = arg[m]
    BY <1>1, <1>4, ArgTypes DEF StartRunning
  <1>7. /\ thread_to_tid' \in [Native -> Tids \cup {erInvalid_Handle}]
        /\ thread_to_tid'[n] = arg[n]
        /\ \A m \in Native : m # n => thread_to_tid'[m] = thread_to_tid[m]
    BY <1>1, <1>2 DEF TypeOK
  <1>8. TypeOK' BY <1>1, <1>2, <1>5, <1>6, <1>7 DEF TypeOK, Handle, Handles
  <1>9. \A m \in Native : ArgInv(m)'
    BY <1>1, <1>2, <1>5, <1>6, <1>7 DEF AnyInv, ArgInv, Creating
  <1>10. OthersAreNotInit' BY <1>2 DEF AnyInv, OthersAreNotInit
  <1>11. /\ thread_table'[BASE_TID_INDEX] # None /\ thread_table'[BASE_TID_INDEX].pid = 0
         /\ pc'[Init0] \notin {"unborn", "start"}
         /\ thread_to_tid'[Init0] = BASE_TID_INDEX
    BY <1>2, <1>3, <1>5, <1>7 DEF AnyInv, Booted
  <1> QED BY <1>2, <1>8, <1>9, <1>10, <1>11, AnyThreads

LEMMA WaitForAny ==
  ASSUME AnyInv, NEW n \in Native, WaitFor(n)
  PROVE  AnyInv'
  <1>1. /\ TypeOK /\ pc[n] = "user"
        /\ UNCHANGED <<thread_to_tid, next_pid, next_tid, clones, procfs, openCounter, seen, lost,
                       children, mains, crashed, halted>>
        /\ ~halted
    BY DEF WaitFor, AnyInv, Alive, Running, alloc
  <1>2. PICK hs \in SUBSET Joinable(n) :
          /\ want' = [want EXCEPT ![n] = hs]
          /\ LET valid == {h \in hs : validateHandle(h)}
                 already_done == {h \in valid : RecordOf(h).q.is_locked}
             IN  /\ process_table' = [p \in Pids |->
                       IF p \in valid THEN Register(process_table[p], getTid(n))
                       ELSE process_table[p]]
                 /\ thread_table' = [t \in Tids |->
                       IF t \in valid THEN Register(thread_table[t], getTid(n))
                       ELSE thread_table[t]]
                 /\ \/ /\ already_done = {}
                       /\ Goto(n, "sleep")
                       /\ UNCHANGED arg
                    \/ \E h \in already_done : Goto(n, "getRetVal") /\ SetArg(n, h)
    BY DEF WaitFor
  <1> DEFINE valid == {h \in hs : validateHandle(h)}
  <1>3. hs \subseteq Pids \cup Tids
    <2>1. \A m \in Native : children[m] \subseteq Pids \cup Tids BY <1>1 DEF TypeOK
    <2>2. Joinable(n) \subseteq UNION {children[m] : m \in Native} BY DEF Joinable
    <2> QED BY <1>2, <2>1, <2>2
  <1>4. PICK l \in {"sleep", "getRetVal"} :
          Goto(n, l) /\ (UNCHANGED arg \/ \E h \in Handle : SetArg(n, h))
    BY <1>2, <1>3 DEF Handle, Handles
  <1>5. l \in Labels BY DEF Labels
  <1>6. /\ pc' \in [Native -> Labels] /\ pc'[n] = l
        /\ \A m \in Native : m # n => pc'[m] = pc[m]
    BY <1>1, <1>4, <1>5, PcTypes
  <1>7. /\ arg' \in [Native -> Handle]
        /\ \A m \in Native : m # n => arg'[m] = arg[m]
    <2>1. CASE UNCHANGED arg BY <1>1, <2>1 DEF TypeOK, Handle, Handles
    <2>2. CASE \E h \in Handle : SetArg(n, h) BY <1>1, <2>2, ArgTypes
    <2> QED BY <1>4, <2>1, <2>2
  <1>8. thread_to_tid[n] \in Tids BY <1>1 DEF AnyInv, ArgInv
  <1>9. ASSUME NEW p \in Pids
        PROVE  /\ process_table'[p] \in PCB \cup {None}
               /\ process_table[p] = None => process_table'[p] = None
               /\ process_table[p] # None =>
                     /\ process_table'[p] # None
                     /\ process_table'[p].io = process_table[p].io
                     /\ process_table'[p].q.assigned = process_table[p].q.assigned
    <2>1. CASE p \in valid
      <3>1. process_table[p] \in PCB /\ process_table[p] # None
        BY <1>1, <2>1, HandleSets DEF validateHandle, TypeOK
      <3>2. process_table'[p] = Register(process_table[p], thread_to_tid[n])
        BY <1>2, <2>1 DEF getTid
      <3>3. process_table'[p] \in PCB /\ process_table'[p].io = process_table[p].io
        BY <1>8, <3>1, <3>2, PcbSteps
      <3>4. process_table'[p].q.assigned = process_table[p].q.assigned
        BY <3>1, <3>2 DEF Register, PCB, Queue
      <3> QED BY <3>1, <3>3, <3>4
    <2>2. CASE p \notin valid BY <1>1, <1>2, <2>2 DEF TypeOK
    <2> QED BY <2>1, <2>2
  <1>10. ASSUME NEW t \in Tids
         PROVE  /\ thread_table'[t] \in TCB \cup {None}
                /\ thread_table[t] = None => thread_table'[t] = None
                /\ thread_table[t] # None => /\ thread_table'[t] # None
                                             /\ thread_table'[t].pid = thread_table[t].pid
    <2>1. CASE t \in valid
      <3>1. thread_table[t] \in TCB /\ thread_table[t] # None
        BY <1>1, <2>1, HandleSets DEF validateHandle, TypeOK
      <3>2. thread_table'[t] = Register(thread_table[t], thread_to_tid[n])
        BY <1>2, <2>1 DEF getTid
      <3>3. thread_table'[t] \in TCB /\ thread_table'[t].pid = thread_table[t].pid
        BY <1>8, <3>1, <3>2, TcbSteps
      <3> QED BY <3>1, <3>3
    <2>2. CASE t \notin valid BY <1>1, <1>2, <2>2 DEF TypeOK
    <2> QED BY <2>1, <2>2
  <1>11. process_table' \in [Pids -> PCB \cup {None}]
    <2>1. process_table' = [p \in Pids |-> process_table'[p]] BY <1>2
    <2> QED BY <1>9, <2>1
  <1>12. thread_table' \in [Tids -> TCB \cup {None}]
    <2>1. thread_table' = [t \in Tids |-> thread_table'[t]] BY <1>2
    <2> QED BY <1>10, <2>1
  <1> HIDE DEF valid
  <1>13. want' \in [Native -> SUBSET (Pids \cup Tids)] BY <1>1, <1>2, <1>3 DEF TypeOK
  <1>14. TypeOK'
    BY <1>1, <1>6, <1>7, <1>11, <1>12, <1>13 DEF TypeOK, Handle, Handles
  <1>15. \A m \in Native : ArgInv(m)'
    BY <1>1, <1>6, <1>7, <1>8 DEF AnyInv, ArgInv, Creating
  <1>16. OthersAreNotInit' BY <1>10 DEF AnyInv, OthersAreNotInit
  <1>17. Booted' BY <1>1, <1>6, <1>9, <1>10, HandleSets DEF AnyInv, Booted
  <1>18. Streams' \subseteq Streams BY <1>9 DEF Streams
  <1>19. Counted' BY <1>1, <1>14, <1>18, CountedFewer DEF AnyInv
  <1> QED BY <1>14, <1>15, <1>16, <1>17, <1>19 DEF AnyInv

LEMMA FallAsleepAny ==
  ASSUME AnyInv, NEW n \in Native, FallAsleep(n)
  PROVE  AnyInv'
  <1>1. TypeOK /\ pc[n] = "sleep" BY DEF FallAsleep, AnyInv
  <1>2. CASE Crash BY <1>2, AnyCrash
  <1>3. CASE ~Crash
    <2>1. /\ Goto(n, "asleep") /\ ~halted
          /\ UNCHANGED <<tables, thread_to_tid, openCounter, seen, lost, halted, next_pid, next_tid,
                         clones, procfs, want, children, mains, crashed, arg>>
      BY <1>3 DEF FallAsleep, Alive, Running, alloc, user
    <2>2. "asleep" \in Labels BY DEF Labels
    <2>3. /\ pc' \in [Native -> Labels] /\ pc'[n] = "asleep"
          /\ \A m \in Native : m # n => pc'[m] = pc[m]
      BY <1>1, <2>1, <2>2, PcTypes
    <2>4. TypeOK' BY <1>1, <2>1, <2>3 DEF TypeOK, tables
    <2>5. \A m \in Native : ArgInv(m)' BY <1>1, <2>1, <2>3 DEF AnyInv, ArgInv, Creating
    <2>6. pc'[Init0] \notin {"unborn", "start"} BY <2>1, <2>3 DEF AnyInv, Booted
    <2> QED BY <2>1, <2>4, <2>5, <2>6, AnyLocal
  <1> QED BY <1>2, <1>3

\* A record whose waked_by is set to a handle is otherwise the same.
LEMMA WakedBy ==
  ASSUME NEW r \in TCB, NEW h \in Handle
  PROVE  /\ [r EXCEPT !.waked_by = h] \in TCB
         /\ [r EXCEPT !.waked_by = h] # None
         /\ [r EXCEPT !.waked_by = h].pid = r.pid
         /\ [r EXCEPT !.waked_by = h].thread = r.thread
         /\ [r EXCEPT !.waked_by = h].q = r.q
         /\ [r EXCEPT !.waked_by = h].waked_by = h
  <1>1. [r EXCEPT !.waked_by = h] \in TCB BY TcbSteps
  <1> QED BY <1>1, TcbSteps DEF TCB

LEMMA GetWakeByAny ==
  ASSUME AnyInv, NEW n \in Native, GetWakeBy(n)
  PROVE  AnyInv'
  <1>1. TypeOK /\ pc[n] = "woken" /\ ArgInv(n) BY DEF GetWakeBy, AnyInv
  <1>2. CASE Crash BY <1>2, AnyCrash
  <1>3. CASE ~Crash
    <2> DEFINE t == thread_to_tid[n]
    <2>1. /\ thread_table[t] # None
          /\ SetArg(n, thread_table[t].waked_by)
          /\ thread_table' = [thread_table EXCEPT ![t].waked_by = erInvalid_Handle]
          /\ Goto(n, "getRetVal")
          /\ UNCHANGED <<process_table, thread_to_tid, next_pid, next_tid, clones, procfs,
                         openCounter, seen, lost, want, children, mains, crashed, halted>>
          /\ ~halted
      BY <1>3 DEF GetWakeBy, getTid, Alive, Running, alloc, user
    <2>2. t \in Tids BY <1>1 DEF ArgInv
    <2>3. thread_table[t] \in TCB BY <1>1, <2>1, <2>2 DEF TypeOK
    <2>4. thread_table[t].waked_by \in Handle /\ erInvalid_Handle \in Handle
      BY <2>3, TcbSteps DEF Handle
    <2>5. /\ thread_table'[t] = [thread_table[t] EXCEPT !.waked_by = erInvalid_Handle]
          /\ \A s \in Tids : s # t => thread_table'[s] = thread_table[s]
      BY <1>1, <2>1, <2>2 DEF TypeOK
    <2>6. /\ thread_table'[t] \in TCB /\ thread_table'[t] # None
          /\ thread_table'[t].pid = thread_table[t].pid
      BY <2>3, <2>4, <2>5, WakedBy
    <2>7. thread_table' \in [Tids -> TCB \cup {None}]
      BY <1>1, <2>1, <2>2, <2>5, <2>6 DEF TypeOK
    <2> HIDE DEF t
    <2>8. "getRetVal" \in Labels BY DEF Labels
    <2>9. /\ pc' \in [Native -> Labels] /\ pc'[n] = "getRetVal"
          /\ \A m \in Native : m # n => pc'[m] = pc[m]
      BY <1>1, <2>1, <2>8, PcTypes
    <2>10. /\ arg' \in [Native -> Handle]
           /\ \A m \in Native : m # n => arg'[m] = arg[m]
      BY <1>1, <2>1, <2>4, ArgTypes
    <2>11. TypeOK' BY <1>1, <2>1, <2>7, <2>9, <2>10 DEF TypeOK, Handle, Handles
    <2>12. \A m \in Native : ArgInv(m)'
      BY <1>1, <2>1, <2>9, <2>10 DEF AnyInv, ArgInv, Creating
    <2>13. OthersAreNotInit' BY <2>1, <2>5, <2>6 DEF AnyInv, OthersAreNotInit
    <2>14. /\ thread_table'[BASE_TID_INDEX] # None /\ thread_table'[BASE_TID_INDEX].pid = 0
           /\ pc'[Init0] \notin {"unborn", "start"}
           /\ thread_to_tid'[Init0] = BASE_TID_INDEX
      BY <2>1, <2>5, <2>6, <2>9, HandleSets DEF AnyInv, Booted
    <2> QED BY <2>1, <2>11, <2>12, <2>13, <2>14, AnyThreads
  <1> QED BY <1>2, <1>3

LEMMA GetRetValAny ==
  ASSUME AnyInv, NEW n \in Native, GetRetVal(n)
  PROVE  AnyInv'
  <1>1. TypeOK /\ pc[n] = "getRetVal" BY DEF GetRetVal, AnyInv
  <1>2. /\ Goto(n, "blockedRet") /\ ~halted
        /\ UNCHANGED <<tables, thread_to_tid, openCounter, seen, lost, halted, next_pid, next_tid,
                       clones, procfs, want, children, mains, crashed, arg>>
    BY DEF GetRetVal, Alive, Running, alloc, user
  <1>3. "blockedRet" \in Labels BY DEF Labels
  <1>4. /\ pc' \in [Native -> Labels] /\ pc'[n] = "blockedRet"
        /\ \A m \in Native : m # n => pc'[m] = pc[m]
    BY <1>1, <1>2, <1>3, PcTypes
  <1>5. TypeOK' BY <1>1, <1>2, <1>4 DEF TypeOK, tables
  <1>6. \A m \in Native : ArgInv(m)' BY <1>1, <1>2, <1>4 DEF AnyInv, ArgInv, Creating
  <1>7. pc'[Init0] \notin {"unborn", "start"} BY <1>2, <1>4 DEF AnyInv, Booted
  <1> QED BY <1>2, <1>5, <1>6, <1>7, AnyLocal

LEMMA JoinDoneTypes ==
  ASSUME TypeOK, NEW n \in Native, NEW h, JoinDone(n, h)
  PROVE  /\ want' \in [Native -> SUBSET (Pids \cup Tids)]
         /\ children' \in [Native -> SUBSET (Pids \cup Tids)]
         /\ \A m \in Native : children'[m] \subseteq children[m]
         /\ arg' \in [Native -> Handle] /\ arg'[n] = erInvalid_Handle
         /\ \A m \in Native : m # n => arg'[m] = arg[m]
         /\ mains' = mains
  <1>1. erInvalid_Handle \in Handle BY DEF Handle
  <1>2. /\ arg' \in [Native -> Handle] /\ arg'[n] = erInvalid_Handle
        /\ \A m \in Native : m # n => arg'[m] = arg[m]
    BY <1>1, ArgTypes DEF JoinDone
  <1>3. want' \in [Native -> SUBSET (Pids \cup Tids)] BY DEF JoinDone, TypeOK
  <1> DEFINE gone == {h} \cup IF Cardinality(want[n]) = 1 THEN want[n] ELSE {}
  <1>4. children' = [children EXCEPT ![n] = @ \ gone] BY DEF JoinDone
  <1> HIDE DEF gone
  <1>5. /\ children' \in [Native -> SUBSET (Pids \cup Tids)]
        /\ \A m \in Native : children'[m] \subseteq children[m]
    BY <1>4 DEF TypeOK
  <1> QED BY <1>2, <1>3, <1>5 DEF JoinDone

LEMMA ReadRetValAny ==
  ASSUME AnyInv, NEW n \in Native, ReadRetVal(n)
  PROVE  AnyInv'
  <1>1. TypeOK /\ pc[n] \in {"getRetVal", "blockedRet"} /\ ArgInv(n)
    BY DEF ReadRetVal, AnyInv
  <1>2. CASE Crash BY <1>2, AnyCrash
  <1>3. CASE ~Crash
    <2> DEFINE h == arg[n]
    <2>1. /\ ReadRecord(h) /\ RecordOf(h).q.assigned
          /\ UNCHANGED <<thread_to_tid, next_pid, next_tid, clones, procfs,
                         openCounter, seen, lost, crashed, halted>>
          /\ ~halted
      BY <1>3 DEF ReadRetVal, Alive, Running, alloc
    <2>2. \/ /\ h \in Pids /\ UNCHANGED thread_table
             /\ process_table' = [process_table EXCEPT ![h] = AfterRead(@)]
          \/ /\ h \in Tids /\ UNCHANGED process_table
             /\ thread_table' = [thread_table EXCEPT ![h] = AfterRead(@)]
      BY <1>3 DEF ReadRetVal
    <2>3. \/ Goto(n, "clean") /\ UNCHANGED <<arg, want, children, mains>>
          \/ Goto(n, "user") /\ JoinDone(n, h)
      BY <1>3 DEF ReadRetVal, user
    <2>4. h # 0 BY <2>1, HandleSets DEF AnyInv, Booted, RecordOf
    <2>5. /\ h \in Pids => process_table[h] \in PCB
          /\ h \in Tids => thread_table[h] \in TCB
      BY <1>1, <2>1, HandleSets DEF ReadRecord, validateHandle, TypeOK
    <2>6. PICK l \in {"clean", "user"} : Goto(n, l) /\ (l = "clean" => UNCHANGED arg)
      BY <2>3
    <2>7. l \in Labels BY DEF Labels
    <2>8. /\ pc' \in [Native -> Labels] /\ pc'[n] = l
          /\ \A m \in Native : m # n => pc'[m] = pc[m]
      BY <1>1, <2>6, <2>7, PcTypes
    <2>9. /\ want' \in [Native -> SUBSET (Pids \cup Tids)]
          /\ children' \in [Native -> SUBSET (Pids \cup Tids)]
          /\ \A m \in Native : children'[m] \subseteq children[m]
          /\ arg' \in [Native -> Handle] /\ arg'[n] \in {arg[n], erInvalid_Handle}
          /\ \A m \in Native : m # n => arg'[m] = arg[m]
          /\ mains' = mains
      <3>1. CASE UNCHANGED <<arg, want, children, mains>>
        BY <1>1, <3>1 DEF TypeOK, Handle, Handles
      <3>2. CASE JoinDone(n, h) BY <1>1, <3>2, JoinDoneTypes
      <3> QED BY <2>3, <3>1, <3>2
    <2>10. /\ process_table' \in [Pids -> PCB \cup {None}]
           /\ process_table'[0] = process_table[0]
           /\ Streams' \subseteq Streams
      <3>1. CASE UNCHANGED process_table BY <1>1, <3>1 DEF TypeOK, Streams
      <3>2. CASE h \in Pids /\ process_table' = [process_table EXCEPT ![h] = AfterRead(@)]
        <4>1. /\ process_table'[h] = AfterRead(process_table[h])
              /\ \A p \in Pids : p # h => process_table'[p] = process_table[p]
          BY <1>1, <3>2 DEF TypeOK
        <4>2. /\ process_table'[h] \in PCB /\ process_table'[h].io = process_table[h].io
              /\ process_table[h] # None
          BY <2>5, <3>2, <4>1, PcbSteps
        <4>3. Streams' \subseteq Streams BY <4>1, <4>2 DEF Streams
        <4>4. process_table' \in [Pids -> PCB \cup {None}] BY <1>1, <3>2, <4>1, <4>2 DEF TypeOK
        <4> QED BY <2>4, <4>1, <4>3, <4>4, HandleSets
      <3> QED BY <2>2, <3>1, <3>2
    <2>11. /\ thread_table' \in [Tids -> TCB \cup {None}]
           /\ \A t \in Tids :
                 /\ thread_table[t] = None => thread_table'[t] = None
                 /\ thread_table[t] # None => /\ thread_table'[t] # None
                                              /\ thread_table'[t].pid = thread_table[t].pid
      <3>1. CASE UNCHANGED thread_table BY <1>1, <3>1 DEF TypeOK
      <3>2. CASE h \in Tids /\ thread_table' = [thread_table EXCEPT ![h] = AfterRead(@)]
        <4>1. /\ thread_table'[h] = AfterRead(thread_table[h])
              /\ \A t \in Tids : t # h => thread_table'[t] = thread_table[t]
          BY <1>1, <3>2 DEF TypeOK
        <4>2. /\ thread_table'[h] \in TCB /\ thread_table'[h].pid = thread_table[h].pid
              /\ thread_table'[h] # None /\ thread_table[h] # None
          BY <2>5, <3>2, <4>1, TcbSteps
        <4>3. thread_table' \in [Tids -> TCB \cup {None}] BY <1>1, <3>2, <4>1, <4>2 DEF TypeOK
        <4> QED BY <4>1, <4>2, <4>3
      <3> QED BY <2>2, <3>1, <3>2
    <2>12. TypeOK'
      BY <1>1, <2>1, <2>8, <2>9, <2>10, <2>11 DEF TypeOK, Handle, Handles
    <2>13. \A m \in Native : ArgInv(m)'
      <3>1. arg[n] \in Handles BY <2>1 DEF ReadRecord, Handles
      <3> QED BY <1>1, <2>1, <2>3, <2>4, <2>6, <2>8, <2>9, <3>1 DEF AnyInv, ArgInv, Creating
    <2>14. OthersAreNotInit' BY <2>11 DEF AnyInv, OthersAreNotInit
    <2>15. Booted' BY <1>1, <2>1, <2>8, <2>10, <2>11, HandleSets DEF AnyInv, Booted
    <2>16. Counted' BY <1>1, <2>1, <2>10, <2>12, CountedFewer DEF AnyInv
    <2> QED BY <2>12, <2>13, <2>14, <2>15, <2>16 DEF AnyInv
  <1> QED BY <1>2, <1>3

LEMMA PcAfterTypes ==
  ASSUME TypeOK, NEW n \in Native, NEW l \in Labels, NEW ws, PcAfter(n, l, ws)
  PROVE  /\ pc' \in [Native -> Labels] /\ pc'[n] = l
         /\ \A m \in Native : m # n =>
               \/ pc'[m] = pc[m]
               \/ pc[m] = "asleep" /\ pc'[m] = "woken"
  <1>1. /\ pc' = [m \in Native |-> IF m = n THEN l
                     ELSE IF m \in Notified(ws) THEN "woken" ELSE pc[m]]
        /\ \A m \in Notified(ws) : pc[m] = "asleep"
        /\ "woken" \in Labels
    BY DEF PcAfter, Notified, Labels
  <1> QED BY <1>1 DEF TypeOK

\* The wake-ups of the waiters of a process and of a thread, one after the other.
LEMMA TwoWakeUps ==
  ASSUME NEW table \in [Tids -> TCB \cup {None}],
         NEW ws, NEW waker \in Handle, NEW vs, NEW other \in Handle
  PROVE  LET woken == WakeUp(WakeUp(table, ws, waker), vs, other)
         IN  /\ woken \in [Tids -> TCB \cup {None}]
             /\ \A t \in Tids :
                   /\ table[t] = None => woken[t] = None
                   /\ table[t] # None =>
                         /\ woken[t] # None /\ woken[t].pid = table[t].pid
                         /\ woken[t].thread = table[t].thread
                         /\ woken[t].q = table[t].q
                         /\ woken[t].waked_by = IF t \in vs THEN other
                               ELSE IF t \in ws THEN waker ELSE table[t].waked_by
  <1> DEFINE first == WakeUp(table, ws, waker)
  <1>1. /\ first \in [Tids -> TCB \cup {None}]
        /\ \A t \in Tids :
              /\ table[t] = None => first[t] = None
              /\ table[t] # None =>
                    /\ first[t] # None /\ first[t].pid = table[t].pid
                    /\ first[t].thread = table[t].thread /\ first[t].q = table[t].q
                    /\ first[t].waked_by = IF t \in ws THEN waker ELSE table[t].waked_by
    BY WakeUpSteps
  <1> HIDE DEF first
  <1> DEFINE woken == WakeUp(first, vs, other)
  <1>2. /\ woken \in [Tids -> TCB \cup {None}]
        /\ \A t \in Tids :
              /\ first[t] = None => woken[t] = None
              /\ first[t] # None =>
                    /\ woken[t] # None /\ woken[t].pid = first[t].pid
                    /\ woken[t].thread = first[t].thread /\ woken[t].q = first[t].q
                    /\ woken[t].waked_by = IF t \in vs THEN other ELSE first[t].waked_by
    BY <1>1, WakeUpSteps
  <1> HIDE DEF woken
  <1>3. /\ woken \in [Tids -> TCB \cup {None}]
        /\ \A t \in Tids :
              /\ table[t] = None => woken[t] = None
              /\ table[t] # None =>
                    /\ woken[t] # None /\ woken[t].pid = table[t].pid
                    /\ woken[t].thread = table[t].thread /\ woken[t].q = table[t].q
                    /\ woken[t].waked_by = IF t \in vs THEN other
                          ELSE IF t \in ws THEN waker ELSE table[t].waked_by
    BY <1>1, <1>2
  <1> QED BY <1>3 DEF woken, first

\* The removal of a process: its slot is free, no thread of it but init's
\* first is left, and the streams are closed once.
LEMMA CleanProcessSteps ==
  ASSUME TypeOK, Counted, NEW n \in Native, NEW h \in Pids, Loaded(n),
         process_table[h] # None, NEW l \in Labels, CleanProcess(n, h, l),
         getPid(n) \in Handle
  PROVE  /\ process_table' \in [Pids -> PCB \cup {None}] /\ process_table'[h] = None
         /\ \A p \in Pids : p # h => process_table'[p] = process_table[p]
         /\ thread_table' \in [Tids -> TCB \cup {None}]
         /\ \A t \in Tids :
               /\ thread_table'[t] = None <=> thread_table[t] = None \/ t \in Doomed(h)
               /\ thread_table'[t] # None =>
                     /\ thread_table'[t].pid = thread_table[t].pid
                     /\ thread_table'[t].thread = thread_table[t].thread
                     /\ thread_table'[t].q.is_locked = thread_table[t].q.is_locked
         /\ openCounter' \in Nat /\ seen' \in [Native -> Nat \cup {Unseen}]
         /\ TypeOK' => Counted'
         /\ procfs' = procfs \ {h}
         /\ pc' \in [Native -> Labels] /\ pc'[n] = l
         /\ \A m \in Native : m # n =>
               \/ pc'[m] = pc[m]
               \/ pc[m] = "asleep" /\ pc'[m] = "woken"
         /\ UNCHANGED <<thread_to_tid, next_pid, next_tid, clones, lost>>
  <1> DEFINE kept == [t \in Tids |-> IF t \in Doomed(h) THEN None
                                ELSE IF t \in ThreadsOf(h)
                                     THEN NoWaiters(thread_table[t])
                                     ELSE thread_table[t]]
  <1>1. PICK ws, vs :
          /\ thread_table' = WakeUp(WakeUp(kept, ws, getTid(n)), vs, getPid(n))
          /\ PcAfter(n, l, ws \cup vs)
    BY DEF CleanProcess
  <1>2. /\ procfs' = procfs \ {h} /\ openCounter' = Closed(n, h) /\ Forget(n)
        /\ process_table' = [process_table EXCEPT ![h] = None]
        /\ UNCHANGED <<thread_to_tid, next_pid, next_tid, clones, lost>>
    BY DEF CleanProcess, ProcfsWithout, alloc
  <1>3. getTid(n) \in Handle BY DEF getTid, TypeOK, Handle, Handles
  <1>4. \A t \in ThreadsOf(h) : t \in Tids /\ thread_table[t] \in TCB /\ thread_table[t] # None
    BY DEF ThreadsOf, TypeOK
  <1>5. ASSUME NEW t \in Tids
        PROVE  /\ kept[t] \in TCB \cup {None}
               /\ kept[t] = None <=> thread_table[t] = None \/ t \in Doomed(h)
               /\ kept[t] # None => /\ kept[t].pid = thread_table[t].pid
                                    /\ kept[t].thread = thread_table[t].thread
                                    /\ kept[t].q.is_locked = thread_table[t].q.is_locked
    <2>1. CASE t \in Doomed(h) BY <2>1
    <2>2. CASE t \notin Doomed(h) /\ t \in ThreadsOf(h)
      <3>1. kept[t] = NoWaiters(thread_table[t]) BY <2>2
      <3>2. thread_table[t] \in TCB /\ thread_table[t] # None BY <1>4, <2>2
      <3> HIDE DEF kept
      <3>3. kept[t].q.is_locked = thread_table[t].q.is_locked
        <4>1. PICK q \in Queue : q = thread_table[t].q BY <3>2 DEF TCB
        <4>2. kept[t].q = [q EXCEPT !.waiting_handles = <<>>]
          BY <3>1, <3>2, <4>1, RecordSteps
        <4> QED BY <4>1, <4>2 DEF Queue
      <3> QED BY <2>2, <3>1, <3>2, <3>3, TcbSteps
    <2>3. CASE t \notin Doomed(h) /\ t \notin ThreadsOf(h)
      <3>1. kept[t] = thread_table[t] BY <2>3
      <3> HIDE DEF kept
      <3> QED BY <2>3, <3>1 DEF TypeOK
    <2> QED BY <2>1, <2>2, <2>3
  <1>6. kept \in [Tids -> TCB \cup {None}]
    <2>1. kept = [t \in Tids |-> kept[t]] OBVIOUS
    <2> HIDE DEF kept
    <2> QED BY <1>5, <2>1
  <1> HIDE DEF kept
  <1>7. /\ thread_table' \in [Tids -> TCB \cup {None}]
        /\ \A t \in Tids :
              /\ kept[t] = None => thread_table'[t] = None
              /\ kept[t] # None => /\ thread_table'[t] # None
                                   /\ thread_table'[t].pid = kept[t].pid
                                   /\ thread_table'[t].thread = kept[t].thread
                                   /\ thread_table'[t].q = kept[t].q
    BY <1>1, <1>3, <1>6, TwoWakeUps
  <1>8. \A t \in Tids :
           /\ thread_table'[t] = None <=> thread_table[t] = None \/ t \in Doomed(h)
           /\ thread_table'[t] # None =>
                 /\ thread_table'[t].pid = thread_table[t].pid
                 /\ thread_table'[t].thread = thread_table[t].thread
                 /\ thread_table'[t].q.is_locked = thread_table[t].q.is_locked
    BY <1>5, <1>7
  <1>9. /\ process_table' \in [Pids -> PCB \cup {None}] /\ process_table'[h] = None
        /\ \A p \in Pids : p # h => process_table'[p] = process_table[p]
    BY <1>2 DEF TypeOK
  <1>10. /\ seen' \in [Native -> Nat \cup {Unseen}]
         /\ CountsAlone => SeenInv' /\ seen[n] = openCounter
    BY <1>2, ForgottenAll
  <1>11. openCounter' \in Nat BY <1>2 DEF Closed, TypeOK, Unseen
  <1>12. ASSUME TypeOK', CountsAlone PROVE StreamsStayOpen'
    <2>1. StreamsStayOpen BY <1>12 DEF Counted
    <2>2. CASE process_table[h].io
      <3>1. h \in Streams BY <2>2 DEF Streams
      <3>2. openCounter' = openCounter - 1 BY <1>2, <1>12, <2>2, ClosedOnce
      <3>3. Streams' = Streams \ {h} BY <1>9 DEF Streams
      <3> QED BY <2>1, <3>1, <3>2, <3>3, StreamsOneLess
    <2>3. CASE ~process_table[h].io
      <3>1. openCounter' = openCounter BY <1>2, <2>3 DEF Closed
      <3>2. Streams' \subseteq Streams BY <1>9 DEF Streams
      <3> QED BY <1>12, <2>1, <3>1, <3>2, StreamsFewer
    <2> QED BY <2>2, <2>3
  <1>13. TypeOK' => Counted' BY <1>10, <1>12 DEF Counted, CountsAlone
  <1>14. /\ pc' \in [Native -> Labels] /\ pc'[n] = l
         /\ \A m \in Native : m # n =>
               \/ pc'[m] = pc[m]
               \/ pc[m] = "asleep" /\ pc'[m] = "woken"
    BY <1>1, PcAfterTypes
  <1> QED BY <1>2, <1>7, <1>8, <1>9, <1>10, <1>11, <1>13, <1>14

LEMMA CleanThreadSteps ==
  ASSUME TypeOK, NEW n \in Native, NEW h \in Tids, thread_table[h] # None,
         CleanThread(n, h)
  PROVE  /\ thread_table' \in [Tids -> TCB \cup {None}]
         /\ h # BASE_TID_INDEX => thread_table'[h] = None
         /\ h = BASE_TID_INDEX => /\ thread_table'[h] # None
                                  /\ thread_table'[h].pid = thread_table[h].pid
         /\ \A t \in Tids : t # h =>
               /\ thread_table[t] = None => thread_table'[t] = None
               /\ thread_table[t] # None =>
                     /\ thread_table'[t] # None
                     /\ thread_table'[t].pid = thread_table[t].pid
                     /\ thread_table'[t].thread = thread_table[t].thread
                     /\ thread_table'[t].q = thread_table[t].q
                     /\ t \notin Elements(thread_table[h].q.waiting_handles) =>
                           thread_table'[t].waked_by = thread_table[t].waked_by
         /\ PcAfter(n, "user", Elements(thread_table[h].q.waiting_handles))
         /\ pc' \in [Native -> Labels] /\ pc'[n] = "user"
         /\ \A m \in Native : m # n =>
               \/ pc'[m] = pc[m]
               \/ pc[m] = "asleep" /\ pc'[m] = "woken"
         /\ UNCHANGED <<process_table, thread_to_tid, next_pid, next_tid, clones, procfs,
                        openCounter, seen, lost>>
  <1> DEFINE ws == Elements(thread_table[h].q.waiting_handles)
             woken == WakeUp(thread_table, ws, getTid(n))
  <1>1. /\ thread_table' = [woken EXCEPT
              ![h] = IF h = BASE_TID_INDEX THEN NoWaiters(@) ELSE None]
        /\ PcAfter(n, "user", ws)
        /\ UNCHANGED <<process_table, thread_to_tid, next_pid, next_tid, clones, procfs,
                       openCounter, seen, lost>>
    BY DEF CleanThread, alloc
  <1>2. getTid(n) \in Handle /\ thread_table \in [Tids -> TCB \cup {None}]
    BY DEF getTid, TypeOK, Handle, Handles
  <1> HIDE DEF ws
  <1>3. /\ woken \in [Tids -> TCB \cup {None}]
        /\ \A t \in Tids :
              /\ thread_table[t] = None => woken[t] = None
              /\ thread_table[t] # None =>
                    /\ woken[t] # None /\ woken[t].pid = thread_table[t].pid
                    /\ woken[t].thread = thread_table[t].thread
                    /\ woken[t].q = thread_table[t].q
                    /\ t \notin ws => woken[t].waked_by = thread_table[t].waked_by
    BY <1>2, WakeUpSteps
  <1> HIDE DEF woken
  <1>4. woken[h] \in TCB BY <1>3
  <1>5. /\ thread_table'[h] = IF h = BASE_TID_INDEX THEN NoWaiters(woken[h]) ELSE None
        /\ \A t \in Tids : t # h => thread_table'[t] = woken[t]
    BY <1>1, <1>3
  <1>6. /\ NoWaiters(woken[h]) \in TCB /\ NoWaiters(woken[h]) # None
        /\ NoWaiters(woken[h]).pid = woken[h].pid
    BY <1>4, TcbSteps
  <1>7. thread_table' \in [Tids -> TCB \cup {None}] BY <1>1, <1>3, <1>5, <1>6
  <1>8. "user" \in Labels BY DEF Labels
  <1>9. /\ pc' \in [Native -> Labels] /\ pc'[n] = "user"
        /\ \A m \in Native : m # n =>
               \/ pc'[m] = pc[m]
               \/ pc[m] = "asleep" /\ pc'[m] = "woken"
    BY <1>1, <1>8, PcAfterTypes
  <1> QED BY <1>1, <1>3, <1>5, <1>6, <1>7, <1>9 DEF ws

LEMMA CleanAny ==
  ASSUME AnyInv, NEW n \in Native, Clean(n)
  PROVE  AnyInv'
  <1>1. TypeOK /\ pc[n] = "clean" /\ ArgInv(n) /\ Counted BY DEF Clean, AnyInv
  <1>2. CASE Crash BY <1>2, AnyCrash
  <1>3. CASE ~Crash
    <2> DEFINE h == arg[n]
    <2>1. /\ CanClean(h) /\ JoinDone(n, h) /\ UNCHANGED <<crashed, halted>> /\ ~halted
          /\ IF h \in Pids THEN CleanProcess(n, h, "user") ELSE CleanThread(n, h)
      BY <1>3 DEF Clean, Alive, Running
    <2>2. h \in Handles /\ h # 0 BY <1>1 DEF ArgInv
    <2>3. /\ want' \in [Native -> SUBSET (Pids \cup Tids)]
          /\ children' \in [Native -> SUBSET (Pids \cup Tids)]
          /\ \A m \in Native : children'[m] \subseteq children[m]
          /\ arg' \in [Native -> Handle] /\ arg'[n] = erInvalid_Handle
          /\ \A m \in Native : m # n => arg'[m] = arg[m]
          /\ mains' = mains
      BY <1>1, <2>1, JoinDoneTypes
    <2>4. "user" \in Labels BY DEF Labels
    <2>5. CASE h \in Pids
      <3>1. CleanProcess(n, h, "user") /\ process_table[h] # None /\ Loaded(n)
        BY <1>3, <2>1, <2>5 DEF Clean, CanClean, CanCleanProcess
      <3>2. getPid(n) \in Handle BY PidOfOthers DEF Handle, Handles
      <3> HIDE DEF h
      <3>3. /\ process_table' \in [Pids -> PCB \cup {None}] /\ process_table'[h] = None
            /\ \A p \in Pids : p # h => process_table'[p] = process_table[p]
            /\ thread_table' \in [Tids -> TCB \cup {None}]
            /\ \A t \in Tids :
                  /\ thread_table'[t] = None <=> thread_table[t] = None \/ t \in Doomed(h)
                  /\ thread_table'[t] # None => thread_table'[t].pid = thread_table[t].pid
            /\ openCounter' \in Nat /\ seen' \in [Native -> Nat \cup {Unseen}]
            /\ TypeOK' => Counted'
            /\ procfs' = procfs \ {h}
            /\ pc' \in [Native -> Labels] /\ pc'[n] = "user"
            /\ \A m \in Native : m # n =>
                  \/ pc'[m] = pc[m]
                  \/ pc[m] = "asleep" /\ pc'[m] = "woken"
            /\ UNCHANGED <<thread_to_tid, next_pid, next_tid, clones, lost>>
        BY <1>1, <2>4, <2>5, <3>1, <3>2, CleanProcessSteps
      <3>4. TypeOK' BY <1>1, <2>1, <2>3, <3>3 DEF TypeOK, Handle, Handles
      <3>5. \A m \in Native : ArgInv(m)'
        BY <1>1, <2>3, <3>3 DEF AnyInv, ArgInv, Creating
      <3>6. OthersAreNotInit' BY <3>3 DEF AnyInv, OthersAreNotInit
      <3>7. Booted'
        BY <1>1, <2>1, <2>2, <3>3, HandleSets DEF AnyInv, Booted, Doomed
      <3> QED BY <3>3, <3>4, <3>5, <3>6, <3>7 DEF AnyInv
    <2>6. CASE h \notin Pids
      <3>1. h \in Tids BY <2>2, <2>6 DEF Handles
      <3>2. CleanThread(n, h) /\ thread_table[h] # None
        BY <2>1, <2>6, <3>1, HandleSets DEF CanClean, CanCleanThread, validateHandle
      <3> HIDE DEF h
      <3>3. /\ thread_table' \in [Tids -> TCB \cup {None}]
            /\ \A t \in Tids : thread_table'[t] # None =>
                  thread_table[t] # None /\ thread_table'[t].pid = thread_table[t].pid
            /\ thread_table[BASE_TID_INDEX] # None => thread_table'[BASE_TID_INDEX] # None
            /\ pc' \in [Native -> Labels] /\ pc'[n] = "user"
            /\ \A m \in Native : m # n =>
                   \/ pc'[m] = pc[m]
                   \/ pc[m] = "asleep" /\ pc'[m] = "woken"
            /\ UNCHANGED <<process_table, thread_to_tid, next_pid, next_tid, clones, procfs,
                           openCounter, seen, lost>>
        BY <1>1, <3>1, <3>2, HandleSets, CleanThreadSteps
      <3>4. TypeOK' BY <1>1, <2>1, <2>3, <3>3 DEF TypeOK, Handle, Handles
      <3>5. \A m \in Native : ArgInv(m)'
        BY <1>1, <2>3, <3>3 DEF AnyInv, ArgInv, Creating
      <3>6. OthersAreNotInit' BY <3>3 DEF AnyInv, OthersAreNotInit
      <3>7. Booted' BY <1>1, <2>1, <3>3, HandleSets DEF AnyInv, Booted
      <3>8. Counted'
        BY <3>3 DEF AnyInv, Counted, CountsAlone, SeenInv, Loaded, StreamsStayOpen
      <3> QED BY <3>4, <3>5, <3>6, <3>7, <3>8 DEF AnyInv
    <2> QED BY <2>5, <2>6
  <1> QED BY <1>2, <1>3

LEMMA StopCleanAny ==
  ASSUME AnyInv, NEW n \in Native, StopClean(n)
  PROVE  AnyInv'
  <1>1. TypeOK /\ pc[n] = "stopClean" /\ ArgInv(n) /\ Counted BY DEF StopClean, AnyInv
  <1>2. CASE Crash BY <1>2, AnyCrash
  <1>3. CASE ~Crash
    <2> DEFINE h == arg[n]
    <2>1. /\ h \in Pids /\ process_table[h] # None /\ CleanProcess(n, h, "stop")
          /\ SetArg(n, h + 1) /\ UNCHANGED <<want, children, mains, crashed, halted>> /\ ~halted
          /\ Loaded(n)
      BY <1>3 DEF StopClean, CanCleanProcess, Alive, Running, user
    <2>2. h # 0 BY <1>1 DEF ArgInv
    <2>3. h + 1 \in Handle /\ h + 1 # 0
      BY <2>1 DEF Handle, Handles, Pids, Tids, BASE_TID_INDEX
    <2>4. "stop" \in Labels BY DEF Labels
    <2>5. getPid(n) \in Handle BY PidOfOthers DEF Handle, Handles
    <2>6. /\ arg' \in [Native -> Handle] /\ arg'[n] = h + 1
          /\ \A m \in Native : m # n => arg'[m] = arg[m]
      BY <1>1, <2>1, <2>3, ArgTypes
    <2> HIDE DEF h
    <2>7. /\ process_table' \in [Pids -> PCB \cup {None}] /\ process_table'[h] = None
          /\ \A p \in Pids : p # h => process_table'[p] = process_table[p]
          /\ thread_table' \in [Tids -> TCB \cup {None}]
          /\ \A t \in Tids :
                /\ thread_table'[t] = None <=> thread_table[t] = None \/ t \in Doomed(h)
                /\ thread_table'[t] # None => thread_table'[t].pid = thread_table[t].pid
          /\ openCounter' \in Nat /\ seen' \in [Native -> Nat \cup {Unseen}]
          /\ TypeOK' => Counted'
          /\ procfs' = procfs \ {h}
          /\ pc' \in [Native -> Labels] /\ pc'[n] = "stop"
          /\ \A m \in Native : m # n =>
                \/ pc'[m] = pc[m]
                \/ pc[m] = "asleep" /\ pc'[m] = "woken"
          /\ UNCHANGED <<thread_to_tid, next_pid, next_tid, clones, lost>>
      BY <1>1, <2>1, <2>4, <2>5, CleanProcessSteps
    <2>8. TypeOK' BY <1>1, <2>1, <2>6, <2>7 DEF TypeOK, Handle, Handles
    <2>9. \A m \in Native : ArgInv(m)'
      BY <1>1, <2>1, <2>3, <2>6, <2>7 DEF AnyInv, ArgInv, Creating
    <2>10. OthersAreNotInit' BY <2>7 DEF AnyInv, OthersAreNotInit
    <2>11. Booted'
      BY <1>1, <2>1, <2>2, <2>7, HandleSets DEF AnyInv, Booted, Doomed
    <2> QED BY <2>7, <2>8, <2>9, <2>10, <2>11 DEF AnyInv
  <1> QED BY <1>2, <1>3

LEMMA ShutdownAny ==
  ASSUME AnyInv, NEW n \in Native, Shutdown(n)
  PROVE  AnyInv'
  <1>1. TypeOK /\ pc[n] = "user" BY DEF Shutdown, AnyInv
  <1>2. /\ Goto(n, "stop") /\ SetArg(n, 1) /\ ~halted
        /\ UNCHANGED <<tables, thread_to_tid, openCounter, seen, lost, halted, next_pid, next_tid,
                       clones, procfs, want, children, mains, crashed>>
    BY DEF Shutdown, Alive, Running, alloc, user
  <1>3. "stop" \in Labels /\ 1 \in Handle
    BY DEF Labels, Handle, Handles, Pids, Tids, BASE_TID_INDEX
  <1>4. /\ pc' \in [Native -> Labels] /\ pc'[n] = "stop"
        /\ \A m \in Native : m # n => pc'[m] = pc[m]
    BY <1>1, <1>2, <1>3, PcTypes
  <1>5. /\ arg' \in [Native -> Handle] /\ arg'[n] = 1
        /\ \A m \in Native : m # n => arg'[m] = arg[m]
    BY <1>1, <1>2, <1>3, ArgTypes
  <1>6. TypeOK' BY <1>1, <1>2, <1>4, <1>5 DEF TypeOK, tables, Handle, Handles
  <1>7. \A m \in Native : ArgInv(m)' BY <1>1, <1>2, <1>4, <1>5 DEF AnyInv, ArgInv, Creating
  <1>8. pc'[Init0] \notin {"unborn", "start"} BY <1>2, <1>4 DEF AnyInv, Booted
  <1> QED BY <1>2, <1>6, <1>7, <1>8, AnyLocal

LEMMA StopProcessAny ==
  ASSUME AnyInv, NEW n \in Native, StopProcess(n)
  PROVE  AnyInv'
  <1>1. /\ TypeOK /\ pc[n] = "stop" /\ ArgInv(n) /\ arg[n] \in Pids /\ arg[n] # 0
        /\ process_table[arg[n]] # None
    BY DEF StopProcess, Stoppable, AnyInv, ArgInv
  <1>2. /\ process_table' = [process_table EXCEPT ![arg[n]].q.assigned = TRUE,
                                                  ![arg[n]].q.waiters = 0]
        /\ Goto(n, "stopClean")
        /\ UNCHANGED <<thread_table, thread_to_tid, next_pid, next_tid, clones, procfs,
                       openCounter, seen, lost, arg, want, children, mains, crashed, halted>>
        /\ ~halted
    BY DEF StopProcess, Alive, Running, alloc, user
  <1> DEFINE r == process_table[arg[n]]
             q == [r.q EXCEPT !.assigned = TRUE, !.waiters = 0]
  <1>3. r \in PCB /\ r.q \in Queue
    <2>1. r \in PCB BY <1>1 DEF TypeOK
    <2> HIDE DEF r
    <2> QED BY <2>1, RecordSteps
  <1>4. q \in Queue BY <1>3 DEF Queue
  <1>5. /\ process_table'[arg[n]] = [r EXCEPT !.q = q]
        /\ \A p \in Pids : p # arg[n] => process_table'[p] = process_table[p]
    BY <1>1, <1>2, <1>3 DEF TypeOK, PCB, Queue
  <1> HIDE DEF q
  <1>6. process_table'[arg[n]] \in PCB /\ process_table'[arg[n]].io = r.io
    BY <1>3, <1>4, <1>5, PcbWith
  <1>7. process_table' \in [Pids -> PCB \cup {None}] BY <1>1, <1>2, <1>5, <1>6 DEF TypeOK
  <1>8. Streams' \subseteq Streams BY <1>1, <1>5, <1>6 DEF Streams
  <1>9. "stopClean" \in Labels BY DEF Labels
  <1>10. /\ pc' \in [Native -> Labels] /\ pc'[n] = "stopClean"
         /\ \A m \in Native : m # n => pc'[m] = pc[m]
    BY <1>1, <1>2, <1>9, PcTypes
  <1>11. TypeOK' BY <1>1, <1>2, <1>7, <1>10 DEF TypeOK
  <1>12. \A m \in Native : ArgInv(m)' BY <1>1, <1>2, <1>10 DEF AnyInv, ArgInv, Creating
  <1>13. OthersAreNotInit' BY <1>2 DEF AnyInv, OthersAreNotInit
  <1>14. Booted' BY <1>1, <1>2, <1>5, <1>10, HandleSets DEF AnyInv, Booted
  <1>15. Counted' BY <1>1, <1>2, <1>8, <1>11, CountedFewer DEF AnyInv
  <1> QED BY <1>11, <1>12, <1>13, <1>14, <1>15 DEF AnyInv

LEMMA SkipStopAny ==
  ASSUME AnyInv, NEW n \in Native, SkipStop(n)
  PROVE  AnyInv'
  <1>1. TypeOK /\ pc[n] = "stop" /\ ArgInv(n) BY DEF SkipStop, AnyInv
  <1>2. /\ ~halted
        /\ UNCHANGED <<tables, thread_to_tid, openCounter, seen, lost, halted, next_pid, next_tid,
                       clones, procfs, want, children, mains, crashed>>
    BY DEF SkipStop, Alive, Running, alloc, user
  <1>3. PICK l \in {"stop", "user"}, h \in Handle :
          Goto(n, l) /\ SetArg(n, h) /\ h # 0
    <2>1. CASE arg[n] \in Pids /\ SetArg(n, arg[n] + 1) /\ UNCHANGED pc
      <3>1. arg[n] + 1 \in Handle /\ arg[n] + 1 # 0
        BY <2>1 DEF Handle, Handles, Pids, Tids, BASE_TID_INDEX
      <3>2. Goto(n, "stop") BY <1>1, <2>1 DEF Goto, TypeOK
      <3> QED BY <2>1, <3>1, <3>2
    <2>2. CASE SetArg(n, erInvalid_Handle) /\ Goto(n, "user")
      BY <2>2 DEF Handle, erInvalid_Handle
    <2> QED BY <2>1, <2>2 DEF SkipStop
  <1>4. l \in Labels BY DEF Labels
  <1>5. /\ pc' \in [Native -> Labels] /\ pc'[n] = l
        /\ \A m \in Native : m # n => pc'[m] = pc[m]
    BY <1>1, <1>3, <1>4, PcTypes
  <1>6. /\ arg' \in [Native -> Handle] /\ arg'[n] = h
        /\ \A m \in Native : m # n => arg'[m] = arg[m]
    BY <1>1, <1>3, ArgTypes
  <1>7. TypeOK' BY <1>1, <1>2, <1>5, <1>6 DEF TypeOK, tables, Handle, Handles
  <1>8. \A m \in Native : ArgInv(m)'
    BY <1>1, <1>2, <1>3, <1>5, <1>6 DEF AnyInv, ArgInv, Creating
  <1>9. pc'[Init0] \notin {"unborn", "start"} BY <1>2, <1>5 DEF AnyInv, Booted
  <1> QED BY <1>2, <1>7, <1>8, <1>9, AnyLocal

\* What both ends of a thread do besides the records.
LEMMA GoneTypes ==
  ASSUME TypeOK, NEW n \in Native, Gone(n)
  PROVE  /\ children' \in [Native -> SUBSET (Pids \cup Tids)] /\ children'[n] = {}
         /\ \A m \in Native : m # n => children'[m] = children[m]
         /\ thread_to_tid' \in [Native -> Tids \cup {erInvalid_Handle}]
         /\ thread_to_tid'[n] = erInvalid_Handle
         /\ \A m \in Native : m # n => thread_to_tid'[m] = thread_to_tid[m]
         /\ UNCHANGED <<next_pid, next_tid, clones, procfs, openCounter, seen, lost, arg, want,
                        mains, crashed, halted>>
         /\ ~halted
  <1>1. /\ children' = [children EXCEPT ![n] = {}]
        /\ thread_to_tid' = [thread_to_tid EXCEPT ![n] = erInvalid_Handle]
        /\ UNCHANGED <<next_pid, next_tid, clones, procfs, openCounter, seen, lost, arg, want,
                       mains>>
        /\ Alive
    BY DEF Gone, alloc
  <1>2. UNCHANGED <<crashed, halted>> /\ ~halted BY <1>1 DEF Alive, Running
  <1>3. /\ children \in [Native -> SUBSET (Pids \cup Tids)]
        /\ thread_to_tid \in [Native -> Tids \cup {erInvalid_Handle}]
    BY DEF TypeOK
  <1>4. /\ children' \in [Native -> SUBSET (Pids \cup Tids)] /\ children'[n] = {}
        /\ \A m \in Native : m # n => children'[m] = children[m]
    BY <1>1, <1>3
  <1>5. /\ thread_to_tid' \in [Native -> Tids \cup {erInvalid_Handle}]
        /\ thread_to_tid'[n] = erInvalid_Handle
        /\ \A m \in Native : m # n => thread_to_tid'[m] = thread_to_tid[m]
    BY <1>1, <1>3
  <1>6. UNCHANGED <<next_pid, next_tid, clones, procfs, openCounter, seen, lost, arg, want,
                    mains, crashed, halted>>
    BY <1>1, <1>2
  <1> QED BY <1>2, <1>4, <1>5, <1>6

\* The end of a program marks the process and the thread as done.
LEMMA ExitProcessSteps ==
  ASSUME TypeOK, NEW n \in Native, ExitProcess(n), ~Crash,
         NEW p, p = getPid(n), NEW t, t = getTid(n)
  PROVE  /\ p \in Pids /\ process_table[p] \in PCB
         /\ t \in Tids /\ thread_table[t] \in TCB /\ thread_table[t].pid = p
         /\ process_table' \in [Pids -> PCB \cup {None}]
         /\ process_table'[p] = Done(process_table[p])
         /\ \A o \in Pids : o # p => process_table'[o] = process_table[o]
         /\ thread_table' \in [Tids -> TCB \cup {None}]
         /\ \A s \in Tids :
               /\ thread_table[s] = None => thread_table'[s] = None
               /\ thread_table[s] # None =>
                     /\ thread_table'[s] # None
                     /\ thread_table'[s].pid = thread_table[s].pid
                     /\ thread_table'[s].thread = thread_table[s].thread
                     /\ thread_table'[s].q = IF s = t THEN Done(thread_table[t]).q
                                             ELSE thread_table[s].q
                     /\ thread_table'[s].waked_by =
                           IF s \in Elements(thread_table[t].q.waiting_handles) THEN t
                           ELSE IF s \in Elements(process_table[p].q.waiting_handles) THEN p
                           ELSE thread_table[s].waked_by
         /\ PcAfter(n, "unborn", Elements(process_table[p].q.waiting_handles)
                                   \cup Elements(thread_table[t].q.waiting_handles))
         /\ Gone(n)
  <1> DEFINE ps == Elements(process_table[p].q.waiting_handles)
             ts == Elements(thread_table[t].q.waiting_handles)
             done == [thread_table EXCEPT ![t] = Done(@)]
  <1>1. /\ LivePid(n)
        /\ process_table' = [process_table EXCEPT ![p] = Done(@)]
        /\ thread_table' = WakeUp(WakeUp(done, ps, p), ts, t)
        /\ PcAfter(n, "unborn", ps \cup ts)
        /\ Gone(n)
    BY DEF ExitProcess
  <1>2. p \in Pids /\ process_table[p] \in PCB BY <1>1 DEF LivePid, TypeOK
  <1>3. t \in Tids /\ thread_table[t] \in TCB /\ thread_table[t].pid = p
    BY <1>2, HandleSets DEF getPid, getTid, TypeOK, Handles
  <1> HIDE DEF ps, ts
  <1>4. Done(process_table[p]) \in PCB BY <1>2, PcbSteps
  <1>5. /\ process_table' \in [Pids -> PCB \cup {None}]
        /\ process_table'[p] = Done(process_table[p])
        /\ \A o \in Pids : o # p => process_table'[o] = process_table[o]
    BY <1>1, <1>2, <1>4 DEF TypeOK
  <1>6. /\ Done(thread_table[t]) \in TCB /\ Done(thread_table[t]) # None
        /\ Done(thread_table[t]).pid = thread_table[t].pid
        /\ Done(thread_table[t]).thread = thread_table[t].thread
        /\ Done(thread_table[t]).waked_by = thread_table[t].waked_by
    BY <1>3, TcbSteps
  <1>7. /\ done[t] = Done(thread_table[t])
        /\ \A s \in Tids : s # t => done[s] = thread_table[s]
    BY <1>3 DEF TypeOK
  <1>8. done \in [Tids -> TCB \cup {None}] BY <1>3, <1>6, <1>7 DEF TypeOK
  <1> HIDE DEF done
  <1>9. t \in Handle /\ p \in Handle BY <1>2, <1>3 DEF Handle, Handles
  <1>10. thread_table[t] # None BY <1>3, TcbSteps
  <1>11. /\ thread_table' \in [Tids -> TCB \cup {None}]
         /\ \A s \in Tids :
               /\ done[s] = None => thread_table'[s] = None
               /\ done[s] # None =>
                     /\ thread_table'[s] # None /\ thread_table'[s].pid = done[s].pid
                     /\ thread_table'[s].thread = done[s].thread
                     /\ thread_table'[s].q = done[s].q
                     /\ thread_table'[s].waked_by = IF s \in ts THEN t
                           ELSE IF s \in ps THEN p ELSE done[s].waked_by
    BY <1>1, <1>8, <1>9, TwoWakeUps
  <1>12. \A s \in Tids :
               /\ thread_table[s] = None => thread_table'[s] = None
               /\ thread_table[s] # None =>
                     /\ thread_table'[s] # None
                     /\ thread_table'[s].pid = thread_table[s].pid
                     /\ thread_table'[s].thread = thread_table[s].thread
                     /\ thread_table'[s].q = IF s = t THEN Done(thread_table[t]).q
                                             ELSE thread_table[s].q
                     /\ thread_table'[s].waked_by = IF s \in ts THEN t
                           ELSE IF s \in ps THEN p ELSE thread_table[s].waked_by
    BY <1>6, <1>7, <1>10, <1>11
  <1> QED BY <1>1, <1>2, <1>3, <1>5, <1>11, <1>12 DEF ps, ts

LEMMA ExitProcessAny ==
  ASSUME AnyInv, NEW n \in Native, ExitProcess(n)
  PROVE  AnyInv'
  <1>1. TypeOK /\ pc[n] = "user" /\ n # Init0 BY DEF ExitProcess, MayExit, AnyInv
  <1>2. CASE Crash BY <1>2, AnyCrash
  <1>3. CASE ~Crash
    <2>1. PICK p, t : p = getPid(n) /\ t = getTid(n) OBVIOUS
    <2>2. /\ p \in Pids /\ process_table[p] \in PCB
          /\ process_table' \in [Pids -> PCB \cup {None}]
          /\ process_table'[p] = Done(process_table[p])
          /\ \A o \in Pids : o # p => process_table'[o] = process_table[o]
          /\ thread_table' \in [Tids -> TCB \cup {None}]
          /\ \A s \in Tids :
               /\ thread_table[s] = None => thread_table'[s] = None
               /\ thread_table[s] # None =>
                     /\ thread_table'[s] # None
                     /\ thread_table'[s].pid = thread_table[s].pid
          /\ PcAfter(n, "unborn", Elements(process_table[p].q.waiting_handles)
                                    \cup Elements(thread_table[t].q.waiting_handles))
          /\ Gone(n)
      BY <1>1, <1>3, <2>1, ExitProcessSteps
    <2>3. p # 0 BY <1>1, <2>1, PidOfOthers
    <2>4. "unborn" \in Labels BY DEF Labels
    <2>5. /\ pc' \in [Native -> Labels] /\ pc'[n] = "unborn"
          /\ \A m \in Native : m # n =>
                \/ pc'[m] = pc[m]
                \/ pc[m] = "asleep" /\ pc'[m] = "woken"
      BY <1>1, <2>2, <2>4, PcAfterTypes
    <2>6. /\ children' \in [Native -> SUBSET (Pids \cup Tids)] /\ children'[n] = {}
          /\ \A m \in Native : m # n => children'[m] = children[m]
          /\ thread_to_tid' \in [Native -> Tids \cup {erInvalid_Handle}]
          /\ thread_to_tid'[n] = erInvalid_Handle
          /\ \A m \in Native : m # n => thread_to_tid'[m] = thread_to_tid[m]
          /\ UNCHANGED <<next_pid, next_tid, clones, procfs, openCounter, seen, lost, arg, want,
                         mains, crashed, halted>>
          /\ ~halted
      BY <1>1, <2>2, GoneTypes
    <2>7. /\ Done(process_table[p]).io = process_table[p].io
          /\ Done(process_table[p]) # None /\ process_table[p] # None
      BY <2>2, PcbSteps
    <2>8. TypeOK' BY <1>1, <2>2, <2>5, <2>6 DEF TypeOK
    <2>9. \A m \in Native : ArgInv(m)'
      BY <2>5, <2>6, HandleSets DEF AnyInv, ArgInv, Creating, Handles
    <2>10. OthersAreNotInit' BY <2>2 DEF AnyInv, OthersAreNotInit
    <2>11. Booted' BY <1>1, <2>2, <2>3, <2>5, <2>6, HandleSets DEF AnyInv, Booted
    <2>12. Streams' \subseteq Streams BY <2>2, <2>7 DEF Streams
    <2>13. Counted' BY <1>1, <2>6, <2>8, <2>12, CountedFewer DEF AnyInv
    <2> QED BY <2>8, <2>9, <2>10, <2>11, <2>13 DEF AnyInv
  <1> QED BY <1>2, <1>3

LEMMA ExitThreadSteps ==
  ASSUME TypeOK, NEW n \in Native, ExitThread(n), ~Crash, NEW t \in Tids, t = getTid(n)
  PROVE  /\ thread_table[t] \in TCB
         /\ thread_table' \in [Tids -> TCB \cup {None}]
         /\ \A s \in Tids :
               /\ thread_table[s] = None => thread_table'[s] = None
               /\ thread_table[s] # None =>
                     /\ thread_table'[s] # None
                     /\ thread_table'[s].pid = thread_table[s].pid
                     /\ thread_table'[s].thread = thread_table[s].thread
                     /\ thread_table'[s].q = IF s = t THEN Done(thread_table[t]).q
                                             ELSE thread_table[s].q
                     /\ thread_table'[s].waked_by =
                           IF s \in Elements(thread_table[t].q.waiting_handles) THEN t
                           ELSE thread_table[s].waked_by
         /\ PcAfter(n, "unborn", Elements(thread_table[t].q.waiting_handles))
         /\ process_table' = process_table
         /\ Gone(n)
  <1> DEFINE ts == Elements(thread_table[t].q.waiting_handles)
             done == [thread_table EXCEPT ![t] = Done(@)]
  <1>1. /\ thread_table[t] # None
        /\ thread_table' = WakeUp(done, ts, t)
        /\ PcAfter(n, "unborn", ts)
        /\ process_table' = process_table
        /\ Gone(n)
    BY DEF ExitThread
  <1>2. thread_table[t] \in TCB BY <1>1 DEF TypeOK
  <1> HIDE DEF ts
  <1>3. /\ Done(thread_table[t]) \in TCB /\ Done(thread_table[t]) # None
        /\ Done(thread_table[t]).pid = thread_table[t].pid
        /\ Done(thread_table[t]).thread = thread_table[t].thread
        /\ Done(thread_table[t]).waked_by = thread_table[t].waked_by
    BY <1>2, TcbSteps
  <1>4. /\ done[t] = Done(thread_table[t])
        /\ \A s \in Tids : s # t => done[s] = thread_table[s]
    BY DEF TypeOK
  <1>5. done \in [Tids -> TCB \cup {None}] BY <1>3, <1>4 DEF TypeOK
  <1> HIDE DEF done
  <1>6. t \in Handle BY DEF Handle, Handles
  <1>7. /\ thread_table' \in [Tids -> TCB \cup {None}]
        /\ \A s \in Tids :
               /\ done[s] = None => thread_table'[s] = None
               /\ done[s] # None =>
                     /\ thread_table'[s] # None /\ thread_table'[s].pid = done[s].pid
                     /\ thread_table'[s].thread = done[s].thread
                     /\ thread_table'[s].q = done[s].q
                     /\ thread_table'[s].waked_by = IF s \in ts THEN t
                           ELSE done[s].waked_by
    BY <1>1, <1>5, <1>6, WakeUpSteps
  <1>8. \A s \in Tids :
               /\ thread_table[s] = None => thread_table'[s] = None
               /\ thread_table[s] # None =>
                     /\ thread_table'[s] # None
                     /\ thread_table'[s].pid = thread_table[s].pid
                     /\ thread_table'[s].thread = thread_table[s].thread
                     /\ thread_table'[s].q = IF s = t THEN Done(thread_table[t]).q
                                             ELSE thread_table[s].q
                     /\ thread_table'[s].waked_by = IF s \in ts THEN t
                           ELSE thread_table[s].waked_by
    BY <1>1, <1>3, <1>4, <1>7
  <1> QED BY <1>1, <1>2, <1>7, <1>8 DEF ts

LEMMA ExitThreadAny ==
  ASSUME AnyInv, NEW n \in Native, ExitThread(n)
  PROVE  AnyInv'
  <1>1. TypeOK /\ pc[n] = "user" /\ n # Init0 /\ ArgInv(n)
    BY DEF ExitThread, MayExit, AnyInv
  <1>2. CASE Crash BY <1>2, AnyCrash
  <1>3. CASE ~Crash
    <2>1. PICK t \in Tids : t = getTid(n) BY <1>1 DEF ArgInv, getTid
    <2>2. /\ thread_table' \in [Tids -> TCB \cup {None}]
          /\ \A s \in Tids :
               /\ thread_table[s] = None => thread_table'[s] = None
               /\ thread_table[s] # None =>
                     /\ thread_table'[s] # None
                     /\ thread_table'[s].pid = thread_table[s].pid
          /\ PcAfter(n, "unborn", Elements(thread_table[t].q.waiting_handles))
          /\ process_table' = process_table
          /\ Gone(n)
      BY <1>1, <1>3, <2>1, ExitThreadSteps
    <2>3. "unborn" \in Labels BY DEF Labels
    <2>4. /\ pc' \in [Native -> Labels] /\ pc'[n] = "unborn"
          /\ \A m \in Native : m # n =>
                \/ pc'[m] = pc[m]
                \/ pc[m] = "asleep" /\ pc'[m] = "woken"
      BY <1>1, <2>2, <2>3, PcAfterTypes
    <2>5. /\ children' \in [Native -> SUBSET (Pids \cup Tids)] /\ children'[n] = {}
          /\ \A m \in Native : m # n => children'[m] = children[m]
          /\ thread_to_tid' \in [Native -> Tids \cup {erInvalid_Handle}]
          /\ thread_to_tid'[n] = erInvalid_Handle
          /\ \A m \in Native : m # n => thread_to_tid'[m] = thread_to_tid[m]
          /\ UNCHANGED <<next_pid, next_tid, clones, procfs, openCounter, seen, lost, arg, want,
                         mains, crashed, halted>>
          /\ ~halted
      BY <1>1, <2>2, GoneTypes
    <2>6. TypeOK' BY <1>1, <2>2, <2>4, <2>5 DEF TypeOK
    <2>7. \A m \in Native : ArgInv(m)'
      BY <2>4, <2>5, HandleSets DEF AnyInv, ArgInv, Creating, Handles
    <2>8. OthersAreNotInit' BY <2>2 DEF AnyInv, OthersAreNotInit
    <2>9. /\ thread_table'[BASE_TID_INDEX] # None /\ thread_table'[BASE_TID_INDEX].pid = 0
          /\ pc'[Init0] \notin {"unborn", "start"}
          /\ thread_to_tid'[Init0] = BASE_TID_INDEX
      BY <1>1, <2>2, <2>4, <2>5, HandleSets DEF AnyInv, Booted
    <2> QED BY <2>2, <2>5, <2>6, <2>7, <2>8, <2>9, AnyThreads
  <1> QED BY <1>2, <1>3

LEMMA DestructInitAny ==
  ASSUME AnyInv, DestructInit
  PROVE  AnyInv'
  <1>1. TypeOK /\ Counted /\ ~halted /\ Loaded(Init0) BY DEF DestructInit, AnyInv, Running
  <1>2. getPid(Init0) = 0 BY <1>1, PidOfOthers
  <1>3. /\ CleanProcess(Init0, 0, "unborn") /\ halted' = TRUE
        /\ UNCHANGED <<arg, want, children, mains, crashed>>
    BY <1>2 DEF DestructInit, user
  <1>4. process_table[0] # None /\ 0 \in Pids /\ 0 \in Handle
    BY <1>1, HandleSets DEF AnyInv, Booted, Handle, Handles
  <1>5. "unborn" \in Labels BY DEF Labels
  <1>6. /\ process_table' \in [Pids -> PCB \cup {None}]
        /\ thread_table' \in [Tids -> TCB \cup {None}]
        /\ \A t \in Tids :
              /\ thread_table'[t] = None <=> thread_table[t] = None \/ t \in Doomed(0)
              /\ thread_table'[t] # None => thread_table'[t].pid = thread_table[t].pid
        /\ openCounter' \in Nat /\ seen' \in [Native -> Nat \cup {Unseen}]
        /\ TypeOK' => Counted'
        /\ procfs' = procfs \ {0}
        /\ pc' \in [Native -> Labels] /\ pc'[Init0] = "unborn"
        /\ \A m \in Native : m # Init0 =>
              \/ pc'[m] = pc[m]
              \/ pc[m] = "asleep" /\ pc'[m] = "woken"
        /\ UNCHANGED <<thread_to_tid, next_pid, next_tid, clones, lost>>
    BY <1>1, <1>2, <1>3, <1>4, <1>5, CleanProcessSteps
  <1>7. TypeOK' BY <1>1, <1>3, <1>6 DEF TypeOK
  <1>8. \A m \in Native : ArgInv(m)' BY <1>3, <1>6 DEF AnyInv, ArgInv, Creating
  <1>9. OthersAreNotInit' BY <1>6 DEF AnyInv, OthersAreNotInit
  <1> QED BY <1>3, <1>6, <1>7, <1>8, <1>9 DEF AnyInv

LEMMA CloseStreamsAny ==
  ASSUME AnyInv, NEW n \in Native, CloseStreams(n)
  PROVE  AnyInv'
  BY LoadCounterAny DEF CloseStreams

LEMMA AnyStep ==
  ASSUME AnyInv, [Next]_vars
  PROVE  AnyInv'
  <1>1. ASSUME NEW n \in Native, KernelStep(n) PROVE AnyInv'
    BY <1>1, AdvancePidAny, CreateFreePCBAny, InheritStreamsAny, InitialisePCBAny,
       ProgramFoundAny, ProgramNotFoundAny, CreateProcessThreadAny, StartThreadAny, StartRunningAny,
       FallAsleepAny, GetWakeByAny, GetRetValAny, ReadRetValAny, CloseStreamsAny,
       CleanAny, StopProcessAny, StopCleanAny, SkipStopAny DEF KernelStep
  <1>2. ASSUME NEW n \in Native, UserStep(n) PROVE AnyInv'
    BY <1>2, ClonePickPidAny, CreateThreadAny, WaitForAny, ShutdownAny, ExitProcessAny,
       ExitThreadAny DEF UserStep
  <1>3. CASE DestructInit BY <1>3, DestructInitAny
  <1>4. CASE UNCHANGED vars
    BY <1>4 DEF vars, AnyInv, TypeOK, ArgInv, OthersAreNotInit, Booted, Counted,
                CountsAlone, SeenInv, Loaded, StreamsStayOpen, tables, alloc, user
  <1> QED BY <1>1, <1>2, <1>3, <1>4 DEF Next

(* Whatever programs do, the invariant holds: the tables, the numbers and   *)
(* the labels have their types (process.cpp, for all liberties).            *)
THEOREM ProcessTypeCorrect == Spec => []TypeOK
  <1>1. Init => AnyInv BY AnyInit
  <1>2. AnyInv /\ [Next]_vars => AnyInv' BY AnyStep
  <1>3. AnyInv => TypeOK BY DEF AnyInv
  <1> QED BY <1>1, <1>2, <1>3, PTL DEF Spec

(* As long as no two threads count at the same time, no process loses its   *)
(* standard streams to a close too many, whatever else programs do: the     *)
(* descriptor is open at least once per process with it (initialisePCB,     *)
(* cleanProcess). The counter is read and written without a lock, so this   *)
(* is not so of clones and removals that meet in it.                        *)
THEOREM StreamsAreNotLost == CountsAlone => (Spec => []StreamsStayOpen)
  <1> SUFFICES ASSUME CountsAlone PROVE Spec => []StreamsStayOpen OBVIOUS
  <1>1. Init => AnyInv BY AnyInit
  <1>2. AnyInv /\ [Next]_vars => AnyInv' BY AnyStep
  <1>3. AnyInv => StreamsStayOpen BY DEF AnyInv, Counted
  <1> QED BY <1>1, <1>2, <1>3, PTL DEF Spec
-----------------------------------------------------------------------------
(* The inductive invariant, by parts, for programs that wait for one handle *)
(* at a time and take no liberty, but that two of them may count at the     *)
(* same time and that they may ask for a program that does not exist.       *)

WellBehaved ==
    Liberties \subseteq {"count at the same time", "unknown programs"} /\ MaxHandles = 1

Opening == {"advancePid", "createFreePCB"} \cup Creating
Sleeping == {"sleep", "asleep"}
Waiting == Sleeping \cup {"woken", "getRetVal", "blockedRet", "clean"}

QueueOf(h) == IF h \in Pids THEN process_table[h].q ELSE thread_table[h].q

TidOf(n) == IF pc[n] = "start" THEN arg[n] ELSE thread_to_tid[n]
TCBOf(n) == thread_table[TidOf(n)]

\* A thread that runs has a record with its name, not done, of a process that
\* is not done; one that does not has no tid.
BornInv(n) ==
    IF pc[n] = "unborn" THEN thread_to_tid[n] = erInvalid_Handle
    ELSE /\ TidOf(n) \in Tids /\ TCBOf(n) # None
         /\ TCBOf(n).thread = n /\ ~TCBOf(n).q.is_locked
         /\ ~process_table[TCBOf(n).pid].q.is_locked

\* Every thread record is of a process in the table, and of a native thread
\* but for the moment before it is started.
TableInv ==
    \A t \in Tids : thread_table[t] # None =>
        /\ thread_table[t].pid \in Pids /\ process_table[thread_table[t].pid] # None
        /\ thread_table[t].thread = Nobody =>
              \E n \in Native : pc[n] = "startThread" /\ arg[n] = t

\* Only the thread that waits for a handle is in its queue, and not when the
\* program has ended.
Waits(n, h, q) ==
    pc[n] \in Sleeping /\ want[n] = {h} /\ q.waiting_handles = <<thread_to_tid[n]>>

QueueInv(h, q) ==
    /\ q.assigned = q.is_locked
    /\ q.is_locked => q.waiting_handles = <<>> /\ q.waiters <= 1
    /\ q.waiting_handles # <<>> => \E n \in Native : Waits(n, h, q)

QueuesInv ==
    /\ \A p \in Pids : process_table[p] # None => QueueInv(p, process_table[p].q)
    /\ \A t \in Tids : thread_table[t] # None => QueueInv(t, thread_table[t].q)

\* A thread waits for one child; it is in the queue or the child has ended.
WaitInv(n) ==
    /\ IF pc[n] \in Waiting THEN \E h \in children[n] : want[n] = {h} ELSE want[n] = {}
    /\ pc[n] \in Sleeping => \A h \in want[n] :
          QueueOf(h).is_locked \/ QueueOf(h).waiting_handles = <<thread_to_tid[n]>>
    /\ pc[n] = "woken" => /\ TCBOf(n).waked_by \in want[n]
                          /\ QueueOf(TCBOf(n).waked_by).is_locked
    /\ pc[n] \in {"getRetVal", "clean"} => arg[n] \in want[n] /\ QueueOf(arg[n]).is_locked
    /\ pc[n] \notin {"blockedRet", "stop", "stopClean"}

\* What a thread created and has not joined is in the table; a child thread
\* works for the same process.
ChildInv(n) ==
    /\ pc[n] \in {"unborn", "start"} => children[n] = {}
    /\ \A p \in Pids : p \in children[n] => process_table[p] # None
    /\ \A t \in Tids : t \in children[n] =>
          /\ thread_table[t] # None /\ thread_table[t].thread # Nobody
          /\ thread_table[t].pid = TCBOf(n).pid

ChildrenApart ==
    \A m, n \in Native : \A h \in Handles : h \in children[m] /\ h \in children[n] => m = n

\* The record that a thread is about to make, or has made and not yet handed
\* to user code.
CreatorInv(n) ==
    /\ pc[n] \in {"advancePid", "createFreePCB"} =>
          arg[n] \in Pids /\ process_table[arg[n]] = None
    /\ pc[n] \in Creating =>
          /\ arg[n] \in Pids /\ process_table[arg[n]] # None
          /\ process_table[arg[n]].creator = n
          /\ process_table[arg[n]].io = (pc[n] # "initialisePCB")
          /\ ~process_table[arg[n]].q.is_locked
          /\ \A t \in Tids : thread_table[t] # None => thread_table[t].pid # arg[n]
    /\ pc[n] = "startThread" =>
          /\ arg[n] \in Tids /\ thread_table[arg[n]] # None
          /\ thread_table[arg[n]].thread = Nobody
          /\ thread_table[arg[n]].pid = TCBOf(n).pid
          /\ ~thread_table[arg[n]].q.is_locked
    /\ pc[n] \in Creating \cup {"startThread"} => \A m \in Native : arg[n] \notin children[m]

OneCreator ==
    \A m, n \in Native : pc[m] \in Cloning /\ pc[n] \in Cloning => m = n

\* Every process but init is somebody's to join.
OwnedInv ==
    \A p \in Pids : p # 0 /\ process_table[p] # None =>
        \/ \E n \in Native : p \in children[n]
        \/ \E n \in Native : pc[n] \in Creating /\ arg[n] = p

\* There are no more thread records than calls of Clone, and init's.
Records == {t \in Tids : thread_table[t] # None}
RoomInv ==
    /\ Cardinality(Records) <= 1 + clones
    /\ (\E n \in Native : pc[n] \in Opening) => Cardinality(Records) <= clones

Main ==
    /\ \A n \in Native : BornInv(n) /\ WaitInv(n) /\ ChildInv(n) /\ CreatorInv(n)
    /\ ChildrenApart /\ OneCreator /\ TableInv /\ QueuesInv /\ OwnedInv /\ RoomInv

\* The openings are only right when no two threads count at the same time.
Balanced == CountsAlone => OpeningsBalance

Accounts == Balanced /\ ProcfsShowsProcesses

\* The kernel crashes only when a record is to be made and none is free.
CrashedWhenFull == crashed => \A t \in Tids : thread_table[t] # None

FewRecords == crashed => Cardinality(Records) <= MaxClones

IInv ==
    /\ AnyInv
    /\ ~halted => Main
    /\ Accounts /\ JoinReturnsRequested /\ CrashedWhenFull /\ FewRecords
-----------------------------------------------------------------------------
(* What a step leaves as it was.                                            *)

SameThread(m) ==
    /\ pc'[m] = pc[m] /\ arg'[m] = arg[m] /\ thread_to_tid'[m] = thread_to_tid[m]
    /\ want'[m] = want[m] /\ children'[m] = children[m]

\* The records outside R are still there, of the same process and thread.
Stay(R) ==
    /\ \A p \in Pids : p \notin R /\ process_table[p] # None => process_table'[p] # None
    /\ \A t \in Tids : t \notin R /\ thread_table[t] # None =>
          /\ thread_table'[t] # None /\ thread_table'[t].pid = thread_table[t].pid
          /\ thread_table[t].thread # Nobody =>
                thread_table'[t].thread = thread_table[t].thread

\* Those outside R are done if they were.
LocksStay(R) ==
    /\ \A p \in Pids : p \notin R /\ process_table[p] # None =>
          process_table'[p].q.is_locked = process_table[p].q.is_locked
    /\ \A t \in Tids : t \notin R /\ thread_table[t] # None =>
          thread_table'[t].q.is_locked = thread_table[t].q.is_locked

\* The queues are those from before, or of new records.
QueuesStay ==
    /\ \A p \in Pids : process_table'[p] # None =>
          \/ process_table'[p].q = NewQueue
          \/ process_table[p] # None /\ process_table'[p].q = process_table[p].q
    /\ \A t \in Tids : thread_table'[t] # None =>
          \/ thread_table'[t].q = NewQueue
          \/ thread_table[t] # None /\ thread_table'[t].q = thread_table[t].q

LEMMA BornKept ==
  ASSUME TypeOK, TableInv, NEW m \in Native, BornInv(m), pc[m] # "unborn",
         pc'[m] # "unborn", TidOf(m)' = TidOf(m),
         NEW R, TidOf(m) \notin R, TCBOf(m).pid \notin R, Stay(R), LocksStay(R)
  PROVE  BornInv(m)' /\ TCBOf(m).pid = TCBOf(m).pid'
  <1>1. PICK t \in Tids : t = TidOf(m) BY DEF BornInv
  <1>2. /\ thread_table[t] # None /\ thread_table[t].thread = m
        /\ ~thread_table[t].q.is_locked /\ thread_table[t].pid \in Pids
        /\ process_table[thread_table[t].pid] # None
        /\ ~process_table[thread_table[t].pid].q.is_locked
    BY <1>1 DEF BornInv, TCBOf, TableInv
  <1>3. m # Nobody OBVIOUS
  <1>4. /\ thread_table'[t] # None /\ thread_table'[t].pid = thread_table[t].pid
        /\ thread_table'[t].thread = m /\ ~thread_table'[t].q.is_locked
        /\ ~process_table'[thread_table[t].pid].q.is_locked
    BY <1>1, <1>2, <1>3 DEF Stay, LocksStay, TCBOf
  <1> QED BY <1>1, <1>2, <1>4 DEF BornInv, TCBOf

LEMMA ChildKept ==
  ASSUME TypeOK, NEW m \in Native, ChildInv(m), BornInv(m),
         pc[m] \notin {"unborn", "start"}, TCBOf(m).pid = TCBOf(m).pid',
         pc'[m] \notin {"unborn", "start"}, NEW R, Stay(R),
         \A h \in children'[m] : h \in children[m] /\ h \notin R
  PROVE  ChildInv(m)'
  <1>1. \A p \in Pids : p \in children'[m] => process_table'[p] # None
    BY DEF ChildInv, Stay
  <1>2. \A t \in Tids : t \in children'[m] =>
           /\ thread_table'[t] # None /\ thread_table'[t].thread # Nobody
           /\ thread_table'[t].pid = TCBOf(m).pid
    BY DEF ChildInv, Stay
  <1> QED BY <1>1, <1>2 DEF ChildInv

LEMMA ChildlessKept ==
  ASSUME NEW m \in Native, children'[m] = {}
  PROVE  ChildInv(m)'
  BY DEF ChildInv

\* Whoever sleeps goes on sleeping for the same handle.
SleepersStay ==
    \A m \in Native : pc[m] \in Sleeping =>
        pc'[m] \in Sleeping /\ want'[m] = want[m] /\ thread_to_tid'[m] = thread_to_tid[m]

LEMMA QueueKept ==
  ASSUME NEW h, NEW q, QueueInv(h, q), SleepersStay
  PROVE  QueueInv(h, q)'
  BY DEF QueueInv, Waits, SleepersStay

LEMMA QueuesKept ==
  ASSUME QueuesInv, QueuesStay, SleepersStay
  PROVE  QueuesInv'
  <1>1. /\ NewQueue.assigned = NewQueue.is_locked /\ ~NewQueue.is_locked
        /\ NewQueue.waiting_handles = <<>>
    BY DEF NewQueue
  <1>2. ASSUME NEW p \in Pids, process_table'[p] # None
        PROVE  QueueInv(p, process_table[p].q)'
    <2>1. CASE process_table'[p].q = NewQueue BY <1>1, <2>1 DEF QueueInv
    <2>2. CASE process_table[p] # None /\ process_table'[p].q = process_table[p].q
      <3>1. PICK q : q = process_table[p].q /\ QueueInv(p, q) BY <2>2 DEF QueuesInv
      <3>2. QueueInv(p, q)' BY <3>1, QueueKept
      <3> QED BY <2>2, <3>1, <3>2 DEF QueueInv
    <2> QED BY <1>2, <2>1, <2>2 DEF QueuesStay
  <1>3. ASSUME NEW t \in Tids, thread_table'[t] # None
        PROVE  QueueInv(t, thread_table[t].q)'
    <2>1. CASE thread_table'[t].q = NewQueue BY <1>1, <2>1 DEF QueueInv
    <2>2. CASE thread_table[t] # None /\ thread_table'[t].q = thread_table[t].q
      <3>1. PICK q : q = thread_table[t].q /\ QueueInv(t, q) BY <2>2 DEF QueuesInv
      <3>2. QueueInv(t, q)' BY <3>1, QueueKept
      <3> QED BY <2>2, <3>1, <3>2 DEF QueueInv
    <2> QED BY <1>3, <2>1, <2>2 DEF QueuesStay
  <1> QED BY <1>2, <1>3 DEF QueuesInv

\* A handle that somebody waits for is a child's, so that its record is there.
LEMMA WantedHere ==
  ASSUME TypeOK, NEW m \in Native, WaitInv(m), ChildInv(m), NEW h \in want[m]
  PROVE  /\ pc[m] \in Waiting /\ want[m] = {h} /\ h \in children[m] /\ h \in Handles
         /\ h \in Pids => process_table[h] # None /\ QueueOf(h) = process_table[h].q
         /\ h \in Tids => thread_table[h] # None /\ QueueOf(h) = thread_table[h].q
  <1>1. pc[m] \in Waiting /\ want[m] = {h} /\ h \in children[m] BY DEF WaitInv
  <1>2. h \in Handles BY <1>1 DEF TypeOK, Handles
  <1> QED BY <1>1, <1>2, HandleSets DEF ChildInv, QueueOf

LEMMA WaitKept ==
  ASSUME TypeOK, NEW m \in Native, WaitInv(m), ChildInv(m), SameThread(m),
         \A h \in want[m] : /\ QueueOf(h).is_locked => QueueOf(h)'.is_locked
                            /\ QueueOf(h)'.waiting_handles = QueueOf(h).waiting_handles
                               \/ QueueOf(h)'.is_locked,
         pc[m] = "woken" => TCBOf(m)'.waked_by = TCBOf(m).waked_by
  PROVE  WaitInv(m)'
  <1>1. IF pc'[m] \in Waiting THEN \E h \in children'[m] : want'[m] = {h}
        ELSE want'[m] = {}
    BY DEF WaitInv, SameThread
  <1>2. pc'[m] \in Sleeping => \A h \in want'[m] :
          QueueOf(h)'.is_locked \/ QueueOf(h)'.waiting_handles = <<thread_to_tid'[m]>>
    BY DEF WaitInv, SameThread
  <1>3. pc'[m] = "woken" => /\ TCBOf(m).waked_by' \in want'[m]
                            /\ QueueOf(TCBOf(m).waked_by)'.is_locked
    <2>1. SUFFICES ASSUME pc[m] = "woken"
                   PROVE  /\ TCBOf(m).waked_by' \in want[m]
                          /\ QueueOf(TCBOf(m).waked_by)'.is_locked
      BY DEF SameThread
    <2>2. PICK h : h = TCBOf(m).waked_by OBVIOUS
    <2>3. h \in want[m] /\ QueueOf(h).is_locked BY <2>1, <2>2 DEF WaitInv
    <2>4. QueueOf(h)'.is_locked BY <2>3
    <2>5. TCBOf(m)'.waked_by = h BY <2>1, <2>2
    <2> QED BY <2>3, <2>4, <2>5 DEF QueueOf
  <1>4. pc'[m] \in {"getRetVal", "clean"} =>
           arg'[m] \in want'[m] /\ QueueOf(arg[m])'.is_locked
    <2>1. SUFFICES ASSUME pc[m] \in {"getRetVal", "clean"}
                   PROVE  arg'[m] \in want[m] /\ QueueOf(arg[m])'.is_locked
      BY DEF SameThread
    <2>2. PICK h : h = arg[m] OBVIOUS
    <2>3. h \in want[m] /\ QueueOf(h).is_locked BY <2>1, <2>2 DEF WaitInv
    <2>4. QueueOf(h)'.is_locked BY <2>3
    <2>5. arg'[m] = h BY <2>1, <2>2 DEF SameThread
    <2> QED BY <2>3, <2>4, <2>5 DEF QueueOf
  <1>5. pc'[m] \notin {"blockedRet", "stop", "stopClean"} BY DEF WaitInv, SameThread
  <1> QED BY <1>1, <1>2, <1>3, <1>4, <1>5 DEF WaitInv

\* A thread that creates keeps what it is making, if no record is made.
LEMMA CreatorKept ==
  ASSUME TypeOK, NEW m \in Native, CreatorInv(m), BornInv(m), SameThread(m),
         pc[m] # "unborn" => TCBOf(m).pid = TCBOf(m).pid',
         \A p \in Pids :
            /\ process_table[p] = None => process_table'[p] = None
            /\ process_table'[p] # None =>
                  /\ process_table'[p].creator = process_table[p].creator
                  /\ process_table'[p].io = process_table[p].io,
         \A t \in Tids :
            /\ thread_table[t] = None => thread_table'[t] = None
            /\ thread_table'[t] # None => thread_table'[t].pid = thread_table[t].pid
                                          /\ thread_table'[t].thread = thread_table[t].thread,
         NEW R, Stay(R), LocksStay(R), pc[m] \in Cloning => arg[m] \notin R,
         \A k \in Native : children'[k] \subseteq children[k]
  PROVE  CreatorInv(m)'
  <1>1. pc[m] \in {"advancePid", "createFreePCB"} =>
           arg[m] \in Pids /\ process_table'[arg[m]] = None
    BY DEF CreatorInv
  <1>2. pc[m] \in Creating =>
          /\ arg[m] \in Pids /\ process_table'[arg[m]] # None
          /\ process_table'[arg[m]].creator = m
          /\ process_table'[arg[m]].io = (pc[m] # "initialisePCB")
          /\ ~process_table'[arg[m]].q.is_locked
          /\ \A t \in Tids : thread_table'[t] # None => thread_table'[t].pid # arg[m]
    BY DEF CreatorInv, Stay, LocksStay, Creating, Cloning
  <1>3. pc[m] = "startThread" =>
          /\ arg[m] \in Tids /\ thread_table'[arg[m]] # None
          /\ thread_table'[arg[m]].thread = Nobody
          /\ thread_table'[arg[m]].pid = TCBOf(m).pid'
          /\ ~thread_table'[arg[m]].q.is_locked
    BY DEF CreatorInv, Stay, LocksStay, Cloning
  <1>4. pc[m] \in Creating \cup {"startThread"} => \A k \in Native : arg[m] \notin children'[k]
    BY DEF CreatorInv
  <1> QED BY <1>1, <1>2, <1>3, <1>4 DEF CreatorInv, SameThread, TCBOf

LEMMA NotCloning ==
  ASSUME NEW m \in Native, pc'[m] \notin Cloning
  PROVE  CreatorInv(m)'
  BY DEF CreatorInv, Cloning, Creating
-----------------------------------------------------------------------------
(* Programs that take no liberty, step by step.                             *)

LEMMA ThreadHere ==
  ASSUME TypeOK, TableInv, NEW m \in Native, BornInv(m), pc[m] # "unborn"
  PROVE  /\ TidOf(m) \in Tids /\ TCBOf(m) \in TCB /\ TCBOf(m) # None
         /\ TCBOf(m) = thread_table[TidOf(m)] /\ TCBOf(m).thread = m
         /\ TCBOf(m).pid \in Pids /\ process_table[TCBOf(m).pid] # None
         /\ process_table[TCBOf(m).pid] \in PCB
         /\ ~TCBOf(m).q.is_locked /\ ~process_table[TCBOf(m).pid].q.is_locked
         /\ pc[m] # "start" => /\ TidOf(m) = thread_to_tid[m] /\ LivePid(m)
                               /\ getPid(m) = TCBOf(m).pid
  <1>1. /\ TidOf(m) \in Tids /\ TCBOf(m) # None /\ TCBOf(m) = thread_table[TidOf(m)]
        /\ TCBOf(m).thread = m
        /\ ~TCBOf(m).q.is_locked /\ ~process_table[TCBOf(m).pid].q.is_locked
    BY DEF BornInv, TCBOf
  <1>2. TCBOf(m) \in TCB BY <1>1 DEF TypeOK
  <1>3. TCBOf(m).pid \in Pids /\ process_table[TCBOf(m).pid] # None
    BY <1>1 DEF TableInv
  <1>4. process_table[TCBOf(m).pid] \in PCB BY <1>3 DEF TypeOK
  <1>5. pc[m] # "start" => TidOf(m) = thread_to_tid[m] BY DEF TidOf
  <1>6. pc[m] # "start" => getPid(m) = TCBOf(m).pid
    BY <1>1, <1>5, HandleSets DEF getPid, getTid, Handles
  <1> QED BY <1>1, <1>2, <1>3, <1>4, <1>5, <1>6 DEF LivePid

\* Two threads have different tids.
LEMMA TidsDiffer ==
  ASSUME NEW m \in Native, NEW n \in Native, BornInv(m), BornInv(n),
         pc[m] # "unborn", pc[n] # "unborn", TidOf(m) = TidOf(n)
  PROVE  m = n
  BY DEF BornInv, TCBOf

\* The records are there as before, and in the queues nothing is lost.
Quiet(R) == Stay(R) /\ LocksStay(R)

LEMMA OtherKept ==
  ASSUME TypeOK, TableInv, NEW m \in Native, BornInv(m), WaitInv(m), ChildInv(m),
         SameThread(m), NEW R, Quiet(R),
         pc[m] # "unborn" => TidOf(m) \notin R /\ TCBOf(m).pid \notin R,
         \A h \in children[m] : h \notin R,
         \A h \in want[m] : QueueOf(h)' = QueueOf(h),
         pc[m] = "woken" => TCBOf(m)'.waked_by = TCBOf(m).waked_by
  PROVE  /\ BornInv(m)' /\ WaitInv(m)' /\ ChildInv(m)'
         /\ pc[m] # "unborn" => TCBOf(m).pid = TCBOf(m).pid'
  <1>1. WaitInv(m)' BY WaitKept
  <1>2. CASE pc[m] = "unborn"
    <2>1. children'[m] = {} BY <1>2 DEF ChildInv, SameThread
    <2> QED BY <1>1, <1>2, <2>1, ChildlessKept DEF BornInv, SameThread
  <1>3. CASE pc[m] # "unborn"
    <2>1. TidOf(m)' = TidOf(m) /\ pc'[m] # "unborn" BY <1>3 DEF TidOf, SameThread
    <2>2. BornInv(m)' /\ TCBOf(m).pid = TCBOf(m).pid'
      BY <1>3, <2>1, BornKept DEF Quiet
    <2>3. CASE pc[m] = "start"
      <3>1. children'[m] = {} BY <2>3 DEF ChildInv, SameThread
      <3> QED BY <1>1, <2>2, <3>1, ChildlessKept
    <2>4. CASE pc[m] # "start"
      <3>1. pc'[m] \notin {"unborn", "start"} BY <1>3, <2>4 DEF SameThread
      <3>2. \A h \in children'[m] : h \in children[m] /\ h \notin R BY DEF SameThread
      <3>3. ChildInv(m)' BY <1>3, <2>2, <2>4, <3>1, <3>2, ChildKept DEF Quiet
      <3> QED BY <1>1, <2>2, <3>3
    <2> QED BY <2>3, <2>4
  <1> QED BY <1>2, <1>3

\* A thread in the middle of its work that goes on.
LEMMA SelfKept ==
  ASSUME TypeOK, TableInv, NEW m \in Native, BornInv(m), ChildInv(m),
         pc[m] \notin {"unborn", "start"}, pc'[m] \notin {"unborn", "start"},
         thread_to_tid'[m] = thread_to_tid[m], NEW R, Quiet(R),
         TidOf(m) \notin R, TCBOf(m).pid \notin R,
         \A h \in children'[m] : h \in children[m] /\ h \notin R
  PROVE  /\ BornInv(m)' /\ ChildInv(m)' /\ TCBOf(m).pid = TCBOf(m).pid'
  <1>1. TidOf(m)' = TidOf(m) BY DEF TidOf
  <1>2. BornInv(m)' /\ TCBOf(m).pid = TCBOf(m).pid' BY <1>1, BornKept DEF Quiet
  <1> QED BY <1>2, ChildKept DEF Quiet

\* A step in which nothing but one thread's place and handle changes.
Moves(n) ==
    /\ UNCHANGED <<process_table, thread_table, thread_to_tid, want, children>>
    /\ \A m \in Native : m # n => pc'[m] = pc[m] /\ arg'[m] = arg[m]

LEMMA MoveKept ==
  ASSUME TypeOK, Main, NEW n \in Native, Moves(n),
         pc[n] \notin {"unborn", "start"}, pc'[n] \notin {"unborn", "start"},
         WaitInv(n)', CreatorInv(n)'
  PROVE  /\ \A m \in Native : BornInv(m)' /\ WaitInv(m)' /\ ChildInv(m)' /\ CreatorInv(m)'
         /\ ChildrenApart'
  <1>1. Quiet({}) BY DEF Quiet, Stay, LocksStay, Moves
  <1>2. TableInv /\ BornInv(n) /\ ChildInv(n) BY DEF Main
  <1>3. BornInv(n)' /\ ChildInv(n)' BY <1>1, <1>2, SelfKept DEF Moves
  <1>4. ASSUME NEW m \in Native, m # n
        PROVE  BornInv(m)' /\ WaitInv(m)' /\ ChildInv(m)' /\ CreatorInv(m)'
    <2>1. BornInv(m) /\ WaitInv(m) /\ ChildInv(m) /\ CreatorInv(m) BY DEF Main
    <2>2. SameThread(m) BY <1>4 DEF Moves, SameThread
    <2>3. \A h : QueueOf(h)' = QueueOf(h) BY DEF QueueOf, Moves
    <2>4. TCBOf(m)' = TCBOf(m) BY <2>2 DEF TCBOf, TidOf, SameThread, Moves
    <2>5. BornInv(m)' /\ WaitInv(m)' /\ ChildInv(m)'
      BY <1>1, <1>2, <2>1, <2>2, <2>3, <2>4, OtherKept
    <2>6. CreatorInv(m)'
      BY <2>1, <2>2, <2>4 DEF CreatorInv, SameThread, Moves
    <2> QED BY <2>5, <2>6
  <1>5. ChildrenApart' BY DEF Main, ChildrenApart, Moves
  <1> QED BY <1>3, <1>4, <1>5

LEMMA ClonePickPidMain ==
  ASSUME WellBehaved, AnyInv, Main, Accounts, NEW n \in Native, ClonePickPid(n)
  PROVE  Main' /\ Accounts'
  <1>1. TypeOK /\ pc[n] = "user" /\ clones' = clones + 1 /\ getNextFreePid \in Pids
    BY DEF WellBehaved, AnyInv, ClonePickPid, MayClone
  <1>2. \A m \in Native : pc[m] \notin Cloning
    BY DEF WellBehaved, ClonePickPid, MayClone
  <1>3. UNCHANGED <<process_table, thread_table, thread_to_tid, want, children, procfs,
                    openCounter, seen, lost>>
    BY DEF ClonePickPid, tables, user
  <1>4. /\ pc'[n] = "advancePid" /\ arg'[n] = getNextFreePid
        /\ \A m \in Native : m # n => pc'[m] = pc[m] /\ arg'[m] = arg[m]
    BY <1>1 DEF ClonePickPid, Goto, SetArg, TypeOK
  <1>5. process_table[getNextFreePid] = None BY <1>1, FreePid, HandleSets DEF Handles
  <1>6. Moves(n) BY <1>3, <1>4 DEF Moves
  <1>7. WaitInv(n)' BY <1>1, <1>3, <1>4 DEF Main, WaitInv, Waiting, Sleeping
  <1>8. CreatorInv(n)' BY <1>1, <1>3, <1>4, <1>5 DEF CreatorInv, Creating
  <1>9. /\ \A m \in Native : BornInv(m)' /\ WaitInv(m)' /\ ChildInv(m)' /\ CreatorInv(m)'
        /\ ChildrenApart'
    BY <1>1, <1>4, <1>6, <1>7, <1>8, MoveKept
  <1>10. OneCreator' BY <1>2, <1>4 DEF OneCreator
  <1>11. TableInv' BY <1>1, <1>3, <1>4 DEF Main, TableInv
  <1>12. QueuesStay BY <1>3 DEF QueuesStay
  <1>13. QueuesInv' BY <1>1, <1>3, <1>4, <1>12, QueuesKept DEF SleepersStay, Main, Sleeping
  <1>14. OwnedInv' BY <1>1, <1>3, <1>4 DEF Main, OwnedInv, Creating
  <1>15. RoomInv'
    <2>1. Records' = Records BY <1>3 DEF Records
    <2>2. IsFiniteSet(Records) /\ Cardinality(Records) \in Nat
      BY FiniteTables, FS_Subset, FS_CardinalityType DEF Records
    <2>3. Cardinality(Records) <= 1 + clones BY DEF Main, RoomInv
    <2> QED BY <1>1, <2>1, <2>2, <2>3 DEF RoomInv, TypeOK
  <1>16. Accounts'
    <2>1. \A m \in Native : pc[m] \notin {"initialisePCB", "loadProgram"}
                            /\ pc'[m] \notin {"initialisePCB", "loadProgram"}
      BY <1>2, <1>4 DEF Cloning
    <2> QED BY <1>3, <2>1 DEF Accounts, Balanced, OpeningsBalance, ProcfsShowsProcesses
  <1> QED BY <1>9, <1>10, <1>11, <1>13, <1>14, <1>15, <1>16 DEF Main

LEMMA RecordsCount ==
  ASSUME TypeOK
  PROVE  IsFiniteSet(Records) /\ Cardinality(Records) \in Nat /\ clones \in Nat
  <1>1. Records \subseteq Tids BY DEF Records
  <1> QED BY <1>1, FiniteTables, FS_Subset, FS_CardinalityType DEF TypeOK

LEMMA MoveRest ==
  ASSUME TypeOK, Main, NEW n \in Native, Moves(n), clones' = clones,
         pc[n] \in Sleeping => pc'[n] \in Sleeping,
         pc'[n] \in Cloning => pc[n] \in Cloning,
         pc'[n] \in Opening => pc[n] \in Opening,
         pc[n] \in Creating => pc'[n] \in Creating /\ arg'[n] = arg[n],
         pc[n] # "startThread"
  PROVE  OneCreator' /\ TableInv' /\ QueuesInv' /\ OwnedInv' /\ RoomInv'
  <1>1. OneCreator' BY DEF Main, OneCreator, Moves
  <1>2. TableInv' BY DEF Main, TableInv, Moves
  <1>3. QueuesStay BY DEF QueuesStay, Moves
  <1>4. QueuesInv' BY <1>3, QueuesKept DEF SleepersStay, Main, Moves
  <1>5. OwnedInv'
    <2>1. \A p \in Pids : (\E m \in Native : pc[m] \in Creating /\ arg[m] = p)
             => \E m \in Native : pc'[m] \in Creating /\ arg'[m] = p
      BY DEF Moves
    <2> QED BY <2>1 DEF Main, OwnedInv, Moves
  <1>6. RoomInv'
    <2>1. Records' = Records BY DEF Records, Moves
    <2> QED BY <2>1 DEF Main, RoomInv, Moves
  <1> QED BY <1>1, <1>2, <1>4, <1>5, <1>6

LEMMA AdvancePidMain ==
  ASSUME WellBehaved, AnyInv, Main, Accounts, NEW n \in Native, AdvancePid(n)
  PROVE  Main' /\ Accounts'
  <1>1. TypeOK /\ pc[n] = "advancePid" BY DEF AnyInv, AdvancePid
  <1>2. UNCHANGED <<process_table, thread_table, thread_to_tid, want, children, procfs,
                    openCounter, seen, lost, clones, arg>>
    BY DEF AdvancePid, tables, user
  <1>3. pc'[n] = "createFreePCB" /\ \A m \in Native : m # n => pc'[m] = pc[m]
    BY <1>1 DEF AdvancePid, Goto, TypeOK
  <1>4. Moves(n) BY <1>2, <1>3 DEF Moves
  <1>5. WaitInv(n)' BY <1>1, <1>2, <1>3 DEF Main, WaitInv, Waiting, Sleeping
  <1>6. CreatorInv(n)' BY <1>1, <1>2, <1>3 DEF Main, CreatorInv, Creating
  <1>7. /\ \A m \in Native : BornInv(m)' /\ WaitInv(m)' /\ ChildInv(m)' /\ CreatorInv(m)'
        /\ ChildrenApart'
    BY <1>1, <1>3, <1>4, <1>5, <1>6, MoveKept
  <1>8. OneCreator' /\ TableInv' /\ QueuesInv' /\ OwnedInv' /\ RoomInv'
    BY <1>1, <1>2, <1>3, <1>4, MoveRest DEF Sleeping, Cloning, Opening, Creating
  <1>9. Accounts'
    BY <1>1, <1>2, <1>3 DEF Accounts, Balanced, OpeningsBalance, ProcfsShowsProcesses
  <1> QED BY <1>7, <1>8, <1>9 DEF Main

LEMMA ProgramFoundMain ==
  ASSUME WellBehaved, AnyInv, Main, Accounts, NEW n \in Native, ProgramFound(n)
  PROVE  Main' /\ Accounts'
  <1>1. TypeOK /\ pc[n] = "loadProgram" BY DEF AnyInv, ProgramFound
  <1>2. UNCHANGED <<process_table, thread_table, thread_to_tid, want, children,
                    openCounter, seen, lost, clones, arg>>
        /\ procfs' = procfs \cup {arg[n]}
    BY DEF ProgramFound, tables, user, alloc
  <1>3. pc'[n] = "createProcessThread" /\ \A m \in Native : m # n => pc'[m] = pc[m]
    BY <1>1 DEF ProgramFound, Goto, TypeOK
  <1>4. Moves(n) BY <1>2, <1>3 DEF Moves
  <1>5. WaitInv(n)' BY <1>1, <1>2, <1>3 DEF Main, WaitInv, Waiting, Sleeping
  <1>6. CreatorInv(n) BY DEF Main
  <1>7. CreatorInv(n)' BY <1>1, <1>2, <1>3, <1>6 DEF CreatorInv, Creating
  <1>8. /\ \A m \in Native : BornInv(m)' /\ WaitInv(m)' /\ ChildInv(m)' /\ CreatorInv(m)'
        /\ ChildrenApart'
    BY <1>1, <1>3, <1>4, <1>5, <1>7, MoveKept
  <1>9. OneCreator' /\ TableInv' /\ QueuesInv' /\ OwnedInv' /\ RoomInv'
    BY <1>1, <1>2, <1>3, <1>4, MoveRest DEF Sleeping, Cloning, Opening, Creating
  <1>10. arg[n] \in Pids /\ arg[n] # 0 /\ process_table[arg[n]] # None
    BY <1>1, <1>6 DEF CreatorInv, Creating, AnyInv, ArgInv
  <1>11. \A m \in Native : m # n => pc[m] \notin {"initialisePCB", "loadProgram"}
    BY <1>1 DEF Main, OneCreator, Cloning
  <1>12. ProcfsShowsProcesses'
    <2> DEFINE shown == {p \in Pids \ {0} : process_table[p] # None}
               hidden == {arg[m] : m \in {m \in Native :
                                     pc[m] \in {"initialisePCB", "loadProgram"}}}
    <2>1. hidden = {arg[n]} BY <1>1, <1>11
    <2>2. hidden' = {} BY <1>3, <1>11
    <2>3. shown' = shown /\ arg[n] \in shown BY <1>2, <1>10
    <2>4. procfs = shown \ hidden BY DEF Accounts, ProcfsShowsProcesses
    <2> HIDE DEF shown, hidden
    <2>5. procfs' = shown' \ hidden' BY <1>2, <2>1, <2>2, <2>3, <2>4
    <2> QED BY <2>5 DEF ProcfsShowsProcesses, shown, hidden
  <1>13. Accounts' BY <1>2, <1>12 DEF Accounts, Balanced, OpeningsBalance
  <1> QED BY <1>8, <1>9, <1>13 DEF Main

LEMMA FallAsleepMain ==
  ASSUME WellBehaved, AnyInv, Main, Accounts, NEW n \in Native, FallAsleep(n)
  PROVE  ~Crash /\ Main' /\ Accounts'
  <1>1. TypeOK /\ pc[n] = "sleep" /\ BornInv(n) /\ WaitInv(n) /\ TableInv
    BY DEF AnyInv, FallAsleep, Main
  <1>2. thread_table[getTid(n)] # None
    BY <1>1, ThreadHere DEF getTid
  <1>3. /\ UNCHANGED <<process_table, thread_table, thread_to_tid, want, children,
                       openCounter, seen, lost, procfs, clones, arg, crashed>>
        /\ Goto(n, "asleep") /\ ~crashed
    BY <1>2 DEF FallAsleep, tables, user, alloc, Alive, Running
  <1>4. pc'[n] = "asleep" /\ \A m \in Native : m # n => pc'[m] = pc[m]
    BY <1>1, <1>3 DEF Goto, TypeOK
  <1>5. Moves(n) BY <1>3, <1>4 DEF Moves
  <1>6. WaitInv(n)' BY <1>1, <1>3, <1>4 DEF WaitInv, Waiting, Sleeping, QueueOf
  <1>7. CreatorInv(n)' BY <1>4, NotCloning DEF Cloning
  <1>8. /\ \A m \in Native : BornInv(m)' /\ WaitInv(m)' /\ ChildInv(m)' /\ CreatorInv(m)'
        /\ ChildrenApart'
    BY <1>1, <1>4, <1>5, <1>6, <1>7, MoveKept
  <1>9. OneCreator' /\ TableInv' /\ QueuesInv' /\ OwnedInv' /\ RoomInv'
    BY <1>1, <1>3, <1>4, <1>5, MoveRest DEF Sleeping, Cloning, Opening, Creating
  <1>10. Accounts'
    BY <1>1, <1>3, <1>4 DEF Accounts, Balanced, OpeningsBalance, ProcfsShowsProcesses
  <1>11. ~Crash BY <1>3 DEF Crash
  <1> QED BY <1>8, <1>9, <1>10, <1>11 DEF Main

LEMMA OnlyCreator ==
  ASSUME Main, NEW n \in Native, pc[n] \in Cloning, NEW m \in Native, m # n
  PROVE  pc[m] \notin Cloning
  BY DEF Main, OneCreator

\* A step that touches no record with a queue somebody waits in.
LEMMA WantsKept ==
  ASSUME TypeOK, NEW m \in Native, WaitInv(m), ChildInv(m),
         \A p \in Pids : process_table[p] # None =>
            process_table'[p].q = process_table[p].q,
         \A t \in Tids : thread_table[t] # None =>
            thread_table'[t].q = thread_table[t].q
  PROVE  \A h \in want[m] : QueueOf(h)' = QueueOf(h)
  <1>1. ASSUME NEW h \in want[m] PROVE QueueOf(h)' = QueueOf(h)
    <2>1. /\ h \in Handles
          /\ h \in Pids => process_table[h] # None
          /\ h \in Tids => thread_table[h] # None
      BY WantedHere
    <2> QED BY <2>1 DEF QueueOf, Handles
  <1> QED BY <1>1

LEMMA CreateFreePCBMain ==
  ASSUME WellBehaved, AnyInv, Main, Accounts, NEW n \in Native, CreateFreePCB(n)
  PROVE  ~Crash /\ Main' /\ Accounts'
  <1>1. /\ TypeOK /\ pc[n] = "createFreePCB" /\ BornInv(n) /\ WaitInv(n) /\ TableInv
        /\ CreatorInv(n) /\ ChildInv(n)
    BY DEF AnyInv, CreateFreePCB, Main
  <1>2. arg[n] \in Pids /\ arg[n] # 0 /\ process_table[arg[n]] = None
    BY <1>1 DEF CreatorInv, AnyInv, ArgInv
  <1>3. PICK h \in Pids : h = arg[n] /\ h # 0 /\ process_table[h] = None BY <1>2
  <1>4. /\ process_table' = [process_table EXCEPT ![h] =
                [creator |-> n, io |-> FALSE, q |-> NewQueue]]
        /\ UNCHANGED <<thread_table, thread_to_tid, want, children,
                       openCounter, seen, lost, procfs, clones, arg, crashed>>
        /\ Goto(n, "initialisePCB") /\ ~crashed
    BY <1>3 DEF CreateFreePCB, user, alloc, Alive, Running
  <1>5. pc'[n] = "initialisePCB" /\ \A m \in Native : m # n => pc'[m] = pc[m]
    BY <1>1, <1>4 DEF Goto, TypeOK
  <1>6. [creator |-> n, io |-> FALSE, q |-> NewQueue] # None BY NewRecords
  <1>7. /\ process_table'[h] # None /\ process_table'[h].creator = n
        /\ process_table'[h].io = FALSE /\ process_table'[h].q = NewQueue
        /\ \A p \in Pids : p # h => process_table'[p] = process_table[p]
    BY <1>1, <1>4, <1>6 DEF TypeOK
  <1>8. Quiet({}) BY <1>3, <1>4, <1>7 DEF Quiet, Stay, LocksStay
  <1>9. BornInv(n)' /\ ChildInv(n)' BY <1>1, <1>4, <1>5, <1>8, SelfKept
  <1>10. WaitInv(n)' BY <1>1, <1>4, <1>5 DEF WaitInv, Waiting, Sleeping
  <1>11. CreatorInv(n)'
    <2>1. \A t \in Tids : thread_table'[t] # None => thread_table'[t].pid # h
      BY <1>1, <1>3, <1>4 DEF TableInv
    <2>2. \A m \in Native : h \notin children'[m] BY <1>3, <1>4 DEF Main, ChildInv
    <2>3. ~process_table'[h].q.is_locked BY <1>7 DEF NewQueue
    <2> QED BY <1>3, <1>4, <1>5, <1>7, <2>1, <2>2, <2>3 DEF CreatorInv, Creating
  <1>12. ASSUME NEW m \in Native, m # n
         PROVE  BornInv(m)' /\ WaitInv(m)' /\ ChildInv(m)' /\ CreatorInv(m)'
    <2>1. BornInv(m) /\ WaitInv(m) /\ ChildInv(m) BY DEF Main
    <2>2. SameThread(m) BY <1>4, <1>5, <1>12 DEF SameThread
    <2>3. \A x \in want[m] : QueueOf(x)' = QueueOf(x)
      BY <1>1, <1>3, <1>4, <1>7, <2>1, WantsKept
    <2>4. TCBOf(m)' = TCBOf(m) BY <1>4, <2>2 DEF TCBOf, TidOf, SameThread
    <2>5. BornInv(m)' /\ WaitInv(m)' /\ ChildInv(m)'
      BY <1>1, <1>8, <2>1, <2>2, <2>3, <2>4, OtherKept
    <2>6. pc'[m] \notin Cloning BY <1>1, <1>5, <1>12, OnlyCreator DEF Cloning
    <2> QED BY <2>5, <2>6, NotCloning
  <1>13. ChildrenApart' BY <1>4 DEF Main, ChildrenApart
  <1>14. OneCreator' BY <1>1, <1>5 DEF Main, OneCreator, Cloning
  <1>15. TableInv'
    <2>1. ASSUME NEW t \in Tids, thread_table'[t] # None
          PROVE  /\ thread_table'[t].pid \in Pids /\ process_table'[thread_table'[t].pid] # None
                 /\ thread_table'[t].thread = Nobody =>
                       \E k \in Native : pc'[k] = "startThread" /\ arg'[k] = t
      <3>1. /\ thread_table[t].pid \in Pids /\ process_table[thread_table[t].pid] # None
            /\ thread_table[t].thread = Nobody =>
                       \E k \in Native : pc[k] = "startThread" /\ arg[k] = t
        BY <1>1, <1>4, <2>1 DEF TableInv
      <3>2. \A k \in Native : pc[k] = "startThread" => pc'[k] = "startThread"
        BY <1>1, <1>5
      <3> QED BY <1>3, <1>4, <1>7, <3>1, <3>2
    <2> QED BY <2>1 DEF TableInv
  <1>16. QueuesInv'
    <2>1. QueuesStay BY <1>4, <1>7 DEF QueuesStay
    <2> QED BY <1>1, <1>4, <1>5, <2>1, QueuesKept DEF SleepersStay, Main, Sleeping
  <1>17. OwnedInv'
    <2>1. \A k \in Native : pc[k] \in Creating => pc'[k] \in Creating
      BY <1>1, <1>5 DEF Creating
    <2>2. pc'[n] \in Creating BY <1>5 DEF Creating
    <2> QED BY <1>3, <1>4, <1>7, <2>1, <2>2 DEF Main, OwnedInv
  <1>18. RoomInv'
    <2>1. Records' = Records BY <1>4 DEF Records
    <2>2. pc[n] \in Opening BY <1>1 DEF Opening
    <2> QED BY <1>4, <1>5, <2>1, <2>2 DEF Main, RoomInv
  <1>19. Balanced'
    <2>1. Streams' = Streams BY <1>3, <1>7 DEF Streams
    <2> QED BY <1>4, <2>1 DEF Accounts, Balanced, OpeningsBalance, Streams
  <1>20. ProcfsShowsProcesses'
    <2> DEFINE shown == {p \in Pids \ {0} : process_table[p] # None}
               hidden == {arg[m] : m \in {m \in Native :
                                     pc[m] \in {"initialisePCB", "loadProgram"}}}
    <2>1. \A m \in Native : m # n => pc[m] \notin {"initialisePCB", "loadProgram"}
      BY <1>1 DEF Main, OneCreator, Cloning
    <2>2. hidden = {} BY <1>1, <2>1
    <2>3. hidden' = {h} BY <1>3, <1>4, <1>5, <2>1
    <2>4. shown' = shown \cup {h} /\ h \notin shown BY <1>3, <1>7
    <2>5. procfs = shown \ hidden BY DEF Accounts, ProcfsShowsProcesses
    <2> HIDE DEF shown, hidden
    <2>6. procfs' = shown' \ hidden' BY <1>4, <2>2, <2>3, <2>4, <2>5
    <2> QED BY <2>6 DEF ProcfsShowsProcesses, shown, hidden
  <1>21. ~Crash BY <1>4 DEF Crash
  <1> QED BY <1>9, <1>10, <1>11, <1>12, <1>13, <1>14, <1>15, <1>16, <1>17, <1>18, <1>19,
             <1>20, <1>21 DEF Main, Accounts

LEMMA InitialisePCBMain ==
  ASSUME WellBehaved, AnyInv, Main, Accounts, NEW n \in Native, InitialisePCB(n)
  PROVE  ~Crash /\ Main' /\ Accounts'
  <1>1. /\ TypeOK /\ pc[n] = "initialisePCB" /\ BornInv(n) /\ WaitInv(n) /\ TableInv
        /\ CreatorInv(n) /\ ChildInv(n)
    BY DEF AnyInv, InitialisePCB, Main
  <1>2. Loaded(n) /\ ~halted BY DEF InitialisePCB, Alive, Running
  <1>3. PICK h \in Pids : /\ h = arg[n] /\ process_table[h] # None
                          /\ process_table[h].creator = n /\ process_table[h].io = FALSE
                          /\ ~process_table[h].q.is_locked
                          /\ \A t \in Tids : thread_table[t] # None => thread_table[t].pid # h
                          /\ \A m \in Native : h \notin children[m]
    BY <1>1 DEF CreatorInv, Creating
  <1>4. process_table[h] \in PCB BY <1>1, <1>3 DEF TypeOK
  <1>5. OwnsSlot(n) BY <1>3 DEF OwnsSlot
  <1>6. /\ process_table' = [process_table EXCEPT ![h].io = TRUE]
        /\ openCounter' = Opened(n)
        /\ UNCHANGED <<thread_table, thread_to_tid, want, children,
                       procfs, clones, arg, crashed>>
        /\ Goto(n, "loadProgram") /\ ~crashed
    BY <1>3, <1>5 DEF InitialisePCB, user, alloc, Alive, Running
  <1>7. pc'[n] = "loadProgram" /\ \A m \in Native : m # n => pc'[m] = pc[m]
    BY <1>1, <1>6 DEF Goto, TypeOK
  <1>8. /\ process_table'[h] # None /\ process_table'[h].creator = n
        /\ process_table'[h].io /\ process_table'[h].q = process_table[h].q
        /\ process_table'[h].io = TRUE
        /\ \A p \in Pids : p # h => process_table'[p] = process_table[p]
    <2>1. process_table'[h] = [process_table[h] EXCEPT !.io = TRUE]
          /\ \A p \in Pids : p # h => process_table'[p] = process_table[p]
      BY <1>1, <1>6 DEF TypeOK
    <2> QED BY <1>3, <1>4, <2>1, IoTrue, PcbSteps
  <1>9. Quiet({}) BY <1>3, <1>6, <1>8 DEF Quiet, Stay, LocksStay
  <1>10. BornInv(n)' /\ ChildInv(n)' BY <1>1, <1>6, <1>7, <1>9, SelfKept
  <1>11. WaitInv(n)' BY <1>1, <1>6, <1>7 DEF WaitInv, Waiting, Sleeping
  <1>12. CreatorInv(n)' BY <1>3, <1>6, <1>7, <1>8 DEF CreatorInv, Creating
  <1>13. ASSUME NEW m \in Native, m # n
         PROVE  BornInv(m)' /\ WaitInv(m)' /\ ChildInv(m)' /\ CreatorInv(m)'
    <2>1. BornInv(m) /\ WaitInv(m) /\ ChildInv(m) BY DEF Main
    <2>2. SameThread(m) BY <1>6, <1>7, <1>13 DEF SameThread
    <2>3. \A x \in want[m] : QueueOf(x)' = QueueOf(x)
      BY <1>1, <1>3, <1>6, <1>8, <2>1, WantsKept
    <2>4. TCBOf(m)' = TCBOf(m) BY <1>6, <2>2 DEF TCBOf, TidOf, SameThread
    <2>5. BornInv(m)' /\ WaitInv(m)' /\ ChildInv(m)'
      BY <1>1, <1>9, <2>1, <2>2, <2>3, <2>4, OtherKept
    <2>6. pc'[m] \notin Cloning BY <1>1, <1>7, <1>13, OnlyCreator DEF Cloning
    <2> QED BY <2>5, <2>6, NotCloning
  <1>14. ChildrenApart' BY <1>6 DEF Main, ChildrenApart
  <1>15. OneCreator' BY <1>1, <1>7 DEF Main, OneCreator, Cloning
  <1>16. TableInv'
    <2>1. ASSUME NEW t \in Tids, thread_table'[t] # None
          PROVE  /\ thread_table'[t].pid \in Pids /\ process_table'[thread_table'[t].pid] # None
                 /\ thread_table'[t].thread = Nobody =>
                       \E k \in Native : pc'[k] = "startThread" /\ arg'[k] = t
      <3>1. /\ thread_table[t].pid \in Pids /\ process_table[thread_table[t].pid] # None
            /\ thread_table[t].thread = Nobody =>
                       \E k \in Native : pc[k] = "startThread" /\ arg[k] = t
        BY <1>1, <1>6, <2>1 DEF TableInv
      <3>2. \A k \in Native : pc[k] = "startThread" => pc'[k] = "startThread"
        BY <1>1, <1>7
      <3> QED BY <1>3, <1>6, <1>8, <3>1, <3>2
    <2> QED BY <2>1 DEF TableInv
  <1>17. QueuesInv'
    <2>1. QueuesStay BY <1>3, <1>6, <1>8 DEF QueuesStay
    <2> QED BY <1>1, <1>6, <1>7, <2>1, QueuesKept DEF SleepersStay, Main, Sleeping
  <1>18. OwnedInv'
    <2>1. \A k \in Native : pc[k] \in Creating => pc'[k] \in Creating
      BY <1>1, <1>7 DEF Creating
    <2> QED BY <1>3, <1>6, <1>8, <2>1 DEF Main, OwnedInv
  <1>19. RoomInv'
    <2>1. Records' = Records BY <1>6 DEF Records
    <2>2. pc[n] \in Opening BY <1>1 DEF Opening, Creating
    <2> QED BY <1>6, <1>7, <2>1, <2>2 DEF Main, RoomInv
  <1>20. Balanced'
    <2> SUFFICES ASSUME CountsAlone PROVE OpeningsBalance' BY DEF Balanced, CountsAlone
    <2>1. Streams' = Streams \cup {h} /\ h \notin Streams BY <1>3, <1>8 DEF Streams
    <2>2. IsFiniteSet(Streams) /\ Cardinality(Streams) \in Nat BY <1>1, StreamsCount
    <2>3. Cardinality(Streams') = Cardinality(Streams) + 1
      BY <2>1, <2>2, FS_AddElement
    <2>4. openCounter = lost + Cardinality(Streams) /\ lost \in Nat
      BY <1>1 DEF Accounts, Balanced, OpeningsBalance, Streams, TypeOK
    <2>5. openCounter' = openCounter + 1 BY <1>1, <1>2, <1>6, OpenedOnce DEF AnyInv
    <2>6. lost' = lost BY DEF InitialisePCB
    <2>7. openCounter' = lost' + Cardinality(Streams') BY <2>2, <2>3, <2>4, <2>5, <2>6
    <2> QED BY <2>7 DEF OpeningsBalance, Streams
  <1>21. ProcfsShowsProcesses'
    <2> DEFINE shown == {p \in Pids \ {0} : process_table[p] # None}
               hiding == {m \in Native : pc[m] \in {"initialisePCB", "loadProgram"}}
               hidden == {arg[m] : m \in hiding}
    <2>1. hiding' = hiding BY <1>1, <1>7
    <2>2. hidden' = hidden BY <1>6, <2>1
    <2>3. shown' = shown BY <1>3, <1>8
    <2>4. procfs = shown \ hidden BY DEF Accounts, ProcfsShowsProcesses
    <2> HIDE DEF shown, hiding, hidden
    <2>5. procfs' = shown' \ hidden' BY <1>6, <2>2, <2>3, <2>4
    <2> QED BY <2>5 DEF ProcfsShowsProcesses, shown, hiding, hidden
  <1>22. ~Crash BY <1>6 DEF Crash
  <1> QED BY <1>10, <1>11, <1>12, <1>13, <1>14, <1>15, <1>16, <1>17, <1>18, <1>19, <1>20,
             <1>21, <1>22 DEF Main, Accounts

\* A step that leaves alone all that is accounted for.
LEMMA MainSame ==
  ASSUME Main, Accounts,
         UNCHANGED <<process_table, thread_table, thread_to_tid, clones, procfs,
                     openCounter, lost, pc, arg, want, children>>
  PROVE  Main' /\ Accounts'
  <1>1. ASSUME NEW n \in Native
        PROVE  (BornInv(n) /\ WaitInv(n) /\ ChildInv(n) /\ CreatorInv(n))'
    <2>1. BornInv(n) /\ WaitInv(n) /\ ChildInv(n) /\ CreatorInv(n) BY DEF Main
    <2>2. /\ TidOf(n)' = TidOf(n) /\ TCBOf(n)' = TCBOf(n)
          /\ \A h : QueueOf(h)' = QueueOf(h)
      BY DEF TidOf, TCBOf, QueueOf
    <2>3. BornInv(n)' BY <2>1, <2>2 DEF BornInv
    <2>4. WaitInv(n)' BY <2>1, <2>2 DEF WaitInv
    <2>5. ChildInv(n)' BY <2>1, <2>2 DEF ChildInv
    <2>6. CreatorInv(n)'
      <3>1. CreatorInv(n) BY <2>1
      <3>2. TCBOf(n)' = TCBOf(n) BY <2>2
      <3> HIDE <2>1, <2>2, <2>3, <2>4, <2>5
      <3> QED BY <3>1, <3>2, Zenon DEF CreatorInv
    <2> QED BY <2>3, <2>4, <2>5, <2>6
  <1>2. ChildrenApart' /\ OneCreator' /\ OwnedInv'
    BY DEF Main, ChildrenApart, OneCreator, OwnedInv
  <1>3. TableInv' BY DEF Main, TableInv
  <1>4. QueuesInv'
    <2>1. \A h, q : QueueInv(h, q)' <=> QueueInv(h, q) BY DEF QueueInv, Waits
    <2> QED BY <2>1 DEF Main, QueuesInv
  <1>5. RoomInv' BY DEF Main, RoomInv, Records
  <1>6. Accounts' BY DEF Accounts, Balanced, OpeningsBalance, ProcfsShowsProcesses
  <1> QED BY <1>1, <1>2, <1>3, <1>4, <1>5, <1>6 DEF Main

LEMMA InheritStreamsMain ==
  ASSUME AnyInv, Main, Accounts, NEW n \in Native, InheritStreams(n)
  PROVE  ~Crash /\ LoadCounter(n)
  <1>1. TypeOK /\ TableInv /\ BornInv(n) /\ pc[n] = "initialisePCB"
    BY DEF AnyInv, Main, InheritStreams
  <1>2. LivePid(n) BY <1>1, ThreadHere
  <1>3. LoadCounter(n) BY <1>2 DEF InheritStreams
  <1> QED BY <1>3 DEF LoadCounter, Alive, Crash, Running

\* Reading the counter changes nothing that is accounted for.
LEMMA LoadCounterMain ==
  ASSUME AnyInv, Main, Accounts, NEW n \in Native, LoadCounter(n)
  PROVE  Main' /\ Accounts'
  <1>1. UNCHANGED <<process_table, thread_table, thread_to_tid, clones, procfs,
                    openCounter, lost, pc, arg, want, children>>
    BY DEF LoadCounter, tables, alloc, user
  <1> QED BY <1>1, MainSame

\* The program does not exist: the slot that was made for it is free again.
LEMMA ProgramNotFoundMain ==
  ASSUME WellBehaved, AnyInv, Main, Accounts, NEW n \in Native, ProgramNotFound(n)
  PROVE  Main' /\ Accounts'
  <1>1. /\ TypeOK /\ pc[n] = "loadProgram" /\ BornInv(n) /\ WaitInv(n) /\ TableInv
        /\ CreatorInv(n) /\ ChildInv(n) /\ "unknown programs" \in Liberties
    BY DEF AnyInv, ProgramNotFound, Main
  <1>2. PICK h \in Pids : /\ h = arg[n] /\ h # 0 /\ process_table[h] # None
                          /\ \A t \in Tids : thread_table[t] # None => thread_table[t].pid # h
                          /\ \A m \in Native : h \notin children[m]
    BY <1>1 DEF CreatorInv, Creating, AnyInv, ArgInv
  <1>3. /\ process_table' = [process_table EXCEPT ![h] = None]
        /\ UNCHANGED <<thread_table, thread_to_tid, want, children, procfs, clones>>
        /\ Goto(n, "user") /\ SetArg(n, erInvalid_Handle)
    BY <1>2 DEF ProgramNotFound, user, alloc
  <1>4. /\ pc'[n] = "user"
        /\ \A m \in Native : m # n => pc'[m] = pc[m] /\ arg'[m] = arg[m]
    BY <1>1, <1>3 DEF Goto, SetArg, TypeOK
  <1>5. process_table'[h] = None
        /\ \A p \in Pids : p # h => process_table'[p] = process_table[p]
    BY <1>1, <1>3 DEF TypeOK
  <1>6. Quiet({h}) BY <1>3, <1>5, HandleSets DEF Quiet, Stay, LocksStay
  <1>7. ASSUME NEW m \in Native, pc[m] # "unborn"
        PROVE  TidOf(m) # h /\ TCBOf(m).pid # h
    <2>1. BornInv(m) BY DEF Main
    <2> QED BY <1>2, <1>7, <2>1, HandleSets DEF BornInv, TCBOf
  <1>8. BornInv(n)' /\ ChildInv(n)'
    BY <1>1, <1>2, <1>3, <1>4, <1>6, <1>7, SelfKept
  <1>9. WaitInv(n)' BY <1>1, <1>3, <1>4 DEF WaitInv, Waiting, Sleeping
  <1>10. CreatorInv(n)' BY <1>4, NotCloning DEF Cloning
  <1>11. ASSUME NEW m \in Native, m # n
         PROVE  BornInv(m)' /\ WaitInv(m)' /\ ChildInv(m)' /\ CreatorInv(m)'
    <2>1. BornInv(m) /\ WaitInv(m) /\ ChildInv(m) BY DEF Main
    <2>2. SameThread(m) BY <1>3, <1>4, <1>11 DEF SameThread
    <2>3. \A x \in want[m] : QueueOf(x)' = QueueOf(x)
      <3>1. ASSUME NEW x \in want[m] PROVE QueueOf(x)' = QueueOf(x)
        <4>1. x \in children[m] /\ x \in Handles BY <1>1, <2>1, WantedHere
        <4>2. x # h BY <1>2, <4>1
        <4> QED BY <1>3, <1>5, <4>1, <4>2 DEF QueueOf, Handles
      <3> QED BY <3>1
    <2>4. TCBOf(m)' = TCBOf(m) BY <1>3, <2>2 DEF TCBOf, TidOf, SameThread
    <2>5. pc[m] # "unborn" => TidOf(m) \notin {h} /\ TCBOf(m).pid \notin {h} BY <1>7
    <2>6. BornInv(m)' /\ WaitInv(m)' /\ ChildInv(m)'
      BY <1>1, <1>2, <1>6, <2>1, <2>2, <2>3, <2>4, <2>5, OtherKept
    <2>7. pc'[m] \notin Cloning BY <1>1, <1>4, <1>11, OnlyCreator DEF Cloning
    <2> QED BY <2>6, <2>7, NotCloning
  <1>12. ChildrenApart' BY <1>3 DEF Main, ChildrenApart
  <1>13. OneCreator' BY <1>4 DEF Main, OneCreator, Cloning
  <1>14. TableInv'
    <2>1. ASSUME NEW t \in Tids, thread_table'[t] # None
          PROVE  /\ thread_table'[t].pid \in Pids /\ process_table'[thread_table'[t].pid] # None
                 /\ thread_table'[t].thread = Nobody =>
                       \E k \in Native : pc'[k] = "startThread" /\ arg'[k] = t
      <3>1. /\ thread_table[t].pid \in Pids /\ process_table[thread_table[t].pid] # None
            /\ thread_table[t].pid # h
            /\ thread_table[t].thread = Nobody =>
                       \E k \in Native : pc[k] = "startThread" /\ arg[k] = t
        BY <1>1, <1>2, <1>3, <2>1 DEF TableInv
      <3>2. \A k \in Native : pc[k] = "startThread" => pc'[k] = "startThread" /\ arg'[k] = arg[k]
        BY <1>1, <1>4
      <3> QED BY <1>3, <1>5, <3>1, <3>2
    <2> QED BY <2>1 DEF TableInv
  <1>15. QueuesInv'
    <2>1. QueuesStay BY <1>3, <1>5 DEF QueuesStay
    <2> QED BY <1>1, <1>3, <1>4, <2>1, QueuesKept DEF SleepersStay, Main, Sleeping
  <1>16. OwnedInv'
    <2>1. \A k \in Native : k # n => pc[k] \notin Creating
      BY <1>1, OnlyCreator DEF Cloning, Creating
    <2> QED BY <1>2, <1>3, <1>5, <2>1 DEF Main, OwnedInv
  <1>17. RoomInv'
    <2>1. Records' = Records BY <1>3 DEF Records
    <2>2. \A m \in Native : pc'[m] \in Opening => pc[m] \in Opening
      BY <1>4 DEF Opening, Creating
    <2> QED BY <1>3, <2>1, <2>2 DEF Main, RoomInv
  <1>18. Balanced'
    <2> SUFFICES ASSUME CountsAlone PROVE OpeningsBalance' BY DEF Balanced, CountsAlone
    <2>1. Streams' = Streams \ {h} BY <1>5 DEF Streams
    <2>2. h \in Streams BY <1>1, <1>2 DEF CreatorInv, Creating, Streams
    <2>3. IsFiniteSet(Streams) /\ Cardinality(Streams) \in Nat BY <1>1, StreamsCount
    <2>4. Cardinality(Streams') = Cardinality(Streams) - 1
      BY <2>1, <2>2, <2>3, FS_RemoveElement
    <2>5. openCounter = lost + Cardinality(Streams) /\ lost \in Nat
      BY <1>1 DEF Accounts, Balanced, OpeningsBalance, Streams, TypeOK
    <2>6. openCounter' = openCounter /\ lost' = lost + 1 BY DEF ProgramNotFound
    <2>7. openCounter' = lost' + Cardinality(Streams') BY <2>3, <2>4, <2>5, <2>6
    <2> QED BY <2>7 DEF OpeningsBalance, Streams
  <1>19. ProcfsShowsProcesses'
    <2> DEFINE shown == {p \in Pids \ {0} : process_table[p] # None}
               hidden == {arg[m] : m \in {m \in Native :
                                     pc[m] \in {"initialisePCB", "loadProgram"}}}
    <2>1. \A m \in Native : m # n => pc[m] \notin {"initialisePCB", "loadProgram"}
      BY <1>1 DEF Main, OneCreator, Cloning
    <2>2. hidden = {h} BY <1>1, <1>2, <2>1
    <2>3. hidden' = {} BY <1>4, <2>1
    <2>4. shown' = shown \ {h} BY <1>5
    <2>5. procfs = shown \ hidden BY DEF Accounts, ProcfsShowsProcesses
    <2> HIDE DEF shown, hidden
    <2>6. procfs' = shown' \ hidden' BY <1>3, <2>2, <2>3, <2>4, <2>5
    <2> QED BY <2>6 DEF ProcfsShowsProcesses, shown, hidden
  <1> QED BY <1>8, <1>9, <1>10, <1>11, <1>12, <1>13, <1>14, <1>15, <1>16, <1>17, <1>18,
             <1>19 DEF Main, Accounts

LEMMA CreateProcessThreadFull ==
  ASSUME AnyInv, NEW n \in Native, CreateProcessThread(n), Crash
  PROVE  \A t \in Tids : thread_table[t] # None
  <1>1. getNextFreeTid \notin Tids BY DEF CreateProcessThread, Alive, Crash, Running
  <1> QED BY <1>1, FreeTid DEF AnyInv

LEMMA CreateThreadFull ==
  ASSUME AnyInv, NEW n \in Native, CreateThread(n), Crash
  PROVE  \A t \in Tids : thread_table[t] # None
  <1>1. getNextFreeTid \notin Tids BY DEF CreateThread, Alive, Crash, Running
  <1> QED BY <1>1, FreeTid DEF AnyInv

LEMMA OneRecordMore ==
  ASSUME TypeOK, NEW tid \in Tids, thread_table[tid] = None,
         Records' = Records \cup {tid}
  PROVE  /\ Cardinality(Records') = Cardinality(Records) + 1
         /\ Cardinality(Records) \in Nat
  <1>1. IsFiniteSet(Records) /\ Cardinality(Records) \in Nat BY RecordsCount
  <1>2. tid \notin Records BY DEF Records
  <1> QED BY <1>1, <1>2, FS_AddElement

LEMMA CreateProcessThreadMain ==
  ASSUME WellBehaved, AnyInv, Main, Accounts, NEW n \in Native,
         CreateProcessThread(n), ~Crash
  PROVE  Main' /\ Accounts'
  <1>1. /\ TypeOK /\ pc[n] = "createProcessThread" /\ BornInv(n) /\ WaitInv(n) /\ TableInv
        /\ CreatorInv(n) /\ ChildInv(n)
    BY DEF AnyInv, CreateProcessThread, Main
  <1>2. PICK h \in Pids : /\ h = arg[n] /\ process_table[h] # None /\ h \notin Tids
                          /\ ~process_table[h].q.is_locked
                          /\ \A t \in Tids : thread_table[t] # None => thread_table[t].pid # h
                          /\ \A m \in Native : h \notin children[m]
    BY <1>1, HandleSets DEF CreatorInv, Creating
  <1>3. PICK tid \in Tids, m \in Native :
          /\ tid = getNextFreeTid
          /\ pc[m] = "unborn"
          /\ thread_table' = [thread_table EXCEPT ![tid] = NewTCB(h, m)]
          /\ pc' = [pc EXCEPT ![n] = "user", ![m] = "start"]
          /\ arg' = [arg EXCEPT ![n] = erInvalid_Handle, ![m] = tid]
          /\ children' = [children EXCEPT ![n] = @ \cup {h}]
          /\ UNCHANGED <<process_table, thread_to_tid, clones, procfs, openCounter,
                         seen, lost, want>>
    BY <1>2 DEF CreateProcessThread
  <1>4. thread_table[tid] = None BY <1>1, <1>3, FreeTid, HandleSets DEF Handles
  <1>5. m # n BY <1>1, <1>3
  <1>6. /\ pc'[n] = "user" /\ pc'[m] = "start" /\ arg'[m] = tid
        /\ \A k \in Native : k # n /\ k # m => pc'[k] = pc[k] /\ arg'[k] = arg[k]
    BY <1>1, <1>3, <1>5 DEF TypeOK
  <1>7. /\ children'[n] = children[n] \cup {h}
        /\ \A k \in Native : k # n => children'[k] = children[k]
    BY <1>1, <1>3 DEF TypeOK
  <1>8. /\ NewTCB(h, m) # None /\ NewTCB(h, m).pid = h /\ NewTCB(h, m).thread = m
        /\ NewTCB(h, m).q = NewQueue
    BY NewRecords, TcbSteps
  <1>9. /\ thread_table'[tid] = NewTCB(h, m)
        /\ \A t \in Tids : t # tid => thread_table'[t] = thread_table[t]
    BY <1>1, <1>3 DEF TypeOK
  <1>10. Quiet({}) BY <1>3, <1>4, <1>9 DEF Quiet, Stay, LocksStay
  <1>11. BornInv(n)' /\ TCBOf(n).pid = TCBOf(n).pid'
    <2>1. TidOf(n)' = TidOf(n) BY <1>1, <1>3, <1>6 DEF TidOf
    <2> QED BY <1>1, <1>6, <1>10, <2>1, BornKept DEF Quiet
  <1>12. ChildInv(n)'
    <2>1. \A t \in Tids : t \in children'[n] => t \in children[n] BY <1>2, <1>7
    <2>2. \A t \in Tids : t \in children'[n] =>
            /\ thread_table'[t] # None /\ thread_table'[t].thread # Nobody
            /\ thread_table'[t].pid = TCBOf(n).pid
      BY <1>1, <1>4, <1>9, <2>1 DEF ChildInv
    <2>3. \A p \in Pids : p \in children'[n] => process_table'[p] # None
      BY <1>1, <1>2, <1>3, <1>7 DEF ChildInv
    <2> QED BY <1>6, <1>11, <2>2, <2>3 DEF ChildInv
  <1>13. WaitInv(n)' BY <1>1, <1>3, <1>6 DEF WaitInv, Waiting, Sleeping
  <1>14. BornInv(m)'
    <2>1. TidOf(m)' = tid BY <1>6 DEF TidOf
    <2>2. TCBOf(m)' = NewTCB(h, m) BY <1>9, <2>1 DEF TCBOf
    <2>3. ~NewQueue.is_locked BY DEF NewQueue
    <2> QED BY <1>2, <1>3, <1>6, <1>8, <2>1, <2>2, <2>3 DEF BornInv
  <1>15. WaitInv(m)' /\ ChildInv(m)'
    <2>1. WaitInv(m) /\ ChildInv(m) BY DEF Main
    <2>2. children'[m] = {} BY <1>3, <1>5, <1>7, <2>1 DEF ChildInv
    <2>3. want'[m] = {} BY <1>3, <2>1 DEF WaitInv, Waiting, Sleeping
    <2> QED BY <1>6, <2>2, <2>3, ChildlessKept DEF WaitInv, Waiting, Sleeping
  <1>16. ASSUME NEW k \in Native, k # n, k # m
         PROVE  BornInv(k)' /\ WaitInv(k)' /\ ChildInv(k)'
    <2>1. BornInv(k) /\ WaitInv(k) /\ ChildInv(k) BY DEF Main
    <2>2. SameThread(k) BY <1>3, <1>6, <1>7, <1>16 DEF SameThread
    <2>3. \A x \in want[k] : QueueOf(x)' = QueueOf(x)
      BY <1>1, <1>3, <1>4, <1>9, <2>1, WantsKept
    <2>4. pc[k] = "woken" => TCBOf(k)' = TCBOf(k)
      <3>1. ASSUME pc[k] = "woken" PROVE TidOf(k) # tid BY <1>4, <2>1, <3>1 DEF BornInv, TCBOf
      <3>2. ASSUME pc[k] = "woken" PROVE TidOf(k) \in Tids BY <2>1, <3>2 DEF BornInv
      <3> QED BY <1>9, <2>2, <3>1, <3>2 DEF TCBOf, TidOf, SameThread
    <2> QED BY <1>1, <1>10, <2>1, <2>2, <2>3, <2>4, OtherKept
  <1>17. \A k \in Native : pc'[k] \notin Cloning
    BY <1>1, <1>6, OnlyCreator DEF Cloning
  <1>18. \A k \in Native : CreatorInv(k)' BY <1>17, NotCloning
  <1>19. ChildrenApart' BY <1>2, <1>7 DEF Main, ChildrenApart
  <1>20. OneCreator' BY <1>17 DEF OneCreator
  <1>21. TableInv'
    <2>1. ASSUME NEW t \in Tids, thread_table'[t] # None
          PROVE  /\ thread_table'[t].pid \in Pids /\ process_table'[thread_table'[t].pid] # None
                 /\ thread_table'[t].thread = Nobody =>
                       \E k \in Native : pc'[k] = "startThread" /\ arg'[k] = t
      <3>1. CASE t = tid BY <1>2, <1>3, <1>8, <1>9, <3>1
      <3>2. CASE t # tid
        <4>1. /\ thread_table[t].pid \in Pids /\ process_table[thread_table[t].pid] # None
              /\ thread_table[t].thread = Nobody =>
                       \E k \in Native : pc[k] = "startThread" /\ arg[k] = t
          BY <1>1, <1>9, <2>1, <3>2 DEF TableInv
        <4>2. \A k \in Native : pc[k] = "startThread" =>
                 pc'[k] = "startThread" /\ arg'[k] = arg[k]
          BY <1>1, <1>3, <1>6
        <4> QED BY <1>3, <1>9, <3>2, <4>1, <4>2
      <3> QED BY <3>1, <3>2
    <2> QED BY <2>1 DEF TableInv
  <1>22. QueuesInv'
    <2>1. QueuesStay BY <1>3, <1>8, <1>9 DEF QueuesStay
    <2>2. \A k \in Native : pc[k] \in Sleeping => pc'[k] = pc[k] BY <1>1, <1>3, <1>6 DEF Sleeping
    <2> QED BY <1>3, <2>1, <2>2, QueuesKept DEF SleepersStay, Main
  <1>23. OwnedInv'
    <2>1. \A k \in Native : pc[k] \in Creating => k = n
      BY <1>1, OnlyCreator DEF Creating, Cloning
    <2>2. ASSUME NEW p \in Pids, p # 0, process_table'[p] # None
          PROVE  \E k \in Native : p \in children'[k]
      <3>1. \/ \E k \in Native : p \in children[k]
            \/ \E k \in Native : pc[k] \in Creating /\ arg[k] = p
        BY <1>3, <2>2 DEF Main, OwnedInv
      <3>2. CASE \E k \in Native : p \in children[k] BY <1>7, <3>2
      <3>3. CASE \E k \in Native : pc[k] \in Creating /\ arg[k] = p
        BY <1>2, <1>7, <2>1, <3>3
      <3> QED BY <3>1, <3>2, <3>3
    <2> QED BY <2>2 DEF OwnedInv
  <1>24. RoomInv'
    <2>1. Records' = Records \cup {tid}
      <3>1. \A t \in Tids : thread_table'[t] # None <=> thread_table[t] # None \/ t = tid
        BY <1>8, <1>9
      <3> QED BY <3>1 DEF Records
    <2>2. /\ Cardinality(Records') = Cardinality(Records) + 1
          /\ Cardinality(Records) \in Nat
      BY <1>1, <1>4, <2>1, OneRecordMore
    <2>3. Cardinality(Records) <= clones BY <1>1 DEF Main, RoomInv, Opening, Creating
    <2>4. clones \in Nat /\ clones' = clones BY <1>1, <1>3 DEF TypeOK
    <2>5. Opening \subseteq Cloning BY DEF Opening, Creating, Cloning
    <2> QED BY <1>17, <2>2, <2>3, <2>4, <2>5 DEF RoomInv
  <1>25. Balanced' BY <1>3 DEF Accounts, Balanced, OpeningsBalance
  <1>26. ProcfsShowsProcesses'
    <2>1. \A k \in Native : pc[k] \notin {"initialisePCB", "loadProgram"}
      BY <1>1, OnlyCreator DEF Cloning
    <2>2. \A k \in Native : pc'[k] \notin {"initialisePCB", "loadProgram"}
      BY <1>17 DEF Cloning
    <2> QED BY <1>3, <2>1, <2>2 DEF Accounts, ProcfsShowsProcesses
  <1> QED BY <1>11, <1>12, <1>13, <1>14, <1>15, <1>16, <1>18, <1>19, <1>20, <1>21, <1>22,
             <1>23, <1>24, <1>25, <1>26 DEF Main, Accounts

LEMMA CreateThreadMain ==
  ASSUME WellBehaved, AnyInv, Main, Accounts, NEW n \in Native, CreateThread(n), ~Crash
  PROVE  Main' /\ Accounts'
  <1>1. /\ TypeOK /\ pc[n] = "user" /\ BornInv(n) /\ WaitInv(n) /\ TableInv /\ ChildInv(n)
        /\ \A m \in Native : pc[m] \notin Cloning
    BY DEF AnyInv, CreateThread, Main, MayClone, WellBehaved
  <1>2. PICK p \in Pids : /\ p = getPid(n) /\ p = TCBOf(n).pid /\ process_table[p] # None
    BY <1>1, ThreadHere
  <1>3. PICK tid \in Tids :
          /\ tid = getNextFreeTid
          /\ thread_table' = [thread_table EXCEPT ![tid] = NewTCB(p, Nobody)]
          /\ pc' = [pc EXCEPT ![n] = "startThread"]
          /\ arg' = [arg EXCEPT ![n] = tid]
          /\ clones' = clones + 1
          /\ UNCHANGED <<process_table, thread_to_tid, procfs, openCounter,
                         seen, lost, want, children>>
    BY <1>2 DEF CreateThread, Goto, SetArg, user
  <1>4. thread_table[tid] = None BY <1>1, <1>3, FreeTid, HandleSets DEF Handles
  <1>5. /\ pc'[n] = "startThread" /\ arg'[n] = tid
        /\ \A k \in Native : k # n => pc'[k] = pc[k] /\ arg'[k] = arg[k]
    BY <1>1, <1>3 DEF TypeOK
  <1>6. /\ NewTCB(p, Nobody) # None /\ NewTCB(p, Nobody).pid = p
        /\ NewTCB(p, Nobody).thread = Nobody /\ NewTCB(p, Nobody).q = NewQueue
    BY NewRecords, TcbSteps
  <1>7. /\ thread_table'[tid] = NewTCB(p, Nobody)
        /\ \A t \in Tids : t # tid => thread_table'[t] = thread_table[t]
    BY <1>1, <1>3 DEF TypeOK
  <1>8. Quiet({}) BY <1>3, <1>4, <1>7 DEF Quiet, Stay, LocksStay
  <1>9. BornInv(n)' /\ ChildInv(n)' /\ TCBOf(n).pid = TCBOf(n).pid'
    BY <1>1, <1>3, <1>5, <1>8, SelfKept
  <1>10. WaitInv(n)' BY <1>1, <1>3, <1>5 DEF WaitInv, Waiting, Sleeping
  <1>11. CreatorInv(n)'
    <2>1. \A m \in Native : tid \notin children'[m] BY <1>3, <1>4 DEF Main, ChildInv
    <2>2. ~thread_table'[tid].q.is_locked BY <1>6, <1>7 DEF NewQueue
    <2>3. thread_table'[tid].pid = TCBOf(n).pid' BY <1>2, <1>6, <1>7, <1>9
    <2> QED BY <1>5, <1>6, <1>7, <2>1, <2>2, <2>3 DEF CreatorInv, Creating
  <1>12. ASSUME NEW k \in Native, k # n
         PROVE  BornInv(k)' /\ WaitInv(k)' /\ ChildInv(k)' /\ CreatorInv(k)'
    <2>1. BornInv(k) /\ WaitInv(k) /\ ChildInv(k) BY DEF Main
    <2>2. SameThread(k) BY <1>3, <1>5, <1>12 DEF SameThread
    <2>3. \A x \in want[k] : QueueOf(x)' = QueueOf(x)
      BY <1>1, <1>3, <1>4, <1>7, <2>1, WantsKept
    <2>4. pc[k] = "woken" => TCBOf(k)' = TCBOf(k)
      <3>1. ASSUME pc[k] = "woken" PROVE TidOf(k) # tid BY <1>4, <2>1, <3>1 DEF BornInv, TCBOf
      <3>2. ASSUME pc[k] = "woken" PROVE TidOf(k) \in Tids BY <2>1, <3>2 DEF BornInv
      <3> QED BY <1>7, <2>2, <3>1, <3>2 DEF TCBOf, TidOf, SameThread
    <2>5. BornInv(k)' /\ WaitInv(k)' /\ ChildInv(k)'
      BY <1>1, <1>8, <2>1, <2>2, <2>3, <2>4, OtherKept
    <2>6. pc'[k] \notin Cloning BY <1>1, <1>5, <1>12
    <2> QED BY <2>5, <2>6, NotCloning
  <1>13. ChildrenApart' BY <1>3 DEF Main, ChildrenApart
  <1>14. OneCreator' BY <1>1, <1>5 DEF OneCreator
  <1>15. TableInv'
    <2>1. ASSUME NEW t \in Tids, thread_table'[t] # None
          PROVE  /\ thread_table'[t].pid \in Pids /\ process_table'[thread_table'[t].pid] # None
                 /\ thread_table'[t].thread = Nobody =>
                       \E k \in Native : pc'[k] = "startThread" /\ arg'[k] = t
      <3>1. CASE t = tid BY <1>2, <1>3, <1>5, <1>6, <1>7, <3>1
      <3>2. CASE t # tid
        <4>1. /\ thread_table[t].pid \in Pids /\ process_table[thread_table[t].pid] # None
              /\ thread_table[t].thread = Nobody =>
                       \E k \in Native : pc[k] = "startThread" /\ arg[k] = t
          BY <1>1, <1>7, <2>1, <3>2 DEF TableInv
        <4>2. thread_table[t].thread # Nobody BY <1>1, <4>1 DEF Cloning
        <4> QED BY <1>3, <1>7, <3>2, <4>1, <4>2
      <3> QED BY <3>1, <3>2
    <2> QED BY <2>1 DEF TableInv
  <1>16. QueuesInv'
    <2>1. QueuesStay BY <1>3, <1>6, <1>7 DEF QueuesStay
    <2>2. \A k \in Native : pc[k] \in Sleeping => pc'[k] = pc[k] BY <1>1, <1>5 DEF Sleeping
    <2> QED BY <1>3, <2>1, <2>2, QueuesKept DEF SleepersStay, Main
  <1>17. OwnedInv'
    <2>1. \A k \in Native : pc[k] \notin Creating BY <1>1 DEF Creating, Cloning
    <2> QED BY <1>3, <2>1 DEF Main, OwnedInv
  <1>18. RoomInv'
    <2>1. Records' = Records \cup {tid}
      <3>1. \A t \in Tids : thread_table'[t] # None <=> thread_table[t] # None \/ t = tid
        BY <1>6, <1>7
      <3> QED BY <3>1 DEF Records
    <2>2. /\ Cardinality(Records') = Cardinality(Records) + 1
          /\ Cardinality(Records) \in Nat
      BY <1>1, <1>4, <2>1, OneRecordMore
    <2>3. Cardinality(Records) <= 1 + clones BY DEF Main, RoomInv
    <2>4. clones \in Nat /\ clones' = clones + 1 BY <1>1, <1>3 DEF TypeOK
    <2>5. \A k \in Native : pc'[k] \notin Opening
      BY <1>1, <1>5 DEF Opening, Creating, Cloning
    <2> QED BY <2>2, <2>3, <2>4, <2>5 DEF RoomInv
  <1>19. Balanced' BY <1>3 DEF Accounts, Balanced, OpeningsBalance
  <1>20. ProcfsShowsProcesses'
    <2>1. \A k \in Native : pc[k] \notin {"initialisePCB", "loadProgram"}
                            /\ pc'[k] \notin {"initialisePCB", "loadProgram"}
      BY <1>1, <1>5 DEF Cloning
    <2> QED BY <1>3, <2>1 DEF Accounts, ProcfsShowsProcesses
  <1> QED BY <1>9, <1>10, <1>11, <1>12, <1>13, <1>14, <1>15, <1>16, <1>17, <1>18, <1>19,
             <1>20 DEF Main, Accounts

LEMMA StartThreadMain ==
  ASSUME WellBehaved, AnyInv, Main, Accounts, NEW n \in Native, StartThread(n)
  PROVE  Main' /\ Accounts'
  <1>1. /\ TypeOK /\ pc[n] = "startThread" /\ BornInv(n) /\ WaitInv(n) /\ TableInv
        /\ CreatorInv(n) /\ ChildInv(n)
    BY DEF AnyInv, StartThread, Main
  <1>2. PICK h \in Tids : /\ h = arg[n] /\ thread_table[h] # None /\ h \notin Pids
                          /\ thread_table[h].thread = Nobody
                          /\ thread_table[h].pid = TCBOf(n).pid
                          /\ ~thread_table[h].q.is_locked
                          /\ \A m \in Native : h \notin children[m]
    BY <1>1, HandleSets DEF CreatorInv, Creating
  <1>3. PICK m \in Native :
          /\ pc[m] = "unborn"
          /\ thread_table' = [thread_table EXCEPT ![h].thread = m]
          /\ pc' = [pc EXCEPT ![n] = "user", ![m] = "start"]
          /\ arg' = [arg EXCEPT ![n] = erInvalid_Handle, ![m] = h]
          /\ children' = [children EXCEPT ![n] = @ \cup {h}]
          /\ UNCHANGED <<process_table, thread_to_tid, clones, procfs, openCounter,
                         seen, lost, want>>
    BY <1>2 DEF StartThread, alloc
  <1>4. m # n BY <1>1, <1>3
  <1>5. /\ pc'[n] = "user" /\ pc'[m] = "start" /\ arg'[m] = h
        /\ \A k \in Native : k # n /\ k # m => pc'[k] = pc[k] /\ arg'[k] = arg[k]
    BY <1>1, <1>3, <1>4 DEF TypeOK
  <1>6. /\ children'[n] = children[n] \cup {h}
        /\ \A k \in Native : k # n => children'[k] = children[k]
    BY <1>1, <1>3 DEF TypeOK
  <1>7. /\ thread_table'[h] # None /\ thread_table'[h].thread = m
        /\ thread_table'[h].pid = thread_table[h].pid
        /\ thread_table'[h].q = thread_table[h].q
        /\ \A t \in Tids : t # h => thread_table'[t] = thread_table[t]
    <2>1. thread_table'[h] = [thread_table[h] EXCEPT !.thread = m]
          /\ \A t \in Tids : t # h => thread_table'[t] = thread_table[t]
      BY <1>1, <1>3 DEF TypeOK
    <2>2. thread_table[h] \in TCB BY <1>1, <1>2 DEF TypeOK
    <2>3. [thread_table[h] EXCEPT !.thread = m] # None BY <2>2, TcbSteps
    <2> QED BY <2>1, <2>2, <2>3 DEF TCB
  <1>8. Quiet({}) BY <1>2, <1>3, <1>7 DEF Quiet, Stay, LocksStay
  <1>9. BornInv(n)' /\ TCBOf(n).pid = TCBOf(n).pid'
    <2>1. TidOf(n)' = TidOf(n) BY <1>1, <1>3, <1>5 DEF TidOf
    <2> QED BY <1>1, <1>5, <1>8, <2>1, BornKept DEF Quiet
  <1>10. ChildInv(n)'
    <2>1. \A t \in Tids : t \in children'[n] /\ t # h => t \in children[n] BY <1>6
    <2>2. ASSUME NEW t \in Tids, t \in children'[n]
          PROVE  /\ thread_table'[t] # None /\ thread_table'[t].thread # Nobody
                 /\ thread_table'[t].pid = TCBOf(n).pid
      <3>1. CASE t = h BY <1>2, <1>7, <3>1
      <3>2. CASE t # h BY <1>1, <1>7, <2>1, <2>2, <3>2 DEF ChildInv
      <3> QED BY <3>1, <3>2
    <2>3. \A p \in Pids : p \in children'[n] => process_table'[p] # None
      BY <1>1, <1>2, <1>3, <1>6 DEF ChildInv
    <2> QED BY <1>5, <1>9, <2>2, <2>3 DEF ChildInv
  <1>11. WaitInv(n)' BY <1>1, <1>3, <1>5 DEF WaitInv, Waiting, Sleeping
  <1>12. BornInv(m)'
    <2>1. TidOf(m)' = h BY <1>5 DEF TidOf
    <2>2. TCBOf(m)' = thread_table'[h] BY <2>1 DEF TCBOf
    <2>3. ~process_table[TCBOf(n).pid].q.is_locked BY <1>1 DEF BornInv
    <2>4. TCBOf(m)'.pid = TCBOf(n).pid BY <1>2, <1>7, <2>2
    <2>5. ~process_table'[TCBOf(m).pid'].q.is_locked BY <1>3, <2>3, <2>4
    <2> QED BY <1>2, <1>5, <1>7, <2>1, <2>2, <2>5 DEF BornInv
  <1>13. WaitInv(m)' /\ ChildInv(m)'
    <2>1. WaitInv(m) /\ ChildInv(m) BY DEF Main
    <2>2. children'[m] = {} BY <1>3, <1>4, <1>6, <2>1 DEF ChildInv
    <2>3. want'[m] = {} BY <1>3, <2>1 DEF WaitInv, Waiting, Sleeping
    <2> QED BY <1>5, <2>2, <2>3, ChildlessKept DEF WaitInv, Waiting, Sleeping
  <1>14. ASSUME NEW k \in Native, k # n, k # m
         PROVE  BornInv(k)' /\ WaitInv(k)' /\ ChildInv(k)'
    <2>1. BornInv(k) /\ WaitInv(k) /\ ChildInv(k) BY DEF Main
    <2>2. SameThread(k) BY <1>3, <1>5, <1>6, <1>14 DEF SameThread
    <2>3. \A x \in want[k] : QueueOf(x)' = QueueOf(x)
      BY <1>1, <1>2, <1>3, <1>7, <2>1, WantsKept
    <2>4. pc[k] = "woken" => TCBOf(k)' = TCBOf(k)
      <3>1. ASSUME pc[k] = "woken" PROVE TidOf(k) # h BY <1>2, <2>1, <3>1 DEF BornInv, TCBOf
      <3>2. ASSUME pc[k] = "woken" PROVE TidOf(k) \in Tids BY <2>1, <3>2 DEF BornInv
      <3> QED BY <1>7, <2>2, <3>1, <3>2 DEF TCBOf, TidOf, SameThread
    <2> QED BY <1>1, <1>8, <2>1, <2>2, <2>3, <2>4, OtherKept
  <1>15. \A k \in Native : pc'[k] \notin Cloning
    BY <1>1, <1>5, OnlyCreator DEF Cloning
  <1>16. \A k \in Native : CreatorInv(k)' BY <1>15, NotCloning
  <1>17. ChildrenApart' BY <1>2, <1>6 DEF Main, ChildrenApart
  <1>18. OneCreator' BY <1>15 DEF OneCreator
  <1>19. TableInv'
    <2>1. ASSUME NEW t \in Tids, thread_table'[t] # None
          PROVE  /\ thread_table'[t].pid \in Pids /\ process_table'[thread_table'[t].pid] # None
                 /\ thread_table'[t].thread # Nobody
      <3>1. CASE t = h BY <1>1, <1>2, <1>3, <1>7, <3>1 DEF TableInv
      <3>2. CASE t # h
        <4>1. /\ thread_table[t].pid \in Pids /\ process_table[thread_table[t].pid] # None
              /\ thread_table[t].thread = Nobody =>
                       \E k \in Native : pc[k] = "startThread" /\ arg[k] = t
          BY <1>1, <1>7, <2>1, <3>2 DEF TableInv
        <4>2. \A k \in Native : pc[k] = "startThread" => k = n
          BY <1>1, OnlyCreator DEF Cloning
        <4> QED BY <1>2, <1>3, <1>7, <3>2, <4>1, <4>2
      <3> QED BY <3>1, <3>2
    <2> QED BY <2>1 DEF TableInv
  <1>20. QueuesInv'
    <2>1. QueuesStay BY <1>2, <1>3, <1>7 DEF QueuesStay
    <2>2. \A k \in Native : pc[k] \in Sleeping => pc'[k] = pc[k] BY <1>1, <1>3, <1>5 DEF Sleeping
    <2> QED BY <1>3, <2>1, <2>2, QueuesKept DEF SleepersStay, Main
  <1>21. OwnedInv'
    <2>1. \A k \in Native : pc[k] \notin Creating
      BY <1>1, OnlyCreator DEF Creating, Cloning
    <2> QED BY <1>3, <1>6, <2>1 DEF Main, OwnedInv
  <1>22. RoomInv'
    <2>1. Records' = Records
      <3>1. \A t \in Tids : thread_table'[t] # None <=> thread_table[t] # None
        BY <1>2, <1>7
      <3> QED BY <3>1 DEF Records
    <2>2. \A k \in Native : pc'[k] \notin Opening
      BY <1>15 DEF Opening, Creating, Cloning
    <2> QED BY <1>3, <2>1, <2>2 DEF Main, RoomInv
  <1>23. Balanced' BY <1>3 DEF Accounts, Balanced, OpeningsBalance
  <1>24. ProcfsShowsProcesses'
    <2>1. \A k \in Native : pc[k] \notin {"initialisePCB", "loadProgram"}
      BY <1>1, OnlyCreator DEF Cloning
    <2>2. \A k \in Native : pc'[k] \notin {"initialisePCB", "loadProgram"}
      BY <1>15 DEF Cloning
    <2> QED BY <1>3, <2>1, <2>2 DEF Accounts, ProcfsShowsProcesses
  <1> QED BY <1>9, <1>10, <1>11, <1>12, <1>13, <1>14, <1>16, <1>17, <1>18, <1>19, <1>20,
             <1>21, <1>22, <1>23, <1>24 DEF Main, Accounts

LEMMA StartRunningMain ==
  ASSUME WellBehaved, AnyInv, Main, Accounts, NEW n \in Native, StartRunning(n)
  PROVE  Main' /\ Accounts'
  <1>1. /\ TypeOK /\ pc[n] = "start" /\ BornInv(n) /\ WaitInv(n) /\ TableInv
        /\ ChildInv(n)
    BY DEF AnyInv, StartRunning, Main
  <1>2. UNCHANGED <<process_table, thread_table, clones, procfs, openCounter,
                    seen, lost, want, children>>
    BY DEF StartRunning, tables, alloc, user
  <1>3. /\ pc'[n] = "user" /\ thread_to_tid'[n] = arg[n]
        /\ \A k \in Native : k # n =>
              pc'[k] = pc[k] /\ arg'[k] = arg[k] /\ thread_to_tid'[k] = thread_to_tid[k]
    BY <1>1 DEF StartRunning, Goto, SetArg, TypeOK
  <1>4. Quiet({}) BY <1>2 DEF Quiet, Stay, LocksStay
  <1>5. BornInv(n)'
    <2>1. TidOf(n)' = TidOf(n) BY <1>1, <1>3 DEF TidOf
    <2> QED BY <1>1, <1>3, <1>4, <2>1, BornKept DEF Quiet
  <1>6. ChildInv(n)' BY <1>1, <1>2, ChildlessKept DEF ChildInv
  <1>7. WaitInv(n)' BY <1>1, <1>2, <1>3 DEF WaitInv, Waiting, Sleeping
  <1>8. CreatorInv(n)' BY <1>3, NotCloning DEF Cloning
  <1>9. ASSUME NEW m \in Native, m # n
        PROVE  BornInv(m)' /\ WaitInv(m)' /\ ChildInv(m)' /\ CreatorInv(m)'
    <2>1. BornInv(m) /\ WaitInv(m) /\ ChildInv(m) /\ CreatorInv(m) BY DEF Main
    <2>2. SameThread(m) BY <1>2, <1>3, <1>9 DEF SameThread
    <2>3. \A h : QueueOf(h)' = QueueOf(h) BY <1>2 DEF QueueOf
    <2>4. TCBOf(m)' = TCBOf(m) BY <1>2, <2>2 DEF TCBOf, TidOf, SameThread
    <2>5. BornInv(m)' /\ WaitInv(m)' /\ ChildInv(m)'
      BY <1>1, <1>4, <2>1, <2>2, <2>3, <2>4, OtherKept
    <2>6. CreatorInv(m)' BY <1>2, <2>1, <2>2, <2>4 DEF CreatorInv, SameThread
    <2> QED BY <2>5, <2>6
  <1>10. ChildrenApart' BY <1>2 DEF Main, ChildrenApart
  <1>11. OneCreator' BY <1>1, <1>3 DEF Main, OneCreator, Cloning
  <1>12. TableInv' BY <1>1, <1>2, <1>3 DEF TableInv
  <1>13. QueuesInv'
    <2>1. QueuesStay BY <1>2 DEF QueuesStay
    <2>2. \A k \in Native : pc[k] \in Sleeping => k # n BY <1>1 DEF Sleeping
    <2> QED BY <1>2, <1>3, <2>1, <2>2, QueuesKept DEF SleepersStay, Main
  <1>14. OwnedInv' BY <1>1, <1>2, <1>3 DEF Main, OwnedInv, Creating
  <1>15. RoomInv'
    <2>1. Records' = Records BY <1>2 DEF Records
    <2>2. \A k \in Native : pc'[k] \in Opening => pc[k] \in Opening
      BY <1>3 DEF Opening, Creating
    <2> QED BY <1>2, <2>1, <2>2 DEF Main, RoomInv
  <1>16. Balanced' BY <1>2 DEF Accounts, Balanced, OpeningsBalance
  <1>17. ProcfsShowsProcesses'
    <2> DEFINE hiding == {m \in Native : pc[m] \in {"initialisePCB", "loadProgram"}}
    <2>1. hiding' = hiding /\ n \notin hiding BY <1>1, <1>3
    <2>2. \A m \in hiding : arg'[m] = arg[m] BY <1>3, <2>1
    <2>3. {arg'[m] : m \in hiding'} = {arg[m] : m \in hiding} BY <2>1, <2>2
    <2> QED BY <1>2, <2>3 DEF Accounts, ProcfsShowsProcesses
  <1> QED BY <1>5, <1>6, <1>7, <1>8, <1>9, <1>10, <1>11, <1>12, <1>13, <1>14, <1>15, <1>16,
             <1>17 DEF Main, Accounts

\* A step of a thread's Wait_For that reads or writes the record of the child it
\* waits for.
Touches(n, h) ==
    /\ UNCHANGED <<thread_to_tid, children, clones, procfs, openCounter, seen, lost>>
    /\ \A m \in Native : m # n => pc'[m] = pc[m] /\ arg'[m] = arg[m] /\ want'[m] = want[m]
    /\ \A p \in Pids :
          /\ process_table[p] = None => process_table'[p] = None
          /\ process_table[p] # None =>
                /\ process_table'[p] # None
                /\ process_table'[p].creator = process_table[p].creator
                /\ process_table'[p].io = process_table[p].io
                /\ process_table'[p].q.is_locked = process_table[p].q.is_locked
                /\ p # h => process_table'[p].q = process_table[p].q
    /\ \A t \in Tids :
          /\ thread_table[t] = None => thread_table'[t] = None
          /\ thread_table[t] # None =>
                /\ thread_table'[t] # None
                /\ thread_table'[t].pid = thread_table[t].pid
                /\ thread_table'[t].thread = thread_table[t].thread
                /\ thread_table'[t].q.is_locked = thread_table[t].q.is_locked
                /\ t # h => thread_table'[t].q = thread_table[t].q
                /\ t # thread_to_tid[n] =>
                      thread_table'[t].waked_by = thread_table[t].waked_by

LEMMA TouchKept ==
  ASSUME TypeOK, Main, Accounts, NEW n \in Native, NEW h \in children[n], Touches(n, h),
         pc[n] \in {"user", "woken", "getRetVal"},
         pc'[n] \in Waiting, WaitInv(n)',
         h \in Pids => QueueInv(h, process_table[h].q)',
         h \in Tids => QueueInv(h, thread_table[h].q)'
  PROVE  Main' /\ Accounts'
  <1>1. /\ BornInv(n) /\ WaitInv(n) /\ ChildInv(n) /\ TableInv /\ QueuesInv
    BY DEF Main
  <1>2. Quiet({}) BY DEF Quiet, Stay, LocksStay, Touches
  <1>3. pc'[n] \notin {"unborn", "start"} BY DEF Waiting, Sleeping
  <1>4. BornInv(n)' /\ ChildInv(n)' BY <1>1, <1>2, <1>3, SelfKept DEF Touches
  <1>5. pc'[n] \notin Cloning /\ pc[n] \notin Cloning BY DEF Waiting, Sleeping, Cloning
  <1>6. CreatorInv(n)' BY <1>5, NotCloning
  <1>7. ASSUME NEW m \in Native, m # n
        PROVE  BornInv(m)' /\ WaitInv(m)' /\ ChildInv(m)' /\ CreatorInv(m)'
    <2>1. BornInv(m) /\ WaitInv(m) /\ ChildInv(m) /\ CreatorInv(m) BY DEF Main
    <2>2. SameThread(m) BY <1>7 DEF SameThread, Touches
    <2>3. ASSUME NEW x \in want[m] PROVE QueueOf(x)' = QueueOf(x)
      <3>1. /\ x \in children[m] /\ x \in Handles
            /\ x \in Pids => process_table[x] # None
            /\ x \in Tids => thread_table[x] # None
        BY <2>1, WantedHere
      <3>2. x # h BY <1>7, <3>1 DEF Main, ChildrenApart
      <3> QED BY <3>1, <3>2 DEF Touches, QueueOf, Handles
    <2>4. pc[m] = "woken" => TCBOf(m)'.waked_by = TCBOf(m).waked_by
      <3>1. SUFFICES ASSUME pc[m] = "woken" PROVE TCBOf(m)'.waked_by = TCBOf(m).waked_by
        OBVIOUS
      <3>2. TidOf(m) = thread_to_tid[m] /\ TidOf(n) = thread_to_tid[n] BY <3>1 DEF TidOf
      <3>3. TidOf(m) # TidOf(n) BY <1>1, <1>7, <2>1, <3>1, TidsDiffer
      <3>4. TidOf(m) \in Tids /\ thread_table[TidOf(m)] # None
        BY <2>1, <3>1 DEF BornInv, TCBOf
      <3>5. TidOf(m)' = TidOf(m) BY <2>2 DEF TidOf, SameThread
      <3> QED BY <3>2, <3>3, <3>4, <3>5 DEF Touches, TCBOf
    <2>5. /\ BornInv(m)' /\ WaitInv(m)' /\ ChildInv(m)'
          /\ pc[m] # "unborn" => TCBOf(m).pid = TCBOf(m).pid'
      BY <1>1, <1>2, <2>1, <2>2, <2>3, <2>4, OtherKept
    <2>6. /\ \A p \in Pids :
               /\ process_table[p] = None => process_table'[p] = None
               /\ process_table'[p] # None =>
                     /\ process_table'[p].creator = process_table[p].creator
                     /\ process_table'[p].io = process_table[p].io
          /\ \A t \in Tids :
               /\ thread_table[t] = None => thread_table'[t] = None
               /\ thread_table'[t] # None => /\ thread_table'[t].pid = thread_table[t].pid
                                             /\ thread_table'[t].thread = thread_table[t].thread
          /\ \A k \in Native : children'[k] \subseteq children[k]
      BY DEF Touches
    <2>7. CreatorInv(m)' BY <1>2, <2>1, <2>2, <2>5, <2>6, CreatorKept DEF Quiet
    <2> QED BY <2>5, <2>7
  <1>8. ChildrenApart' BY DEF Main, ChildrenApart, Touches
  <1>9. OneCreator' BY <1>5 DEF Main, OneCreator, Touches
  <1>10. \A m \in Native : pc[m] \in Cloning =>
            pc'[m] = pc[m] /\ arg'[m] = arg[m]
    BY <1>5 DEF Touches
  <1>11. TableInv'
    <2>1. ASSUME NEW t \in Tids, thread_table'[t] # None
          PROVE  /\ thread_table'[t].pid \in Pids /\ process_table'[thread_table'[t].pid] # None
                 /\ thread_table'[t].thread = Nobody =>
                       \E k \in Native : pc'[k] = "startThread" /\ arg'[k] = t
      <3>1. /\ thread_table[t] # None /\ thread_table'[t].pid = thread_table[t].pid
            /\ thread_table'[t].thread = thread_table[t].thread
        BY <2>1 DEF Touches
      <3>2. /\ thread_table[t].pid \in Pids /\ process_table[thread_table[t].pid] # None
            /\ thread_table[t].thread = Nobody =>
                       \E k \in Native : pc[k] = "startThread" /\ arg[k] = t
        BY <1>1, <3>1 DEF TableInv
      <3>3. process_table'[thread_table[t].pid] # None BY <3>2 DEF Touches
      <3> QED BY <1>10, <3>1, <3>2, <3>3 DEF Cloning
    <2> QED BY <2>1 DEF TableInv
  <1>12. QueuesInv'
    <2>1. SleepersStay BY DEF SleepersStay, Sleeping, Touches
    <2>2. ASSUME NEW p \in Pids, process_table'[p] # None
          PROVE  QueueInv(p, process_table[p].q)'
      <3>1. CASE p = h BY <3>1
      <3>2. CASE p # h
        <4>1. process_table[p] # None /\ process_table'[p].q = process_table[p].q
          BY <2>2, <3>2 DEF Touches
        <4>2. PICK q : q = process_table[p].q /\ QueueInv(p, q) BY <1>1, <4>1 DEF QueuesInv
        <4>3. QueueInv(p, q)' BY <2>1, <4>2, QueueKept
        <4> QED BY <4>1, <4>2, <4>3 DEF QueueInv
      <3> QED BY <3>1, <3>2
    <2>3. ASSUME NEW t \in Tids, thread_table'[t] # None
          PROVE  QueueInv(t, thread_table[t].q)'
      <3>1. CASE t = h BY <3>1
      <3>2. CASE t # h
        <4>1. thread_table[t] # None /\ thread_table'[t].q = thread_table[t].q
          BY <2>3, <3>2 DEF Touches
        <4>2. PICK q : q = thread_table[t].q /\ QueueInv(t, q) BY <1>1, <4>1 DEF QueuesInv
        <4>3. QueueInv(t, q)' BY <2>1, <4>2, QueueKept
        <4> QED BY <4>1, <4>2, <4>3 DEF QueueInv
      <3> QED BY <3>1, <3>2
    <2> QED BY <2>2, <2>3 DEF QueuesInv
  <1>13. OwnedInv'
    <2>1. ASSUME NEW p \in Pids, p # 0, process_table'[p] # None
          PROVE  \/ \E m \in Native : p \in children'[m]
                 \/ \E m \in Native : pc'[m] \in Creating /\ arg'[m] = p
      <3>1. process_table[p] # None BY <2>1 DEF Touches
      <3>2. \/ \E m \in Native : p \in children[m]
            \/ \E m \in Native : pc[m] \in Creating /\ arg[m] = p
        BY <2>1, <3>1 DEF Main, OwnedInv
      <3>3. Creating \subseteq Cloning BY DEF Creating, Cloning
      <3> QED BY <1>10, <3>2, <3>3 DEF Touches
    <2> QED BY <2>1 DEF OwnedInv
  <1>14. RoomInv'
    <2>1. Records' = Records
      <3>1. \A t \in Tids : thread_table'[t] # None <=> thread_table[t] # None
        BY DEF Touches
      <3> QED BY <3>1 DEF Records
    <2>2. \A m \in Native : pc'[m] \in Opening => pc[m] \in Opening
      BY DEF Touches, Opening, Creating, Waiting, Sleeping
    <2>3. clones' = clones BY DEF Touches
    <2> QED BY <2>1, <2>2, <2>3 DEF Main, RoomInv
  <1>15. Balanced'
    <2>1. Streams' = Streams
      <3>1. \A p \in Pids : (process_table'[p] # None /\ process_table'[p].io)
                               <=> (process_table[p] # None /\ process_table[p].io)
        BY DEF Touches
      <3> QED BY <3>1 DEF Streams
    <2> QED BY <2>1 DEF Accounts, Balanced, OpeningsBalance, Streams, Touches
  <1>16. ProcfsShowsProcesses'
    <2> DEFINE hiding == {m \in Native : pc[m] \in {"initialisePCB", "loadProgram"}}
    <2>1. hiding' = hiding /\ n \notin hiding BY <1>5, <1>10 DEF Touches, Cloning
    <2>2. \A m \in hiding : arg'[m] = arg[m] BY <2>1 DEF Touches
    <2>3. {arg'[m] : m \in hiding'} = {arg[m] : m \in hiding} BY <2>1, <2>2
    <2>4. {p \in Pids \ {0} : process_table'[p] # None} =
             {p \in Pids \ {0} : process_table[p] # None}
      BY DEF Touches
    <2> QED BY <2>3, <2>4 DEF Accounts, ProcfsShowsProcesses, Touches
  <1> QED BY <1>4, <1>6, <1>7, <1>8, <1>9, <1>11, <1>12, <1>13, <1>14, <1>15, <1>16
          DEF Main, Accounts

LEMMA FiniteHandles ==
  /\ IsFiniteSet(Handles)
  /\ \A S \in SUBSET Handles : Cardinality(S) = 1 => \E h \in S : S = {h}
  <1>1. IsFiniteSet(Handles) BY FiniteTables, FS_Union DEF Handles
  <1>2. ASSUME NEW S \in SUBSET Handles, Cardinality(S) = 1 PROVE \E h \in S : S = {h}
    <2>1. IsFiniteSet(S) BY <1>1, FS_Subset
    <2> QED BY <1>2, <2>1, FS_Singleton
  <1> QED BY <1>1, <1>2

\* The record of a child, and who else may be in its queue.
LEMMA ChildHere ==
  ASSUME TypeOK, Main, NEW n \in Native, NEW h \in children[n]
  PROVE  /\ h \in Handles /\ validateHandle(h) /\ ReadRecord(h)
         /\ QueueOf(h) = RecordOf(h).q /\ QueueInv(h, QueueOf(h)) /\ QueueOf(h) \in Queue
         /\ h \in Pids => /\ process_table[h] \in PCB /\ process_table[h] # None
                          /\ RecordOf(h) = process_table[h] /\ h \notin Tids
         /\ h \in Tids => /\ thread_table[h] \in TCB /\ thread_table[h] # None
                          /\ RecordOf(h) = thread_table[h] /\ h \notin Pids
         /\ pc[n] \notin Sleeping => QueueOf(h).waiting_handles = <<>>
  <1>1. h \in Handles BY DEF TypeOK, Handles
  <1>2. ChildInv(n) BY DEF Main
  <1>3. h \in Pids => /\ process_table[h] \in PCB /\ process_table[h] # None
                      /\ RecordOf(h) = process_table[h] /\ h \notin Tids
                      /\ validateHandle(h)
    BY <1>2, HandleSets DEF ChildInv, TypeOK, RecordOf, validateHandle
  <1>4. h \in Tids => /\ thread_table[h] \in TCB /\ thread_table[h] # None
                      /\ RecordOf(h) = thread_table[h] /\ h \notin Pids
                      /\ validateHandle(h)
    BY <1>2, HandleSets DEF ChildInv, TypeOK, RecordOf, validateHandle
  <1>5. QueueOf(h) = RecordOf(h).q /\ QueueOf(h) \in Queue
    BY <1>1, <1>3, <1>4, RecordSteps DEF QueueOf, Handles
  <1>6. QueueInv(h, QueueOf(h))
    BY <1>1, <1>3, <1>4 DEF Main, QueuesInv, QueueOf, Handles
  <1>7. pc[n] \notin Sleeping => QueueOf(h).waiting_handles = <<>>
    <2>1. SUFFICES ASSUME pc[n] \notin Sleeping, QueueOf(h).waiting_handles # <<>> PROVE FALSE
      OBVIOUS
    <2>2. PICK m \in Native : pc[m] \in Sleeping /\ want[m] = {h}
      BY <1>6, <2>1 DEF QueueInv, Waits
    <2>3. h \in children[m] BY <2>2 DEF Main, WaitInv
    <2>4. m = n BY <1>1, <2>3 DEF Main, ChildrenApart
    <2> QED BY <2>1, <2>2, <2>4
  <1> QED BY <1>1, <1>3, <1>4, <1>5, <1>6, <1>7 DEF ReadRecord, Handles

LEMMA WaitForMain ==
  ASSUME WellBehaved, AnyInv, Main, Accounts, NEW n \in Native, WaitFor(n)
  PROVE  Main' /\ Accounts'
  <1>1. /\ TypeOK /\ pc[n] = "user" /\ BornInv(n) /\ TableInv
    BY DEF AnyInv, Main, WaitFor
  <1>2. UNCHANGED <<thread_to_tid, children, clones, procfs, openCounter, seen, lost>>
    BY DEF WaitFor, alloc
  <1>3. PICK hs \in SUBSET Joinable(n) :
          /\ Cardinality(hs) \in 1..MaxHandles
          /\ want' = [want EXCEPT ![n] = hs]
          /\ LET valid == {h \in hs : validateHandle(h)}
                 already_done == {h \in valid : RecordOf(h).q.is_locked}
             IN  /\ process_table' = [p \in Pids |->
                       IF p \in valid THEN Register(process_table[p], getTid(n))
                       ELSE process_table[p]]
                 /\ thread_table' = [t \in Tids |->
                       IF t \in valid THEN Register(thread_table[t], getTid(n))
                       ELSE thread_table[t]]
                 /\ \/ /\ already_done = {}
                       /\ Goto(n, "sleep")
                       /\ UNCHANGED arg
                    \/ \E h \in already_done : Goto(n, "getRetVal") /\ SetArg(n, h)
    BY DEF WaitFor
  <1>4. PICK h \in children[n] : hs = {h}
    <2>1. hs \subseteq children[n] BY <1>3 DEF WellBehaved, Joinable
    <2>2. Cardinality(hs) = 1
      <3>1. Cardinality(hs) \in 1..MaxHandles BY <1>3
      <3>2. MaxHandles = 1 BY DEF WellBehaved
      <3> QED BY <3>1, <3>2
    <2>3. hs \in SUBSET Handles BY <1>1, <2>1 DEF TypeOK, Handles
    <2> QED BY <2>1, <2>2, <2>3, FiniteHandles
  <1>5. /\ h \in Handles /\ validateHandle(h)
        /\ QueueOf(h) = RecordOf(h).q /\ QueueInv(h, QueueOf(h)) /\ QueueOf(h) \in Queue
        /\ h \in Pids => /\ process_table[h] \in PCB /\ process_table[h] # None
                         /\ RecordOf(h) = process_table[h] /\ h \notin Tids
        /\ h \in Tids => /\ thread_table[h] \in TCB /\ thread_table[h] # None
                         /\ RecordOf(h) = thread_table[h] /\ h \notin Pids
        /\ QueueOf(h).waiting_handles = <<>>
    <2>1. pc[n] \notin Sleeping BY <1>1 DEF Sleeping
    <2> QED BY <1>1, <2>1, ChildHere
  <1>6. PICK tid \in Tids : tid = getTid(n) /\ tid = thread_to_tid[n]
    BY <1>1, ThreadHere DEF getTid
  <1>7. {x \in hs : validateHandle(x)} = {h} BY <1>4, <1>5
  <1>8. /\ process_table' = [p \in Pids |->
              IF p = h THEN Register(process_table[p], tid) ELSE process_table[p]]
        /\ thread_table' = [t \in Tids |->
              IF t = h THEN Register(thread_table[t], tid) ELSE thread_table[t]]
        /\ \/ ~QueueOf(h).is_locked /\ Goto(n, "sleep") /\ UNCHANGED arg
           \/ QueueOf(h).is_locked /\ Goto(n, "getRetVal") /\ SetArg(n, h)
    BY <1>3, <1>5, <1>6, <1>7
  <1>9. /\ want'[n] = {h} /\ \A m \in Native : m # n => want'[m] = want[m]
    BY <1>1, <1>3, <1>4 DEF TypeOK
  <1>10. /\ pc'[n] = IF QueueOf(h).is_locked THEN "getRetVal" ELSE "sleep"
         /\ QueueOf(h).is_locked => arg'[n] = h
         /\ \A m \in Native : m # n => pc'[m] = pc[m] /\ arg'[m] = arg[m]
    BY <1>1, <1>8 DEF Goto, SetArg, TypeOK
  <1>11. PICK q : /\ q = IF QueueOf(h).is_locked THEN QueueOf(h)
                         ELSE [QueueOf(h) EXCEPT !.waiting_handles = Append(@, tid)]
                  /\ q.is_locked = QueueOf(h).is_locked
                  /\ q.assigned = q.is_locked
                  /\ q.is_locked => q.waiting_handles = <<>> /\ q.waiters <= 1
                  /\ ~q.is_locked => q.waiting_handles = <<tid>>
    <2> DEFINE r == [QueueOf(h) EXCEPT !.waiting_handles = Append(@, tid)]
    <2>1. Append(<<>>, tid) = <<tid>> OBVIOUS
    <2>2. /\ r.waiting_handles = <<tid>> /\ r.is_locked = QueueOf(h).is_locked
          /\ r.assigned = QueueOf(h).assigned
      BY <1>5, <2>1 DEF Queue
    <2> HIDE DEF r
    <2>3. /\ QueueOf(h).assigned = QueueOf(h).is_locked
          /\ QueueOf(h).is_locked =>
                QueueOf(h).waiting_handles = <<>> /\ QueueOf(h).waiters <= 1
      BY <1>5 DEF QueueInv
    <2>4. CASE QueueOf(h).is_locked BY <2>3, <2>4
    <2>5. CASE ~QueueOf(h).is_locked BY <2>2, <2>3, <2>5 DEF r
    <2> QED BY <2>4, <2>5
  <1>12. ASSUME NEW p \in Pids
         PROVE  /\ p # h => process_table'[p] = process_table[p]
                /\ p = h => /\ process_table'[p] # None
                            /\ process_table'[p].creator = process_table[p].creator
                            /\ process_table'[p].io = process_table[p].io
                            /\ process_table'[p].q = q
    <2>1. p # h => process_table'[p] = process_table[p] BY <1>8
    <2>2. ASSUME p = h
          PROVE  /\ process_table'[p] # None
                 /\ process_table'[p].creator = process_table[p].creator
                 /\ process_table'[p].io = process_table[p].io
                 /\ process_table'[p].q = q
      <3>1. process_table[p] \in PCB /\ QueueOf(h) = process_table[p].q BY <1>5, <2>2
      <3>2. process_table'[p] = Register(process_table[p], tid) BY <1>8, <2>2
      <3>3. PICK r \in PCB : r = process_table[p] BY <3>1
      <3>4. Register(r, tid).q = IF r.q.is_locked THEN r.q
               ELSE [r.q EXCEPT !.waiting_handles = Append(@, tid)]
        BY RecordSteps
      <3>5. Register(r, tid).q = q BY <1>11, <3>1, <3>3, <3>4
      <3>6. Register(r, tid) \in PCB BY PcbSteps
      <3> QED BY <3>2, <3>3, <3>5, <3>6, PcbSteps
    <2> QED BY <2>1, <2>2
  <1>13. ASSUME NEW t \in Tids
         PROVE  /\ t # h => thread_table'[t] = thread_table[t]
                /\ t = h => /\ thread_table'[t] # None
                            /\ thread_table'[t].pid = thread_table[t].pid
                            /\ thread_table'[t].thread = thread_table[t].thread
                            /\ thread_table'[t].waked_by = thread_table[t].waked_by
                            /\ thread_table'[t].q = q
    <2>1. t # h => thread_table'[t] = thread_table[t] BY <1>8
    <2>2. ASSUME t = h
          PROVE  /\ thread_table'[t] # None
                 /\ thread_table'[t].pid = thread_table[t].pid
                 /\ thread_table'[t].thread = thread_table[t].thread
                 /\ thread_table'[t].waked_by = thread_table[t].waked_by
                 /\ thread_table'[t].q = q
      <3>1. thread_table[t] \in TCB /\ QueueOf(h) = thread_table[t].q BY <1>5, <2>2
      <3>2. thread_table'[t] = Register(thread_table[t], tid) BY <1>8, <2>2
      <3>3. PICK r \in TCB : r = thread_table[t] BY <3>1
      <3>4. Register(r, tid).q = IF r.q.is_locked THEN r.q
               ELSE [r.q EXCEPT !.waiting_handles = Append(@, tid)]
        BY RecordSteps
      <3>5. Register(r, tid).q = q BY <1>11, <3>1, <3>3, <3>4
      <3>6. Register(r, tid) \in TCB BY TcbSteps
      <3> QED BY <3>2, <3>3, <3>5, <3>6, TcbSteps
    <2> QED BY <2>1, <2>2
  <1>14. Touches(n, h)
    <2>1. ASSUME NEW p \in Pids
          PROVE  /\ process_table[p] = None => process_table'[p] = None
                 /\ process_table[p] # None =>
                       /\ process_table'[p] # None
                       /\ process_table'[p].creator = process_table[p].creator
                       /\ process_table'[p].io = process_table[p].io
                       /\ process_table'[p].q.is_locked = process_table[p].q.is_locked
                       /\ p # h => process_table'[p].q = process_table[p].q
      <3>1. CASE p = h BY <1>5, <1>11, <1>12, <3>1
      <3>2. CASE p # h BY <1>12, <3>2
      <3> QED BY <3>1, <3>2
    <2>2. ASSUME NEW t \in Tids
          PROVE  /\ thread_table[t] = None => thread_table'[t] = None
                 /\ thread_table[t] # None =>
                       /\ thread_table'[t] # None
                       /\ thread_table'[t].pid = thread_table[t].pid
                       /\ thread_table'[t].thread = thread_table[t].thread
                       /\ thread_table'[t].q.is_locked = thread_table[t].q.is_locked
                       /\ t # h => thread_table'[t].q = thread_table[t].q
                       /\ thread_table'[t].waked_by = thread_table[t].waked_by
      <3>1. CASE t = h BY <1>5, <1>11, <1>13, <3>1
      <3>2. CASE t # h BY <1>13, <3>2
      <3> QED BY <3>1, <3>2
    <2> QED BY <1>2, <1>9, <1>10, <2>1, <2>2 DEF Touches
  <1>15. QueueOf(h)' = q BY <1>5, <1>12, <1>13 DEF QueueOf, Handles
  <1>16. pc'[n] = (IF q.is_locked THEN "getRetVal" ELSE "sleep") BY <1>10, <1>11
  <1>17. WaitInv(n)'
    <2>1. \E x \in children'[n] : want'[n] = {x} BY <1>2, <1>9
    <2>2. pc'[n] = "sleep" => QueueOf(h)'.waiting_handles = <<thread_to_tid'[n]>>
      BY <1>2, <1>6, <1>11, <1>15, <1>16
    <2>3. pc'[n] = "getRetVal" => arg'[n] = h /\ QueueOf(h)'.is_locked
      BY <1>10, <1>11, <1>15, <1>16
    <2>4. pc'[n] = "getRetVal" => QueueOf(arg[n])'.is_locked BY <2>3 DEF QueueOf
    <2>5. pc'[n] \in {"getRetVal", "sleep"} BY <1>16
    <2> QED BY <1>9, <2>1, <2>2, <2>3, <2>4, <2>5 DEF WaitInv, Waiting, Sleeping
  <1>18. QueueInv(h, q)'
    <2>1. ~q.is_locked => Waits(n, h, q)'
      BY <1>2, <1>6, <1>9, <1>11, <1>16 DEF Waits, Sleeping
    <2> QED BY <1>11, <2>1 DEF QueueInv
  <1>19. h \in Pids => QueueInv(h, process_table[h].q)' BY <1>12, <1>18 DEF QueueInv
  <1>20. h \in Tids => QueueInv(h, thread_table[h].q)' BY <1>13, <1>18 DEF QueueInv
  <1>21. pc'[n] \in Waiting BY <1>16 DEF Waiting, Sleeping
  <1> QED BY <1>1, <1>14, <1>17, <1>19, <1>20, <1>21, TouchKept

LEMMA GetWakeByMain ==
  ASSUME WellBehaved, AnyInv, Main, Accounts, NEW n \in Native, GetWakeBy(n)
  PROVE  ~Crash /\ Main' /\ Accounts'
  <1>1. /\ TypeOK /\ pc[n] = "woken" /\ BornInv(n) /\ TableInv /\ WaitInv(n) /\ ChildInv(n)
    BY DEF AnyInv, Main, GetWakeBy
  <1>2. PICK tid \in Tids : /\ tid = getTid(n) /\ tid = thread_to_tid[n] /\ tid = TidOf(n)
                            /\ thread_table[tid] \in TCB /\ thread_table[tid] # None
    BY <1>1, ThreadHere DEF getTid
  <1>3. PICK h \in children[n] : /\ h = thread_table[tid].waked_by /\ want[n] = {h}
                                 /\ QueueOf(h).is_locked
    <2>1. TCBOf(n) = thread_table[tid] BY <1>2 DEF TCBOf
    <2>2. PICK h \in children[n] : want[n] = {h}
      BY <1>1 DEF WaitInv, Waiting, Sleeping
    <2> QED BY <1>1, <2>1, <2>2 DEF WaitInv
  <1>4. h \in Handles /\ QueueInv(h, QueueOf(h)) BY <1>1, ChildHere
  <1>5. h \in Pids => h \notin Tids BY HandleSets
  <1>6. /\ thread_table' = [thread_table EXCEPT ![tid].waked_by = erInvalid_Handle]
        /\ UNCHANGED <<process_table, thread_to_tid, clones, procfs, openCounter, seen, lost,
                       children, want, crashed>>
        /\ SetArg(n, h) /\ Goto(n, "getRetVal") /\ ~crashed
    BY <1>2, <1>3 DEF GetWakeBy, alloc, user, Alive, Running
  <1>7. /\ pc'[n] = "getRetVal" /\ arg'[n] = h
        /\ \A m \in Native : m # n => pc'[m] = pc[m] /\ arg'[m] = arg[m]
    BY <1>1, <1>6 DEF Goto, SetArg, TypeOK
  <1>8. /\ thread_table'[tid] # None
        /\ thread_table'[tid].pid = thread_table[tid].pid
        /\ thread_table'[tid].thread = thread_table[tid].thread
        /\ thread_table'[tid].q = thread_table[tid].q
        /\ \A t \in Tids : t # tid => thread_table'[t] = thread_table[t]
    <2>1. /\ thread_table'[tid] = [thread_table[tid] EXCEPT !.waked_by = erInvalid_Handle]
          /\ \A t \in Tids : t # tid => thread_table'[t] = thread_table[t]
      BY <1>1, <1>6 DEF TypeOK
    <2>2. erInvalid_Handle \in Handle BY DEF Handle
    <2> QED BY <1>2, <2>1, <2>2, WakedBy
  <1>9. Touches(n, h) BY <1>2, <1>6, <1>7, <1>8 DEF Touches
  <1>10. QueueOf(h)' = QueueOf(h)
    <2>1. \A t \in Tids : thread_table'[t].q = thread_table[t].q BY <1>8
    <2> QED BY <1>4, <1>6, <2>1 DEF QueueOf, Handles
  <1>11. WaitInv(n)'
    <2>1. \E x \in children'[n] : want'[n] = {x} BY <1>3, <1>6
    <2>2. QueueOf(arg[n])'.is_locked
      <3>1. QueueOf(h)'.is_locked BY <1>3, <1>10
      <3> QED BY <1>7, <3>1 DEF QueueOf
    <2> QED BY <1>3, <1>6, <1>7, <2>1, <2>2 DEF WaitInv, Waiting, Sleeping
  <1>12. PICK q : q = QueueOf(h) /\ QueueInv(h, q) BY <1>4
  <1>13. QueueInv(h, q)'
    <2>1. q.is_locked /\ q.waiting_handles = <<>> BY <1>3, <1>12 DEF QueueInv
    <2> QED BY <1>12, <2>1 DEF QueueInv
  <1>14. QueueOf(h)' = q BY <1>10, <1>12
  <1>15. h \in Pids => QueueInv(h, process_table[h].q)'
    BY <1>13, <1>14 DEF QueueOf, QueueInv
  <1>16. h \in Tids => QueueInv(h, thread_table[h].q)'
    BY <1>5, <1>13, <1>14 DEF QueueOf, QueueInv
  <1>17. pc'[n] \in Waiting BY <1>7 DEF Waiting
  <1>18. ~Crash BY <1>6 DEF Crash
  <1> QED BY <1>1, <1>9, <1>11, <1>15, <1>16, <1>17, <1>18, TouchKept

LEMMA ReadRetValMain ==
  ASSUME WellBehaved, AnyInv, Main, Accounts, NEW n \in Native, ReadRetVal(n)
  PROVE  ~Crash /\ Main' /\ Accounts'
  <1>1. /\ TypeOK /\ pc[n] = "getRetVal" /\ WaitInv(n) /\ ChildInv(n)
    BY DEF AnyInv, Main, WaitInv, ReadRetVal
  <1>2. PICK h \in children[n] : h = arg[n] /\ want[n] = {h} /\ QueueOf(h).is_locked
    <2>1. PICK h \in children[n] : want[n] = {h}
      BY <1>1 DEF WaitInv, Waiting, Sleeping
    <2> QED BY <1>1, <2>1 DEF WaitInv
  <1>3. /\ h \in Handles /\ ReadRecord(h) /\ QueueOf(h) = RecordOf(h).q
        /\ QueueInv(h, QueueOf(h)) /\ QueueOf(h) \in Queue
        /\ h \in Pids => /\ process_table[h] \in PCB /\ process_table[h] # None
                         /\ RecordOf(h) = process_table[h] /\ h \notin Tids
        /\ h \in Tids => /\ thread_table[h] \in TCB /\ thread_table[h] # None
                         /\ RecordOf(h) = thread_table[h] /\ h \notin Pids
    BY <1>1, ChildHere
  <1>4. PICK q : /\ q = [QueueOf(h) EXCEPT !.waiters = IF @ > 0 THEN @ - 1 ELSE @]
                 /\ q.is_locked /\ q.assigned /\ q.waiting_handles = <<>> /\ q.waiters = 0
                 /\ q.assigned = q.is_locked
                 /\ q.is_locked = QueueOf(h).is_locked
    <2> DEFINE r == [QueueOf(h) EXCEPT !.waiters = IF @ > 0 THEN @ - 1 ELSE @]
    <2>1. /\ QueueOf(h).assigned = QueueOf(h).is_locked
          /\ QueueOf(h).waiting_handles = <<>>
          /\ QueueOf(h).waiters <= 1 /\ QueueOf(h).waiters \in Nat
      BY <1>2, <1>3, QueueTypes DEF QueueInv
    <2>2. /\ r.is_locked = QueueOf(h).is_locked /\ r.assigned = QueueOf(h).assigned
          /\ r.waiting_handles = QueueOf(h).waiting_handles
          /\ r.waiters = IF QueueOf(h).waiters > 0 THEN QueueOf(h).waiters - 1
                         ELSE QueueOf(h).waiters
      BY <1>3 DEF Queue
    <2> HIDE DEF r
    <2>3. r.waiters = 0 BY <2>1, <2>2
    <2>4. r.is_locked /\ r.assigned /\ r.assigned = r.is_locked BY <1>2, <2>1, <2>2
    <2> QED BY <1>2, <2>1, <2>2, <2>3, <2>4 DEF r
  <1>5. q.is_locked = QueueOf(h).is_locked BY <1>4
  <1>6. AfterRead(RecordOf(h)).q = q
    <2>1. PICK r : r = RecordOf(h) /\ (r \in PCB \/ r \in TCB) BY <1>3 DEF Handles
    <2>2. AfterRead(r).q = [r.q EXCEPT !.waiters = IF @ > 0 THEN @ - 1 ELSE @]
      BY <2>1, RecordSteps
    <2> QED BY <1>3, <1>4, <2>1, <2>2
  <1>7. RecordOf(h).q.assigned BY <1>2, <1>3 DEF QueueInv
  <1>8. /\ \/ /\ h \in Pids
              /\ process_table' = [process_table EXCEPT ![h] = AfterRead(@)]
              /\ UNCHANGED thread_table
           \/ /\ h \in Tids
              /\ thread_table' = [thread_table EXCEPT ![h] = AfterRead(@)]
              /\ UNCHANGED process_table
        /\ Goto(n, "clean")
        /\ UNCHANGED <<arg, want, children, thread_to_tid, clones, procfs, openCounter, seen, lost,
                       crashed>>
        /\ ~crashed
    BY <1>2, <1>3, <1>4, <1>6 DEF ReadRetVal, alloc, user, Alive, Running
  <1>9. pc'[n] = "clean" /\ \A m \in Native : m # n => pc'[m] = pc[m]
    BY <1>1, <1>8 DEF Goto, TypeOK
  <1>10. ASSUME NEW p \in Pids
        PROVE  /\ p # h => process_table'[p] = process_table[p]
               /\ p = h => /\ process_table'[p] # None
                           /\ process_table'[p].creator = process_table[p].creator
                           /\ process_table'[p].io = process_table[p].io
                           /\ process_table'[p].q = q
    <2>1. p # h => process_table'[p] = process_table[p] BY <1>1, <1>8 DEF TypeOK
    <2>2. ASSUME p = h
          PROVE  /\ process_table'[p] # None
                 /\ process_table'[p].creator = process_table[p].creator
                 /\ process_table'[p].io = process_table[p].io
                 /\ process_table'[p].q = q
      <3>1. PICK r \in PCB : r = process_table[p] /\ AfterRead(r).q = q
        BY <1>3, <1>6, <2>2
      <3>2. process_table'[p] = AfterRead(r) BY <1>1, <1>3, <1>8, <2>2, <3>1 DEF TypeOK
      <3>3. AfterRead(r) \in PCB BY PcbSteps
      <3> QED BY <3>1, <3>2, <3>3, PcbSteps
    <2> QED BY <2>1, <2>2
  <1>11. ASSUME NEW t \in Tids
         PROVE  /\ t # h => thread_table'[t] = thread_table[t]
                /\ t = h => /\ thread_table'[t] # None
                            /\ thread_table'[t].pid = thread_table[t].pid
                            /\ thread_table'[t].thread = thread_table[t].thread
                            /\ thread_table'[t].waked_by = thread_table[t].waked_by
                            /\ thread_table'[t].q = q
    <2>1. t # h => thread_table'[t] = thread_table[t] BY <1>1, <1>8 DEF TypeOK
    <2>2. ASSUME t = h
          PROVE  /\ thread_table'[t] # None
                 /\ thread_table'[t].pid = thread_table[t].pid
                 /\ thread_table'[t].thread = thread_table[t].thread
                 /\ thread_table'[t].waked_by = thread_table[t].waked_by
                 /\ thread_table'[t].q = q
      <3>1. PICK r \in TCB : r = thread_table[t] /\ AfterRead(r).q = q
        BY <1>3, <1>6, <2>2
      <3>2. thread_table'[t] = AfterRead(r) BY <1>1, <1>3, <1>8, <2>2, <3>1 DEF TypeOK
      <3>3. AfterRead(r) \in TCB BY TcbSteps
      <3> QED BY <3>1, <3>2, <3>3, TcbSteps
    <2> QED BY <2>1, <2>2
  <1>12. Touches(n, h)
    <2>1. ASSUME NEW p \in Pids
          PROVE  /\ process_table[p] = None => process_table'[p] = None
                 /\ process_table[p] # None =>
                       /\ process_table'[p] # None
                       /\ process_table'[p].creator = process_table[p].creator
                       /\ process_table'[p].io = process_table[p].io
                       /\ process_table'[p].q.is_locked = process_table[p].q.is_locked
                       /\ p # h => process_table'[p].q = process_table[p].q
      <3>1. CASE p = h
        <4>1. process_table[p] # None /\ process_table[p].q = QueueOf(h) BY <1>3, <3>1
        <4> QED BY <1>5, <1>10, <3>1, <4>1
      <3>2. CASE p # h BY <1>10, <3>2
      <3> QED BY <3>1, <3>2
    <2>2. ASSUME NEW t \in Tids
          PROVE  /\ thread_table[t] = None => thread_table'[t] = None
                 /\ thread_table[t] # None =>
                       /\ thread_table'[t] # None
                       /\ thread_table'[t].pid = thread_table[t].pid
                       /\ thread_table'[t].thread = thread_table[t].thread
                       /\ thread_table'[t].q.is_locked = thread_table[t].q.is_locked
                       /\ t # h => thread_table'[t].q = thread_table[t].q
                       /\ thread_table'[t].waked_by = thread_table[t].waked_by
      <3>1. CASE t = h
        <4>1. thread_table[t] # None /\ thread_table[t].q = QueueOf(h) BY <1>3, <3>1
        <4> QED BY <1>5, <1>11, <3>1, <4>1
      <3>2. CASE t # h BY <1>11, <3>2
      <3> QED BY <3>1, <3>2
    <2> QED BY <1>8, <1>9, <2>1, <2>2 DEF Touches
  <1>13. QueueOf(h)' = q BY <1>3, <1>10, <1>11 DEF QueueOf, Handles
  <1>14. WaitInv(n)'
    <2>1. \E x \in children'[n] : want'[n] = {x} BY <1>2, <1>8
    <2>2. QueueOf(arg[n])'.is_locked
      <3>1. QueueOf(h)'.is_locked BY <1>4, <1>13
      <3> QED BY <1>2, <1>8, <3>1 DEF QueueOf
    <2> QED BY <1>2, <1>8, <1>9, <2>1, <2>2 DEF WaitInv, Waiting, Sleeping
  <1>15. QueueInv(h, q)' BY <1>4 DEF QueueInv
  <1>16. h \in Pids => QueueInv(h, process_table[h].q)' BY <1>10, <1>15 DEF QueueInv
  <1>17. h \in Tids => QueueInv(h, thread_table[h].q)' BY <1>11, <1>15 DEF QueueInv
  <1>18. pc'[n] \in Waiting BY <1>9 DEF Waiting
  <1>19. ~Crash BY <1>8 DEF Crash
  <1> QED BY <1>1, <1>12, <1>14, <1>16, <1>17, <1>18, <1>19, TouchKept

\* The records in R are of no thread that runs, of no process of such a thread
\* and of nothing that is being created; with a process its threads go.
Abandoned(R) ==
    /\ \A m \in Native :
          /\ pc[m] # "unborn" => TidOf(m) \notin R /\ TCBOf(m).pid \notin R
          /\ pc[m] \in Cloning => arg[m] \notin R
    /\ \A t \in Tids : t \notin R /\ thread_table[t] # None => thread_table[t].pid \notin R

\* The records in R go, and the join of h is over.
Removes(n, h, R) ==
    /\ UNCHANGED <<thread_to_tid, clones>>
    /\ \A p \in Pids : process_table'[p] = IF p \in R THEN None ELSE process_table[p]
    /\ \A t \in Tids : thread_table'[t] = IF t \in R THEN None ELSE thread_table[t]
    /\ pc'[n] = "user" /\ want'[n] = {} /\ children'[n] = children[n] \ {h}
    /\ \A m \in Native : m # n =>
          /\ pc'[m] = pc[m] /\ arg'[m] = arg[m]
          /\ want'[m] = want[m] /\ children'[m] = children[m]

LEMMA RemoveKept ==
  ASSUME TypeOK, TypeOK', Main, NEW n \in Native, NEW h \in children[n], pc[n] = "clean",
         NEW R, Removes(n, h, R), Abandoned(R),
         h \in R,
         \A m \in Native : \A x \in children[m] : x \in R => x = h,
         \A p \in Pids : p \in R => p = h
  PROVE  Main'
  <1>1. /\ BornInv(n) /\ WaitInv(n) /\ ChildInv(n) /\ TableInv /\ QueuesInv
    BY DEF Main
  <1>2. Quiet(R) BY DEF Quiet, Stay, LocksStay, Removes
  <1>3. BornInv(n)' /\ ChildInv(n)'
    BY <1>1, <1>2, SelfKept DEF Removes, Abandoned
  <1>4. WaitInv(n)' BY DEF Removes, WaitInv, Waiting, Sleeping
  <1>5. CreatorInv(n)' BY NotCloning DEF Removes, Cloning
  <1>6. ASSUME NEW m \in Native, m # n, NEW x \in children[m] PROVE x \notin R
    <2>1. x \in Handles BY DEF TypeOK, Handles
    <2> QED BY <1>6, <2>1 DEF Main, ChildrenApart
  <1>7. ASSUME NEW m \in Native, m # n
        PROVE  BornInv(m)' /\ WaitInv(m)' /\ ChildInv(m)' /\ CreatorInv(m)'
    <2>1. BornInv(m) /\ WaitInv(m) /\ ChildInv(m) /\ CreatorInv(m) BY DEF Main
    <2>2. SameThread(m) BY <1>7 DEF SameThread, Removes
    <2>3. ASSUME NEW x \in want[m] PROVE QueueOf(x)' = QueueOf(x)
      <3>1. x \in children[m] /\ x \in Handles BY <2>1, WantedHere
      <3>2. x \notin R BY <1>6, <1>7, <3>1
      <3> QED BY <3>1, <3>2 DEF Removes, QueueOf, Handles
    <2>4. pc[m] = "woken" => TCBOf(m)' = TCBOf(m)
      <3>1. ASSUME pc[m] = "woken" PROVE TidOf(m) \in Tids /\ TidOf(m) \notin R
        BY <2>1, <3>1 DEF BornInv, Abandoned
      <3>2. TidOf(m)' = TidOf(m) BY <2>2 DEF TidOf, SameThread
      <3> QED BY <3>1, <3>2 DEF TCBOf, Removes
    <2>5. /\ BornInv(m)' /\ WaitInv(m)' /\ ChildInv(m)'
          /\ pc[m] # "unborn" => TCBOf(m).pid = TCBOf(m).pid'
      <3>1. pc[m] # "unborn" => TidOf(m) \notin R /\ TCBOf(m).pid \notin R BY DEF Abandoned
      <3>2. \A x \in children[m] : x \notin R BY <1>6, <1>7
      <3> QED BY <1>1, <1>2, <2>1, <2>2, <2>3, <2>4, <3>1, <3>2, OtherKept
    <2>6. /\ \A p \in Pids :
               /\ process_table[p] = None => process_table'[p] = None
               /\ process_table'[p] # None =>
                     /\ process_table'[p].creator = process_table[p].creator
                     /\ process_table'[p].io = process_table[p].io
          /\ \A t \in Tids :
               /\ thread_table[t] = None => thread_table'[t] = None
               /\ thread_table'[t] # None => /\ thread_table'[t].pid = thread_table[t].pid
                                             /\ thread_table'[t].thread = thread_table[t].thread
          /\ \A k \in Native : children'[k] \subseteq children[k]
      BY DEF Removes
    <2>7. pc[m] \in Cloning => arg[m] \notin R BY DEF Abandoned
    <2>8. CreatorInv(m)' BY <1>2, <2>1, <2>2, <2>5, <2>6, <2>7, CreatorKept DEF Quiet
    <2> QED BY <2>5, <2>8
  <1>8. ChildrenApart'
    <2>1. \A m \in Native : children'[m] \subseteq children[m] BY DEF Removes
    <2> QED BY <2>1 DEF Main, ChildrenApart
  <1>9. OneCreator' BY DEF Main, OneCreator, Removes, Cloning
  <1>10. \A m \in Native : pc[m] \in Cloning => pc'[m] = pc[m] /\ arg'[m] = arg[m]
    BY DEF Removes, Cloning
  <1>11. TableInv'
    <2>1. ASSUME NEW t \in Tids, thread_table'[t] # None
          PROVE  /\ thread_table'[t].pid \in Pids /\ process_table'[thread_table'[t].pid] # None
                 /\ thread_table'[t].thread = Nobody =>
                       \E k \in Native : pc'[k] = "startThread" /\ arg'[k] = t
      <3>1. /\ thread_table[t] # None /\ t \notin R /\ thread_table'[t] = thread_table[t]
        BY <2>1 DEF Removes
      <3>2. /\ thread_table[t].pid \in Pids /\ process_table[thread_table[t].pid] # None
            /\ thread_table[t].thread = Nobody =>
                       \E k \in Native : pc[k] = "startThread" /\ arg[k] = t
        BY <1>1, <3>1 DEF TableInv
      <3>3. process_table'[thread_table[t].pid] # None
        BY <3>1, <3>2 DEF Removes, Abandoned
      <3> QED BY <1>10, <3>1, <3>2, <3>3 DEF Cloning
    <2> QED BY <2>1 DEF TableInv
  <1>12. QueuesInv'
    <2>1. QueuesStay BY DEF QueuesStay, Removes
    <2>2. SleepersStay BY DEF SleepersStay, Sleeping, Removes
    <2> QED BY <1>1, <2>1, <2>2, QueuesKept
  <1>13. OwnedInv'
    <2>1. ASSUME NEW p \in Pids, p # 0, process_table'[p] # None
          PROVE  \/ \E m \in Native : p \in children'[m]
                 \/ \E m \in Native : pc'[m] \in Creating /\ arg'[m] = p
      <3>1. process_table[p] # None /\ p \notin R BY <2>1 DEF Removes
      <3>2. CASE \E m \in Native : pc[m] \in Creating /\ arg[m] = p
        <4>1. Creating \subseteq Cloning BY DEF Creating, Cloning
        <4> QED BY <1>10, <3>2, <4>1
      <3>3. CASE \E m \in Native : p \in children[m]
        <4>1. PICK m \in Native : p \in children[m] BY <3>3
        <4>2. p # h BY <3>1
        <4> QED BY <4>1, <4>2 DEF Removes
      <3> QED BY <2>1, <3>1, <3>2, <3>3 DEF Main, OwnedInv
    <2> QED BY <2>1 DEF OwnedInv
  <1>14. RoomInv'
    <2>1. Records' \subseteq Records BY DEF Records, Removes
    <2>2. IsFiniteSet(Records) /\ Cardinality(Records) \in Nat /\ clones \in Nat
      BY RecordsCount
    <2>3. Cardinality(Records') <= Cardinality(Records) /\ Cardinality(Records') \in Nat
      BY <2>1, <2>2, FS_Subset, FS_CardinalityType
    <2>4. \A m \in Native : pc'[m] \in Opening => pc[m] \in Opening
      BY DEF Removes, Opening, Creating
    <2>5. clones' = clones BY DEF Removes
    <2> QED BY <2>2, <2>3, <2>4, <2>5 DEF Main, RoomInv
  <1> QED BY <1>3, <1>4, <1>5, <1>7, <1>8, <1>9, <1>11, <1>12, <1>13, <1>14 DEF Main

\* Nobody is woken.
LEMMA NobodyWoken ==
  ASSUME TypeOK, NEW n \in Native, NEW l, PcAfter(n, l, {})
  PROVE  pc'[n] = l /\ \A m \in Native : m # n => pc'[m] = pc[m]
  BY DEF PcAfter, Notified

LEMMA NobodyTold ==
  ASSUME NEW table, NEW waker
  PROVE  \A t \in Tids : WakeUp(table, {}, waker)[t] = table[t]
  BY DEF WakeUp

LEMMA JoinDoneSteps ==
  ASSUME TypeOK, NEW n \in Native, NEW h, want[n] = {h}, JoinDone(n, h)
  PROVE  /\ want'[n] = {} /\ children'[n] = children[n] \ {h}
         /\ \A m \in Native : m # n =>
               want'[m] = want[m] /\ children'[m] = children[m] /\ arg'[m] = arg[m]
  <1>1. want'[n] = {} /\ children'[n] = children[n] \ {h}
    <2>1. children'[n] = children[n] \ ({h} \cup IF Cardinality(want[n]) = 1 THEN want[n] ELSE {})
      BY DEF JoinDone, TypeOK
    <2> QED BY <2>1 DEF JoinDone, TypeOK
  <1>2. \A m \in Native : m # n =>
           want'[m] = want[m] /\ children'[m] = children[m] /\ arg'[m] = arg[m]
    BY DEF JoinDone, SetArg, TypeOK
  <1> QED BY <1>1, <1>2

\* The threads of a process that is done are all at their end: nobody runs as
\* one of them, waits for one or creates one.
LEMMA DoneProcess ==
  ASSUME TypeOK, Main, NEW h \in Pids, process_table[h] # None,
         process_table[h].q.is_locked
  PROVE  /\ Abandoned({h} \cup ThreadsOf(h))
         /\ \A t \in ThreadsOf(h) : /\ thread_table[t].thread # Nobody
                                    /\ thread_table[t].q.waiting_handles = <<>>
                                    /\ \A m \in Native : t \notin children[m]
  <1> DEFINE R == {h} \cup ThreadsOf(h)
  <1>1. ASSUME NEW m \in Native, pc[m] # "unborn"
        PROVE  /\ TCBOf(m).pid # h /\ TidOf(m) \notin R /\ TCBOf(m).pid \notin R
               /\ TCBOf(m).pid \in Pids
    <2>1. BornInv(m) /\ TableInv BY DEF Main
    <2>2. /\ TidOf(m) \in Tids /\ TCBOf(m) = thread_table[TidOf(m)]
          /\ TCBOf(m).pid \in Pids /\ ~process_table[TCBOf(m).pid].q.is_locked
      BY <1>1, <2>1, ThreadHere
    <2> QED BY <2>2, HandleSets DEF ThreadsOf
  <1>2. ASSUME NEW m \in Native, pc[m] \in Cloning PROVE arg[m] \notin R
    <2>1. CreatorInv(m) /\ BornInv(m) BY DEF Main
    <2>2. pc[m] # "unborn" BY <1>2 DEF Cloning
    <2>3. CASE pc[m] \in {"advancePid", "createFreePCB"}
      BY <2>1, <2>3, HandleSets DEF CreatorInv, ThreadsOf
    <2>4. CASE pc[m] \in Creating BY <2>1, <2>4, HandleSets DEF CreatorInv, ThreadsOf
    <2>5. CASE pc[m] = "startThread"
      BY <1>1, <2>1, <2>2, <2>5, HandleSets DEF CreatorInv, ThreadsOf
    <2> QED BY <1>2, <2>3, <2>4, <2>5 DEF Cloning, Creating
  <1>3. ASSUME NEW t \in Tids, t \notin R, thread_table[t] # None
        PROVE  thread_table[t].pid \notin R
    <2>1. thread_table[t].pid \in Pids BY <1>3 DEF Main, TableInv
    <2> QED BY <1>3, <2>1, HandleSets DEF ThreadsOf
  <1>4. Abandoned(R)
    <2>1. \A m \in Native : pc[m] # "unborn" => TidOf(m) \notin R /\ TCBOf(m).pid \notin R
      BY <1>1
    <2> HIDE DEF R
    <2> QED BY <1>2, <1>3, <2>1 DEF Abandoned
  <1>5. ASSUME NEW t \in ThreadsOf(h), NEW m \in Native PROVE t \notin children[m]
    <2>1. t \in Tids /\ thread_table[t] # None /\ thread_table[t].pid = h BY DEF ThreadsOf
    <2>2. ChildInv(m) BY DEF Main
    <2>3. CASE pc[m] = "unborn" BY <2>2, <2>3 DEF ChildInv
    <2>4. CASE pc[m] # "unborn" BY <1>1, <2>1, <2>2, <2>4 DEF ChildInv
    <2> QED BY <2>3, <2>4
  <1>6. ASSUME NEW t \in ThreadsOf(h)
        PROVE  /\ thread_table[t].thread # Nobody
               /\ thread_table[t].q.waiting_handles = <<>>
    <2>1. t \in Tids /\ thread_table[t] # None /\ thread_table[t].pid = h BY DEF ThreadsOf
    <2>2. thread_table[t].thread # Nobody
      <3>1. SUFFICES ASSUME thread_table[t].thread = Nobody PROVE FALSE OBVIOUS
      <3>2. PICK k \in Native : pc[k] = "startThread" /\ arg[k] = t
        BY <2>1, <3>1 DEF Main, TableInv
      <3> QED BY <1>2, <3>2 DEF Cloning
    <2>3. thread_table[t].q.waiting_handles = <<>>
      <3>1. SUFFICES ASSUME thread_table[t].q.waiting_handles # <<>> PROVE FALSE OBVIOUS
      <3>2. PICK k \in Native : pc[k] \in Sleeping /\ want[k] = {t}
        BY <2>1, <3>1 DEF Main, QueuesInv, QueueInv, Waits
      <3>3. t \in children[k] BY <3>2 DEF Main, WaitInv
      <3> QED BY <1>5, <3>3
    <2> QED BY <2>2, <2>3
  <1> QED BY <1>4, <1>5, <1>6

\* A process that is removed takes the opening of its streams with it.
LEMMA RemovalBalances ==
  ASSUME TypeOK, Counted, Balanced, NEW n \in Native, Loaded(n), NEW h \in Pids,
         process_table[h] # None, openCounter' = Closed(n, h), lost' = lost,
         \A p \in Pids : process_table'[p] = IF p = h THEN None ELSE process_table[p]
  PROVE  Balanced'
  <1> SUFFICES ASSUME CountsAlone PROVE OpeningsBalance' BY DEF Balanced, CountsAlone
  <1>1. openCounter' = IF process_table[h].io THEN openCounter - 1 ELSE openCounter
    BY ClosedOnce
  <1>2. openCounter = lost + Cardinality(Streams) /\ lost \in Nat
    BY DEF Balanced, OpeningsBalance, Streams, TypeOK
  <1>3. Streams' = Streams \ {h} BY DEF Streams
  <1>4. IsFiniteSet(Streams) /\ Cardinality(Streams) \in Nat BY StreamsCount
  <1>5. CASE process_table[h].io
    <2>1. h \in Streams BY <1>5 DEF Streams
    <2>2. Cardinality(Streams \ {h}) = Cardinality(Streams) - 1
      BY <1>4, <2>1, FS_RemoveElement
    <2>3. openCounter' = lost' + Cardinality(Streams') BY <1>1, <1>2, <1>3, <1>4, <1>5, <2>2
    <2> QED BY <2>3 DEF OpeningsBalance, Streams
  <1>6. CASE ~process_table[h].io
    <2>1. Streams' = Streams BY <1>3, <1>6 DEF Streams
    <2>2. openCounter' = lost' + Cardinality(Streams') BY <1>1, <1>2, <1>6, <2>1
    <2> QED BY <2>2 DEF OpeningsBalance, Streams
  <1> QED BY <1>5, <1>6

LEMMA CleanMain ==
  ASSUME WellBehaved, AnyInv, AnyInv', Main, Accounts, NEW n \in Native, Clean(n)
  PROVE  ~Crash /\ Main' /\ Accounts'
  <1>1. /\ TypeOK /\ TypeOK' /\ pc[n] = "clean" /\ WaitInv(n) /\ ChildInv(n)
        /\ 0 \notin children[n] /\ BornInv(n) /\ TableInv
    BY DEF AnyInv, ArgInv, Main, Clean
  <1>2. PICK h \in children[n] : h = arg[n] /\ want[n] = {h} /\ QueueOf(h).is_locked
    <2>1. PICK h \in children[n] : want[n] = {h}
      BY <1>1 DEF WaitInv, Waiting, Sleeping
    <2> QED BY <1>1, <2>1 DEF WaitInv
  <1>3. h \in Handles /\ h # 0 /\ QueueOf(h).waiting_handles = <<>> /\ validateHandle(h)
    <2>1. QueueInv(h, QueueOf(h)) /\ h \in Handles /\ validateHandle(h) BY <1>1, ChildHere
    <2> QED BY <1>1, <1>2, <2>1 DEF QueueInv
  <1>4. CASE h \in Pids
    <2> DEFINE R == {h} \cup ThreadsOf(h)
    <2>1. process_table[h] # None /\ process_table[h].q = QueueOf(h)
      BY <1>1, <1>4 DEF ChildInv, QueueOf
    <2>2. /\ Abandoned(R)
          /\ \A t \in ThreadsOf(h) : /\ thread_table[t].thread # Nobody
                                     /\ thread_table[t].q.waiting_handles = <<>>
                                     /\ \A m \in Native : t \notin children[m]
      BY <1>1, <1>2, <1>4, <2>1, DoneProcess
    <2>3. ~halted BY <1>2, <1>4 DEF Clean, Crash, Alive, Running
    <2>4. Doomed(h) = ThreadsOf(h)
      BY <1>3, <2>3 DEF AnyInv, Booted, Doomed, ThreadsOf
    <2>5. CanClean(h)
      BY <1>4, <2>1, <2>2, <2>4 DEF CanClean, CanCleanProcess, Detachable
    <2>6. /\ CleanProcess(n, h, "user") /\ JoinDone(n, h)
          /\ ~crashed /\ UNCHANGED <<crashed, halted>>
      BY <1>2, <1>4, <2>5 DEF Clean, Alive, Running
    <2>7. /\ want'[n] = {} /\ children'[n] = children[n] \ {h}
          /\ \A m \in Native : m # n =>
                want'[m] = want[m] /\ children'[m] = children[m] /\ arg'[m] = arg[m]
      BY <1>1, <1>2, <2>6, JoinDoneSteps
    <2> DEFINE threadWaiters == {w \in Tids : \E t \in ThreadsOf(h) :
                  /\ w \in Elements(thread_table[t].q.waiting_handles)
                  /\ ~(w \in Doomed(h) /\ w < t)}
               waiters == IF getTid(n) \in Doomed(h) \/ getPid(n) = erInvalid_Handle THEN {}
                          ELSE Elements(process_table[h].q.waiting_handles) \ Doomed(h)
               kept == [t \in Tids |-> IF t \in Doomed(h) THEN None
                                       ELSE IF t \in ThreadsOf(h)
                                            THEN NoWaiters(thread_table[t])
                                            ELSE thread_table[t]]
    <2>8. Elements(<<>>) = {} BY DEF Elements
    <2>9. threadWaiters = {} BY <2>2, <2>8
    <2>10. waiters = {} BY <1>3, <2>1, <2>8
    <2>11. /\ procfs' = procfs \ {h}
           /\ thread_table' = WakeUp(WakeUp(kept, threadWaiters, getTid(n)),
                                     waiters, getPid(n))
           /\ openCounter' = Closed(n, h)
           /\ process_table' = [process_table EXCEPT ![h] = None]
           /\ PcAfter(n, "user", threadWaiters \cup waiters)
           /\ UNCHANGED <<thread_to_tid, clones, lost>>
      BY <2>6 DEF CleanProcess, alloc, ProcfsWithout
    <2>12. \A t \in Tids : kept[t] = IF t \in ThreadsOf(h) THEN None ELSE thread_table[t]
      BY <2>4
    <2> HIDE DEF threadWaiters, waiters, kept
    <2>13. /\ thread_table' = WakeUp(WakeUp(kept, {}, getTid(n)), {}, getPid(n))
           /\ PcAfter(n, "user", {})
      BY <2>9, <2>10, <2>11
    <2>14. pc'[n] = "user" /\ \A m \in Native : m # n => pc'[m] = pc[m]
      BY <1>1, <2>13, NobodyWoken
    <2>15. \A t \in Tids : thread_table'[t] = IF t \in ThreadsOf(h) THEN None
                                              ELSE thread_table[t]
      BY <2>12, <2>13, NobodyTold
    <2>16. \A p \in Pids : process_table'[p] = IF p = h THEN None ELSE process_table[p]
      BY <1>1, <2>11 DEF TypeOK
    <2>17. /\ \A t \in Tids : t \in R <=> t \in ThreadsOf(h)
           /\ \A p \in Pids : p \in R <=> p = h
      BY <1>4, HandleSets DEF ThreadsOf
    <2>18. \A m \in Native : \A x \in children[m] : x \in R => x = h BY <2>2
    <2>19. h \in R OBVIOUS
    <2> HIDE DEF R
    <2>20. Removes(n, h, R) BY <2>7, <2>11, <2>14, <2>15, <2>16, <2>17 DEF Removes
    <2>21. Main' BY <1>1, <2>2, <2>17, <2>18, <2>19, <2>20, RemoveKept
    <2>22. Balanced'
      <3>1. Loaded(n) BY <1>2, <1>4, <2>5 DEF Clean
      <3> QED BY <1>1, <1>4, <2>1, <2>11, <2>16, <3>1, RemovalBalances DEF AnyInv, Accounts
    <2>23. ProcfsShowsProcesses'
      <3> DEFINE shown == {p \in Pids \ {0} : process_table[p] # None}
                 hiding == {m \in Native : pc[m] \in {"initialisePCB", "loadProgram"}}
                 hidden == {arg[m] : m \in hiding}
      <3>1. hiding' = hiding /\ n \notin hiding BY <1>1, <2>14
      <3>2. \A m \in hiding : arg'[m] = arg[m] BY <2>7, <3>1
      <3>3. hidden' = hidden BY <3>1, <3>2
      <3>4. shown' = shown \ {h} BY <2>16
      <3>5. procfs = shown \ hidden BY DEF Accounts, ProcfsShowsProcesses
      <3> HIDE DEF shown, hiding, hidden
      <3>6. procfs' = shown' \ hidden' BY <2>11, <3>3, <3>4, <3>5
      <3> QED BY <3>6 DEF ProcfsShowsProcesses, shown, hiding, hidden
    <2>24. ~Crash BY <2>6 DEF Crash
    <2> QED BY <2>21, <2>22, <2>23, <2>24 DEF Accounts
  <1>5. CASE h \in Tids
    <2>1. /\ thread_table[h] # None /\ thread_table[h].q = QueueOf(h) /\ h \notin Pids
          /\ thread_table[h].thread # Nobody
      BY <1>1, <1>5, HandleSets DEF ChildInv, QueueOf
    <2>2. CanClean(h) BY <1>3, <2>1 DEF CanClean, CanCleanThread, Detachable
    <2>3. /\ CleanThread(n, h) /\ JoinDone(n, h)
          /\ ~crashed /\ ~halted /\ UNCHANGED <<crashed, halted>>
      BY <1>2, <2>1, <2>2 DEF Clean, Alive, Running
    <2>4. /\ want'[n] = {} /\ children'[n] = children[n] \ {h}
          /\ \A m \in Native : m # n =>
                want'[m] = want[m] /\ children'[m] = children[m] /\ arg'[m] = arg[m]
      BY <1>1, <1>2, <2>3, JoinDoneSteps
    <2>5. h # BASE_TID_INDEX
      <3>1. /\ BornInv(Init0) /\ pc[Init0] \notin {"unborn", "start"}
            /\ thread_to_tid[Init0] = BASE_TID_INDEX
        BY <2>3 DEF Main, AnyInv, Booted
      <3>2. ~thread_table[BASE_TID_INDEX].q.is_locked
        BY <3>1 DEF BornInv, TCBOf, TidOf
      <3> QED BY <1>2, <2>1, <3>2
    <2>6. Elements(thread_table[h].q.waiting_handles) = {} BY <1>3, <2>1 DEF Elements
    <2>7. /\ thread_table' = [WakeUp(thread_table, {}, getTid(n)) EXCEPT ![h] = None]
          /\ PcAfter(n, "user", {})
          /\ UNCHANGED <<process_table, thread_to_tid, clones, procfs, openCounter, seen, lost>>
      BY <2>3, <2>5, <2>6 DEF CleanThread, alloc
    <2>8. pc'[n] = "user" /\ \A m \in Native : m # n => pc'[m] = pc[m]
      BY <1>1, <2>7, NobodyWoken
    <2>9. \A t \in Tids : thread_table'[t] = IF t = h THEN None ELSE thread_table[t]
      <3>1. DOMAIN WakeUp(thread_table, {}, getTid(n)) = Tids BY DEF WakeUp
      <3> QED BY <1>5, <2>7, <3>1, NobodyTold
    <2>10. Removes(n, h, {h}) BY <1>5, <2>1, <2>4, <2>7, <2>8, <2>9 DEF Removes
    <2>11. Abandoned({h})
      <3>1. ASSUME NEW m \in Native, pc[m] # "unborn"
            PROVE  TidOf(m) # h /\ TCBOf(m).pid # h
        <4>1. BornInv(m) BY DEF Main
        <4>2. /\ TCBOf(m) = thread_table[TidOf(m)] /\ ~TCBOf(m).q.is_locked
              /\ TCBOf(m).pid \in Pids
          BY <1>1, <3>1, <4>1, ThreadHere
        <4> QED BY <1>2, <2>1, <4>2
      <3>2. ASSUME NEW m \in Native, pc[m] \in Cloning PROVE arg[m] # h
        <4>1. CreatorInv(m) BY DEF Main
        <4> QED BY <2>1, <3>2, <4>1 DEF CreatorInv, Cloning, Creating
      <3>3. \A t \in Tids : thread_table[t] # None => thread_table[t].pid # h
        BY <1>1, <2>1 DEF TableInv
      <3>4. \A m \in Native : pc[m] # "unborn" => TidOf(m) # h /\ TCBOf(m).pid # h BY <3>1
      <3> QED BY <3>2, <3>3, <3>4 DEF Abandoned
    <2>12. Main' BY <1>1, <1>2, <2>1, <2>10, <2>11, RemoveKept
    <2>13. Balanced' BY <2>7 DEF Accounts, Balanced, OpeningsBalance
    <2>14. ProcfsShowsProcesses'
      <3> DEFINE hiding == {m \in Native : pc[m] \in {"initialisePCB", "loadProgram"}}
      <3>1. hiding' = hiding /\ n \notin hiding BY <1>1, <2>8
      <3>2. \A m \in hiding : arg'[m] = arg[m] BY <2>4, <3>1
      <3>3. {arg'[m] : m \in hiding'} = {arg[m] : m \in hiding} BY <3>1, <3>2
      <3> QED BY <2>7, <3>3 DEF Accounts, ProcfsShowsProcesses
    <2>15. ~Crash BY <2>3 DEF Crash
    <2> QED BY <2>12, <2>13, <2>14, <2>15 DEF Accounts
  <1> QED BY <1>3, <1>4, <1>5 DEF Handles

\* The records in E are done now; who waited in their queues is told by one of
\* them, and woken if he sleeps.
InQueue(t, x) == t \in Elements(QueueOf(x).waiting_handles)

Ends(n, E) ==
    /\ UNCHANGED <<arg, want, clones, procfs, openCounter, seen, lost>>
    /\ \A x \in E : /\ x \in Handles /\ validateHandle(x) /\ ~QueueOf(x).is_locked
                    /\ QueueOf(x)'.is_locked /\ QueueOf(x)'.assigned = QueueOf(x)'.is_locked
                    /\ QueueOf(x)'.waiting_handles = <<>>
                    /\ QueueOf(x)'.waiters = Len(QueueOf(x).waiting_handles)
    /\ \A p \in Pids :
          /\ process_table[p] = None => process_table'[p] = None
          /\ process_table[p] # None =>
                /\ process_table'[p] # None
                /\ process_table'[p].creator = process_table[p].creator
                /\ process_table'[p].io = process_table[p].io
                /\ p \notin E => process_table'[p].q = process_table[p].q
    /\ \A t \in Tids :
          /\ thread_table[t] = None => thread_table'[t] = None
          /\ thread_table[t] # None =>
                /\ thread_table'[t] # None
                /\ thread_table'[t].pid = thread_table[t].pid
                /\ thread_table'[t].thread = thread_table[t].thread
                /\ t \notin E => thread_table'[t].q = thread_table[t].q
                /\ IF \E x \in E : InQueue(t, x)
                   THEN \E x \in E : InQueue(t, x) /\ thread_table'[t].waked_by = x
                   ELSE thread_table'[t].waked_by = thread_table[t].waked_by
    /\ pc'[n] = "unborn" /\ children'[n] = {} /\ thread_to_tid'[n] = erInvalid_Handle
    /\ \A m \in Native : m # n =>
          /\ children'[m] = children[m] /\ thread_to_tid'[m] = thread_to_tid[m]
          /\ pc'[m] = IF /\ pc[m] = "asleep"
                         /\ \E t \in Tids : /\ thread_table[t] # None
                                            /\ thread_table[t].thread = m
                                            /\ \E x \in E : InQueue(t, x)
                      THEN "woken" ELSE pc[m]

\* The threads in the queues of E are those that wait for a handle in E.
LEMMA InQueues ==
  ASSUME TypeOK, Main, NEW n \in Native, NEW E, Ends(n, E), NEW x \in E
  PROVE  /\ Len(QueueOf(x).waiting_handles) <= 1
         /\ \A t \in Tids : InQueue(t, x) =>
               \E m \in Native : /\ pc[m] \in Sleeping /\ want[m] = {x}
                                 /\ t = thread_to_tid[m] /\ thread_table[t].thread = m
         /\ \A m \in Native : pc[m] \in Sleeping /\ want[m] = {x} =>
               /\ InQueue(thread_to_tid[m], x) /\ thread_to_tid[m] \in Tids
               /\ thread_table[thread_to_tid[m]] # None
               /\ thread_table[thread_to_tid[m]].thread = m
         /\ \A m \in Native : pc[m] \notin {"unborn", "start"} =>
               (InQueue(thread_to_tid[m], x) => pc[m] \in Sleeping /\ want[m] = {x})
  <1>1. x \in Handles /\ QueueInv(x, QueueOf(x))
    <2>1. x \in Handles /\ validateHandle(x) BY DEF Ends
    <2>2. CASE x \in Pids
      <3>1. process_table[x] # None BY <2>1, <2>2, HandleSets DEF validateHandle
      <3> QED BY <2>1, <2>2, <3>1 DEF Main, QueuesInv, QueueOf
    <2>3. CASE x \in Tids
      <3>1. thread_table[x] # None /\ x \notin Pids
        BY <2>1, <2>3, HandleSets DEF validateHandle
      <3> QED BY <2>1, <2>3, <3>1 DEF Main, QueuesInv, QueueOf
    <2> QED BY <2>1, <2>2, <2>3 DEF Handles
  <1>2. Elements(<<>>) = {} BY DEF Elements
  <1>3. \A t : Elements(<<t>>) = {t}
    <2>1. \A t : DOMAIN <<t>> = {1} /\ <<t>>[1] = t OBVIOUS
    <2> QED BY <2>1 DEF Elements
  <1>4. ASSUME NEW m \in Native, pc[m] \in Sleeping
        PROVE  /\ thread_to_tid[m] \in Tids /\ thread_table[thread_to_tid[m]] # None
               /\ thread_table[thread_to_tid[m]].thread = m
    <2>1. BornInv(m) BY DEF Main
    <2> QED BY <1>4, <2>1 DEF BornInv, TidOf, TCBOf, Sleeping
  <1>5. ASSUME QueueOf(x).waiting_handles # <<>>
        PROVE  \E m \in Native : Waits(m, x, QueueOf(x))
    BY <1>1, <1>5 DEF QueueInv
  <1>6. ASSUME NEW m \in Native, Waits(m, x, QueueOf(x))
        PROVE  /\ Elements(QueueOf(x).waiting_handles) = {thread_to_tid[m]}
               /\ Len(QueueOf(x).waiting_handles) = 1
    <2>1. QueueOf(x).waiting_handles = <<thread_to_tid[m]>> BY <1>6 DEF Waits
    <2>2. Len(<<thread_to_tid[m]>>) = 1 OBVIOUS
    <2> QED BY <1>3, <2>1, <2>2
  <1>7. Len(QueueOf(x).waiting_handles) <= 1
    <2>1. Len(<<>>) = 0 OBVIOUS
    <2>2. CASE QueueOf(x).waiting_handles = <<>> BY <2>1, <2>2
    <2>3. CASE QueueOf(x).waiting_handles # <<>>
      <3>1. PICK m \in Native : Waits(m, x, QueueOf(x)) BY <1>5, <2>3
      <3>2. Len(QueueOf(x).waiting_handles) = 1 BY <1>6, <3>1
      <3> QED BY <3>2
    <2> QED BY <2>2, <2>3
  <1>8. ASSUME NEW t, InQueue(t, x)
        PROVE  \E m \in Native : /\ pc[m] \in Sleeping /\ want[m] = {x}
                                 /\ t = thread_to_tid[m] /\ thread_table[t].thread = m
    <2>1. QueueOf(x).waiting_handles # <<>> BY <1>2, <1>8 DEF InQueue
    <2>2. PICK m \in Native : Waits(m, x, QueueOf(x)) BY <1>5, <2>1
    <2>3. t = thread_to_tid[m] BY <1>6, <1>8, <2>2 DEF InQueue
    <2>4. pc[m] \in Sleeping /\ want[m] = {x} BY <2>2 DEF Waits
    <2> QED BY <1>4, <2>3, <2>4
  <1>9. ASSUME NEW m \in Native, pc[m] \in Sleeping, want[m] = {x}
        PROVE  InQueue(thread_to_tid[m], x)
    <2>1. WaitInv(m) BY DEF Main
    <2>2. QueueOf(x).waiting_handles = <<thread_to_tid[m]>>
      BY <1>9, <2>1 DEF WaitInv, Ends
    <2> QED BY <1>3, <2>2 DEF InQueue
  <1>10. ASSUME NEW m \in Native, pc[m] \notin {"unborn", "start"},
                InQueue(thread_to_tid[m], x)
         PROVE  pc[m] \in Sleeping /\ want[m] = {x}
    <2>1. PICK k \in Native : /\ pc[k] \in Sleeping /\ want[k] = {x}
                              /\ thread_to_tid[m] = thread_to_tid[k]
      BY <1>8, <1>10
    <2>2. BornInv(m) /\ BornInv(k) BY DEF Main
    <2>3. m = k BY <1>10, <2>1, <2>2, TidsDiffer DEF TidOf, Sleeping
    <2> QED BY <2>1, <2>3
  <1> QED BY <1>4, <1>7, <1>8, <1>9, <1>10

LEMMA EndsWait ==
  ASSUME TypeOK, Main, NEW n \in Native, NEW E, Ends(n, E),
         NEW m \in Native, m # n
  PROVE  /\ WaitInv(m)'
         /\ (pc'[m] = pc[m] \/ (pc[m] = "asleep" /\ pc'[m] = "woken"))
         /\ pc[m] \in Sleeping /\ (\A x \in E : want[m] # {x}) => pc'[m] = pc[m]
  <1>1. WaitInv(m) /\ BornInv(m) /\ ChildInv(m) BY DEF Main
  <1>2. /\ want'[m] = want[m] /\ arg'[m] = arg[m] /\ children'[m] = children[m]
        /\ thread_to_tid'[m] = thread_to_tid[m]
    BY DEF Ends
  <1>3. ASSUME NEW x \in want[m]
        PROVE  /\ want[m] = {x} /\ x \in children[m]
               /\ x \notin E => QueueOf(x)' = QueueOf(x)
               /\ x \in E => QueueOf(x)'.is_locked /\ ~QueueOf(x).is_locked
    <2>1. /\ want[m] = {x} /\ x \in children[m] /\ x \in Handles
          /\ x \in Pids => process_table[x] # None
          /\ x \in Tids => thread_table[x] # None
      BY <1>1, WantedHere
    <2>2. x \notin E => QueueOf(x)' = QueueOf(x) BY <2>1 DEF Ends, QueueOf, Handles
    <2>3. x \in E => QueueOf(x)'.is_locked /\ ~QueueOf(x).is_locked BY DEF Ends
    <2> QED BY <2>1, <2>2, <2>3
  <1>4. \A y \in E :
           /\ pc[m] \in Sleeping /\ want[m] = {y} => InQueue(thread_to_tid[m], y)
           /\ pc[m] \notin {"unborn", "start"} /\ InQueue(thread_to_tid[m], y) =>
                 pc[m] \in Sleeping /\ want[m] = {y}
    <2> TAKE y \in E
    <2>1. pc[m] \in Sleeping /\ want[m] = {y} => InQueue(thread_to_tid[m], y)
      BY InQueues
    <2>2. pc[m] \notin {"unborn", "start"} /\ InQueue(thread_to_tid[m], y) =>
             pc[m] \in Sleeping /\ want[m] = {y}
      BY InQueues
    <2> QED BY <2>1, <2>2
  <1>5. (pc'[m] = pc[m] \/ (pc[m] = "asleep" /\ pc'[m] = "woken")) BY DEF Ends
  <1>6. ASSUME pc[m] \in Sleeping, \A x \in E : want[m] # {x} PROVE pc'[m] = pc[m]
    <2>1. SUFFICES ASSUME pc'[m] # pc[m] PROVE FALSE OBVIOUS
    <2>2. PICK t \in Tids, x \in E : thread_table[t].thread = m /\ InQueue(t, x)
      BY <2>1 DEF Ends
    <2>3. want[m] = {x} BY <2>2, InQueues
    <2> QED BY <1>6, <2>3
  <1>7. ASSUME pc'[m] \notin Waiting PROVE WaitInv(m)'
    <2>1. pc[m] \notin Waiting BY <1>5, <1>7 DEF Waiting, Sleeping
    <2>2. pc'[m] = pc[m] BY <1>5, <2>1 DEF Waiting, Sleeping
    <2> QED BY <1>1, <1>2, <1>7, <2>1, <2>2 DEF WaitInv, Waiting, Sleeping
  <1>8. ASSUME pc'[m] \in Waiting PROVE WaitInv(m)'
    <2>1. pc[m] \in Waiting BY <1>5, <1>8 DEF Waiting, Sleeping
    <2>2. PICK x \in children[m] : want[m] = {x} /\ x \in want[m]
      BY <1>1, <2>1 DEF WaitInv
    <2>3. \E y \in children'[m] : want'[m] = {y} BY <1>2, <2>2
    <2>4. pc'[m] \notin {"blockedRet", "stop", "stopClean"}
      BY <1>1, <1>5 DEF WaitInv
    <2>5. pc'[m] \in Sleeping => \A y \in want'[m] :
             QueueOf(y)'.is_locked \/ QueueOf(y)'.waiting_handles = <<thread_to_tid'[m]>>
      BY <1>1, <1>2, <1>3, <1>5, <2>2 DEF WaitInv, Sleeping
    <2>6. pc'[m] \in {"getRetVal", "clean"} =>
             arg'[m] \in want'[m] /\ QueueOf(arg[m])'.is_locked
      <3>1. SUFFICES ASSUME pc'[m] \in {"getRetVal", "clean"}
                     PROVE  arg'[m] \in want'[m] /\ QueueOf(arg[m])'.is_locked
        OBVIOUS
      <3>2. pc[m] = pc'[m] BY <1>5, <3>1
      <3>3. arg[m] = x /\ QueueOf(x).is_locked BY <1>1, <2>2, <3>1, <3>2 DEF WaitInv
      <3>4. QueueOf(x)'.is_locked BY <1>3, <2>2, <3>3
      <3>5. arg'[m] = x BY <1>2, <3>3
      <3> QED BY <1>2, <2>2, <3>4, <3>5 DEF QueueOf
    <2>7. pc'[m] = "woken" => /\ TCBOf(m).waked_by' \in want'[m]
                              /\ QueueOf(TCBOf(m).waked_by)'.is_locked
      <3>1. SUFFICES ASSUME pc'[m] = "woken"
                     PROVE  TCBOf(m)'.waked_by = x /\ QueueOf(x)'.is_locked
        BY <1>2, <2>2 DEF QueueOf
      <3>2. PICK t \in Tids : t = thread_to_tid[m] /\ t = TidOf(m) /\ thread_table[t] # None
        BY <1>1, <2>1 DEF BornInv, TidOf, TCBOf, Waiting, Sleeping
      <3>3. TCBOf(m) = thread_table[t] /\ TCBOf(m)' = thread_table'[t]
        BY <1>2, <3>1, <3>2 DEF TCBOf, TidOf
      <3>4. CASE pc[m] = "woken"
        <4>1. thread_table[t].waked_by = x /\ QueueOf(x).is_locked
          BY <1>1, <2>2, <3>3, <3>4 DEF WaitInv
        <4>2. \A y \in E : ~InQueue(t, y) BY <1>4, <3>2, <3>4 DEF Sleeping
        <4>3. thread_table'[t].waked_by = x BY <3>2, <4>1, <4>2 DEF Ends
        <4> QED BY <1>3, <2>2, <3>3, <4>1, <4>3
      <3>5. CASE pc[m] = "asleep"
        <4>1. pc[m] \in Sleeping /\ pc'[m] # pc[m] BY <3>1, <3>5 DEF Sleeping
        <4>2. PICK y \in E : want[m] = {y} BY <1>6, <4>1
        <4>3. y = x BY <2>2, <4>2
        <4>4. InQueue(t, x) BY <1>4, <3>2, <4>1, <4>2, <4>3
        <4>5. PICK z \in E : InQueue(t, z) /\ thread_table'[t].waked_by = z
          BY <3>2, <4>2, <4>3, <4>4 DEF Ends
        <4>6. pc[m] \notin {"unborn", "start"} BY <4>1 DEF Sleeping
        <4>7. want[m] = {z} BY <1>4, <3>2, <4>5, <4>6
        <4>8. z = x BY <2>2, <4>7
        <4> QED BY <1>3, <2>2, <3>3, <4>2, <4>3, <4>5, <4>8
      <3> QED BY <1>5, <3>1, <3>4, <3>5
    <2> QED BY <1>8, <2>3, <2>4, <2>5, <2>6, <2>7 DEF WaitInv
  <1> QED BY <1>5, <1>6, <1>7, <1>8

LEMMA EndsKept ==
  ASSUME TypeOK, TypeOK', Main, Accounts, NEW n \in Native, pc[n] = "user",
         children[n] = {}, NEW E, Ends(n, E),
         \A m \in Native : m # n /\ pc[m] # "unborn" =>
            TidOf(m) \notin E /\ TCBOf(m).pid \notin E,
         \A m \in Native : pc[m] \in Cloning => arg[m] \notin E
  PROVE  Main' /\ Accounts'
  <1>1. /\ BornInv(n) /\ WaitInv(n) /\ TableInv /\ QueuesInv BY DEF Main
  <1>2. Stay({}) /\ Stay(E) /\ LocksStay(E) BY DEF Stay, LocksStay, Ends
  <1>3. BornInv(n)' /\ WaitInv(n)' /\ ChildInv(n)' /\ CreatorInv(n)'
    <2>1. pc'[n] = "unborn" /\ children'[n] = {} /\ thread_to_tid'[n] = erInvalid_Handle
          /\ want'[n] = want[n]
      BY DEF Ends
    <2>2. BornInv(n)' BY <2>1 DEF BornInv
    <2>3. WaitInv(n)' BY <1>1, <2>1 DEF WaitInv, Waiting, Sleeping
    <2>4. ChildInv(n)' BY <2>1, ChildlessKept
    <2>5. CreatorInv(n)' BY <2>1, NotCloning DEF Cloning
    <2> QED BY <2>2, <2>3, <2>4, <2>5
  <1>4. ASSUME NEW m \in Native, m # n
        PROVE  /\ WaitInv(m)'
               /\ pc'[m] = pc[m] \/ (pc[m] = "asleep" /\ pc'[m] = "woken")
               /\ pc[m] \in Sleeping /\ (\A x \in E : want[m] # {x}) => pc'[m] = pc[m]
               /\ want'[m] = want[m] /\ arg'[m] = arg[m] /\ children'[m] = children[m]
               /\ thread_to_tid'[m] = thread_to_tid[m]
    <2>1. /\ want'[m] = want[m] /\ arg'[m] = arg[m] /\ children'[m] = children[m]
          /\ thread_to_tid'[m] = thread_to_tid[m]
      BY <1>4 DEF Ends
    <2>2. /\ WaitInv(m)'
          /\ pc'[m] = pc[m] \/ (pc[m] = "asleep" /\ pc'[m] = "woken")
          /\ pc[m] \in Sleeping /\ (\A x \in E : want[m] # {x}) => pc'[m] = pc[m]
      BY <1>4, EndsWait
    <2> QED BY <2>1, <2>2
  <1>5. \A m \in Native : pc'[m] \in Cloning \/ pc[m] \in Cloning =>
           m # n /\ pc'[m] = pc[m] /\ arg'[m] = arg[m]
    BY <1>4 DEF Cloning, Ends
  <1>6. Creating \subseteq Cloning /\ Opening \subseteq Cloning
    BY DEF Creating, Opening, Cloning
  <1>7. ASSUME NEW m \in Native, m # n
        PROVE  BornInv(m)' /\ ChildInv(m)' /\ CreatorInv(m)'
    <2>1. BornInv(m) /\ ChildInv(m) /\ CreatorInv(m) BY DEF Main
    <2>2. CASE pc[m] = "unborn"
      <3>1. /\ pc'[m] = "unborn" /\ children'[m] = {}
            /\ thread_to_tid'[m] = erInvalid_Handle
        BY <1>4, <1>7, <2>1, <2>2 DEF BornInv, ChildInv
      <3> QED BY <3>1, ChildlessKept, NotCloning DEF BornInv, Cloning
    <2>3. CASE pc[m] # "unborn"
      <3>1. pc'[m] # "unborn" /\ TidOf(m)' = TidOf(m)
        BY <1>4, <1>7, <2>3 DEF TidOf
      <3>2. BornInv(m)' /\ TCBOf(m).pid = TCBOf(m).pid'
        BY <1>1, <1>2, <1>7, <2>1, <2>3, <3>1, BornKept
      <3>3. ChildInv(m)'
        <4>1. CASE pc[m] = "start"
          <5>1. children'[m] = {} BY <1>4, <1>7, <2>1, <4>1 DEF ChildInv
          <5> QED BY <5>1, ChildlessKept
        <4>2. CASE pc[m] # "start"
          <5>1. pc'[m] \notin {"unborn", "start"} BY <1>4, <1>7, <2>3, <4>2
          <5>2. \A h \in children'[m] : h \in children[m] /\ h \notin {} BY <1>4, <1>7
          <5> QED BY <1>2, <2>1, <2>3, <3>2, <4>2, <5>1, <5>2, ChildKept
        <4> QED BY <4>1, <4>2
      <3>4. CreatorInv(m)'
        <4>1. CASE pc[m] \notin Cloning
          <5>1. pc'[m] \notin Cloning BY <1>5, <4>1
          <5> QED BY <5>1, NotCloning
        <4>2. CASE pc[m] \in Cloning
          <5>1. SameThread(m) BY <1>4, <1>5, <1>7, <4>2 DEF SameThread
          <5>2. /\ \A p \in Pids :
                     /\ process_table[p] = None => process_table'[p] = None
                     /\ process_table'[p] # None =>
                           /\ process_table'[p].creator = process_table[p].creator
                           /\ process_table'[p].io = process_table[p].io
                /\ \A t \in Tids :
                     /\ thread_table[t] = None => thread_table'[t] = None
                     /\ thread_table'[t] # None =>
                           /\ thread_table'[t].pid = thread_table[t].pid
                           /\ thread_table'[t].thread = thread_table[t].thread
                /\ \A k \in Native : children'[k] \subseteq children[k]
            BY DEF Ends
          <5>3. arg[m] \notin E BY <4>2
          <5> QED BY <1>2, <2>1, <3>2, <5>1, <5>2, <5>3, CreatorKept
        <4> QED BY <4>1, <4>2
      <3> QED BY <3>2, <3>3, <3>4
    <2> QED BY <2>2, <2>3
  <1>8. \A m \in Native : children'[m] = children[m]
    BY <1>4 DEF Ends
  <1>9. ChildrenApart' BY <1>8 DEF Main, ChildrenApart
  <1>10. OneCreator' BY <1>5 DEF Main, OneCreator
  <1>11. TableInv'
    <2>1. ASSUME NEW t \in Tids, thread_table'[t] # None
          PROVE  /\ thread_table'[t].pid \in Pids /\ process_table'[thread_table'[t].pid] # None
                 /\ thread_table'[t].thread = Nobody =>
                       \E k \in Native : pc'[k] = "startThread" /\ arg'[k] = t
      <3>1. /\ thread_table[t] # None /\ thread_table'[t].pid = thread_table[t].pid
            /\ thread_table'[t].thread = thread_table[t].thread
        BY <2>1 DEF Ends
      <3>2. /\ thread_table[t].pid \in Pids /\ process_table[thread_table[t].pid] # None
            /\ thread_table[t].thread = Nobody =>
                  \E k \in Native : pc[k] = "startThread" /\ arg[k] = t
        BY <1>1, <3>1 DEF TableInv
      <3>3. process_table'[thread_table[t].pid] # None BY <3>2 DEF Ends
      <3> QED BY <1>5, <3>1, <3>2, <3>3 DEF Cloning
    <2> QED BY <2>1 DEF TableInv
  <1>12. QueuesInv'
    <2>1. ASSUME NEW x \in E
          PROVE  /\ QueueOf(x)'.assigned = QueueOf(x)'.is_locked
                 /\ QueueOf(x)'.waiting_handles = <<>> /\ QueueOf(x)'.waiters <= 1
      <3>1. Len(QueueOf(x).waiting_handles) <= 1 BY InQueues
      <3> QED BY <3>1 DEF Ends
    <2>2. ASSUME NEW x, x \notin E, NEW q, QueueInv(x, q) PROVE QueueInv(x, q)'
      <3>1. ASSUME q.waiting_handles # <<>> PROVE \E k \in Native : Waits(k, x, q)'
        <4>1. PICK k \in Native : /\ pc[k] \in Sleeping /\ want[k] = {x}
                                  /\ q.waiting_handles = <<thread_to_tid[k]>>
          BY <2>2, <3>1 DEF QueueInv, Waits
        <4>2. k # n BY <4>1 DEF Sleeping
        <4>3. \A y \in E : want[k] # {y} BY <2>2, <4>1
        <4>4. /\ pc'[k] = pc[k] /\ want'[k] = want[k]
              /\ thread_to_tid'[k] = thread_to_tid[k]
          BY <1>4, <4>1, <4>2, <4>3
        <4> QED BY <4>1, <4>4 DEF Waits
      <3> QED BY <2>2, <3>1 DEF QueueInv
    <2>3. ASSUME NEW p \in Pids, process_table'[p] # None
          PROVE  QueueInv(p, process_table[p].q)'
      <3>1. process_table[p] # None BY <2>3 DEF Ends
      <3>2. CASE p \in E
        <4>1. QueueOf(p)' = process_table'[p].q BY DEF QueueOf
        <4> QED BY <2>1, <3>2, <4>1 DEF QueueInv
      <3>3. CASE p \notin E
        <4>1. PICK q : q = process_table[p].q /\ QueueInv(p, q)
          BY <1>1, <3>1 DEF QueuesInv
        <4>2. process_table'[p].q = q BY <3>1, <3>3, <4>1 DEF Ends
        <4>3. QueueInv(p, q)' BY <2>2, <3>3, <4>1
        <4> QED BY <4>2, <4>3 DEF QueueInv
      <3> QED BY <3>2, <3>3
    <2>4. ASSUME NEW t \in Tids, thread_table'[t] # None
          PROVE  QueueInv(t, thread_table[t].q)'
      <3>1. thread_table[t] # None BY <2>4 DEF Ends
      <3>2. CASE t \in E
        <4>1. QueueOf(t)' = thread_table'[t].q BY HandleSets DEF QueueOf
        <4> QED BY <2>1, <3>2, <4>1 DEF QueueInv
      <3>3. CASE t \notin E
        <4>1. PICK q : q = thread_table[t].q /\ QueueInv(t, q)
          BY <1>1, <3>1 DEF QueuesInv
        <4>2. thread_table'[t].q = q BY <3>1, <3>3, <4>1 DEF Ends
        <4>3. QueueInv(t, q)' BY <2>2, <3>3, <4>1
        <4> QED BY <4>2, <4>3 DEF QueueInv
      <3> QED BY <3>2, <3>3
    <2> QED BY <2>3, <2>4 DEF QueuesInv
  <1>13. OwnedInv'
    <2>1. ASSUME NEW p \in Pids, p # 0, process_table'[p] # None
          PROVE  \/ \E m \in Native : p \in children'[m]
                 \/ \E m \in Native : pc'[m] \in Creating /\ arg'[m] = p
      <3>1. process_table[p] # None BY <2>1 DEF Ends
      <3> QED BY <1>5, <1>6, <1>8, <2>1, <3>1 DEF Main, OwnedInv
    <2> QED BY <2>1 DEF OwnedInv
  <1>14. RoomInv'
    <2>1. Records' = Records BY DEF Records, Ends
    <2>2. clones' = clones BY DEF Ends
    <2>3. (\E m \in Native : pc'[m] \in Opening) => \E m \in Native : pc[m] \in Opening
      BY <1>5, <1>6
    <2> QED BY <2>1, <2>2, <2>3 DEF Main, RoomInv
  <1>15. Balanced'
    <2>1. {p \in Pids : process_table'[p] # None /\ process_table'[p].io}
            = {p \in Pids : process_table[p] # None /\ process_table[p].io}
      BY DEF Ends
    <2>2. openCounter' = openCounter /\ lost' = lost BY DEF Ends
    <2> QED BY <2>1, <2>2 DEF Accounts, Balanced, OpeningsBalance
  <1>16. ProcfsShowsProcesses'
    <2> DEFINE hiding == {m \in Native : pc[m] \in {"initialisePCB", "loadProgram"}}
               shown == {p \in Pids \ {0} : process_table[p] # None}
    <2>1. hiding' = hiding BY <1>5 DEF Cloning
    <2>2. {arg'[m] : m \in hiding'} = {arg[m] : m \in hiding} BY <2>1 DEF Ends
    <2>3. shown' = shown BY DEF Ends
    <2>4. procfs' = procfs BY DEF Ends
    <2> QED BY <2>2, <2>3, <2>4 DEF Accounts, ProcfsShowsProcesses
  <1> QED
    <2>1. \A m \in Native : BornInv(m)' /\ WaitInv(m)' /\ ChildInv(m)' /\ CreatorInv(m)'
      BY <1>3, <1>4, <1>7
    <2> QED BY <1>9, <1>10, <1>11, <1>12, <1>13, <1>14, <1>15, <1>16, <2>1 DEF Main, Accounts

\* What is being created is not the thread that ends, nor its process.
LEMMA NotCreated ==
  ASSUME TypeOK, Main, NEW n \in Native, pc[n] = "user", NEW m \in Native,
         pc[m] \in Cloning
  PROVE  arg[m] # thread_to_tid[n] /\ arg[m] # getPid(n)
  <1>1. CreatorInv(m) /\ BornInv(n) /\ TableInv BY DEF Main
  <1>2. /\ TidOf(n) = thread_to_tid[n] /\ TidOf(n) \in Tids
        /\ TCBOf(n) = thread_table[TidOf(n)] /\ TCBOf(n) # None /\ TCBOf(n).thread = n
        /\ getPid(n) = TCBOf(n).pid /\ getPid(n) \in Pids
        /\ process_table[getPid(n)] # None
    BY <1>1, ThreadHere
  <1>3. n # Nobody OBVIOUS
  <1>4. CASE pc[m] \in {"advancePid", "createFreePCB"}
    BY <1>1, <1>2, <1>4, HandleSets DEF CreatorInv
  <1>5. CASE pc[m] \in Creating
    BY <1>1, <1>2, <1>5, HandleSets DEF CreatorInv
  <1>6. CASE pc[m] = "startThread"
    BY <1>1, <1>2, <1>3, <1>6, HandleSets DEF CreatorInv
  <1> QED BY <1>4, <1>5, <1>6 DEF Cloning, Creating

\* The records in E are the ending thread's, and no other's that runs.
Alone(n, E) ==
    /\ TidOf(n) \in E
    /\ \A m \in Native : m # n /\ pc[m] # "unborn" =>
          TidOf(m) \notin E /\ TCBOf(m).pid \notin E
    /\ \A m \in Native : pc[m] \in Cloning => arg[m] \notin E

\* The steps of PcAfter, by the queues of the records in E.
LEMMA EndsPc ==
  ASSUME TypeOK, NEW n \in Native, NEW l, NEW ws, PcAfter(n, l, ws), NEW E,
         \A t \in Tids : t \in ws <=> \E x \in E : InQueue(t, x), ws \subseteq Tids
  PROVE  /\ pc'[n] = l
         /\ \A m \in Native : m # n =>
              pc'[m] = IF /\ pc[m] = "asleep"
                          /\ \E t \in Tids : /\ thread_table[t] # None
                                             /\ thread_table[t].thread = m
                                             /\ \E x \in E : InQueue(t, x)
                       THEN "woken" ELSE pc[m]
  <1>1. \A m \in Native : m \in Notified(ws) <=>
           /\ pc[m] = "asleep"
           /\ \E t \in Tids : /\ thread_table[t] # None /\ thread_table[t].thread = m
                              /\ \E x \in E : InQueue(t, x)
    BY DEF Notified
  <1>2. /\ pc'[n] = l
        /\ \A m \in Native : m # n =>
              pc'[m] = IF m \in Notified(ws) THEN "woken" ELSE pc[m]
    BY DEF PcAfter
  <1> QED BY <1>1, <1>2

LEMMA ExitProcessEnds ==
  ASSUME WellBehaved, AnyInv, Main, NEW n \in Native, ExitProcess(n)
  PROVE  ~Crash /\ \E E : Ends(n, E) /\ Alone(n, E)
  <1>1. /\ TypeOK /\ pc[n] = "user" /\ children[n] = {} /\ n \in mains
        /\ BornInv(n) /\ TableInv
        /\ \A m \in Native \ {n} : pc[m] # "unborn" => PidOf(m) # getPid(n)
    BY DEF WellBehaved, AnyInv, Main, ExitProcess, MayExit
  <1>2. PICK p, t : p = getPid(n) /\ t = getTid(n) OBVIOUS
  <1>3. /\ TidOf(n) = t /\ t \in Tids /\ TCBOf(n) = thread_table[t] /\ thread_table[t] # None
        /\ p = thread_table[t].pid /\ p \in Pids /\ process_table[p] # None
        /\ LivePid(n) /\ ~thread_table[t].q.is_locked /\ ~process_table[p].q.is_locked
    BY <1>1, <1>2, ThreadHere DEF getTid
  <1>4. ~Crash
    <2>1. Alive BY <1>3 DEF ExitProcess, Gone
    <2> QED BY <2>1 DEF Alive, Crash, Running
  <1> DEFINE E == {p, t}
             ps == Elements(process_table[p].q.waiting_handles)
             ts == Elements(thread_table[t].q.waiting_handles)
  <1>5. /\ process_table'[p] = Done(process_table[p])
        /\ \A o \in Pids : o # p => process_table'[o] = process_table[o]
        /\ \A s \in Tids :
              /\ thread_table[s] = None => thread_table'[s] = None
              /\ thread_table[s] # None =>
                    /\ thread_table'[s] # None
                    /\ thread_table'[s].pid = thread_table[s].pid
                    /\ thread_table'[s].thread = thread_table[s].thread
                    /\ thread_table'[s].q = IF s = t THEN Done(thread_table[t]).q
                                            ELSE thread_table[s].q
                    /\ thread_table'[s].waked_by = IF s \in ts THEN t
                                                   ELSE IF s \in ps THEN p
                                                   ELSE thread_table[s].waked_by
        /\ PcAfter(n, "unborn", ps \cup ts)
        /\ process_table[p] \in PCB /\ thread_table[t] \in TCB
        /\ process_table' \in [Pids -> PCB \cup {None}]
        /\ Gone(n)
    <2>1. TypeOK /\ ExitProcess(n) /\ ~Crash /\ p = getPid(n) /\ t = getTid(n)
      BY <1>1, <1>2, <1>4
    <2> HIDE <1>1, <1>2, <1>3, <1>4
    <2> QED BY <2>1, ExitProcessSteps
  <1>6. p \notin Tids /\ t \notin Pids BY <1>3, HandleSets
  <1>7. QueueOf(p) = process_table[p].q /\ QueueOf(t) = thread_table[t].q
    BY <1>3, <1>6 DEF QueueOf
  <1>8. /\ ps = Elements(QueueOf(p).waiting_handles) /\ ps \subseteq Tids
        /\ ts = Elements(QueueOf(t).waiting_handles) /\ ts \subseteq Tids
    <2>1. /\ process_table[p].q.waiting_handles \in Seq(Tids)
          /\ thread_table[t].q.waiting_handles \in Seq(Tids)
      BY <1>5 DEF PCB, TCB, Queue
    <2>2. \A s \in Seq(Tids) : Elements(s) \subseteq Tids BY DEF Elements
    <2> QED BY <1>7, <2>1, <2>2
  <1>9. \A s : /\ s \in ps \cup ts <=> \E x \in E : InQueue(s, x)
               /\ s \in ps <=> InQueue(s, p)
               /\ s \in ts <=> InQueue(s, t)
    BY <1>8 DEF InQueue
  <1>10. /\ pc'[n] = "unborn"
         /\ \A m \in Native : m # n =>
              pc'[m] = IF /\ pc[m] = "asleep"
                          /\ \E s \in Tids : /\ thread_table[s] # None
                                             /\ thread_table[s].thread = m
                                             /\ \E x \in E : InQueue(s, x)
                       THEN "woken" ELSE pc[m]
    <2> HIDE DEF E, ps, ts
    <2>1. /\ PcAfter(n, "unborn", ps \cup ts) /\ ps \cup ts \subseteq Tids
          /\ \A s \in Tids : s \in ps \cup ts <=> \E x \in E : InQueue(s, x)
      BY <1>5, <1>8, <1>9
    <2> QED BY <1>1, <2>1, EndsPc
  <1>11. /\ children'[n] = {} /\ thread_to_tid'[n] = erInvalid_Handle
         /\ \A m \in Native : m # n =>
               children'[m] = children[m] /\ thread_to_tid'[m] = thread_to_tid[m]
         /\ UNCHANGED <<arg, want, clones, procfs, openCounter, seen, lost>>
    BY <1>1, <1>5 DEF Gone, TypeOK, alloc
  <1>12. ASSUME NEW x \in E
         PROVE  /\ x \in Handles /\ validateHandle(x) /\ ~QueueOf(x).is_locked
                /\ QueueOf(x)'.is_locked /\ QueueOf(x)'.assigned = QueueOf(x)'.is_locked
                /\ QueueOf(x)'.waiting_handles = <<>>
                /\ QueueOf(x)'.waiters = Len(QueueOf(x).waiting_handles)
    <2>1. CASE x = p
      <3>1. QueueOf(x)' = Done(process_table[p]).q BY <1>3, <1>5, <2>1 DEF QueueOf
      <3>2. Done(process_table[p]).q = [waiting_handles |-> <<>>, is_locked |-> TRUE,
               assigned |-> TRUE, waiters |-> Len(process_table[p].q.waiting_handles)]
        BY <1>5 DEF Done, PCB
      <3>3. validateHandle(p) /\ p \in Handles
        BY <1>3, HandleSets DEF validateHandle, Handles
      <3> QED BY <1>3, <1>7, <2>1, <3>1, <3>2, <3>3
    <2>2. CASE x = t
      <3>1. QueueOf(x)' = Done(thread_table[t]).q BY <1>3, <1>5, <1>6, <2>2 DEF QueueOf
      <3>2. Done(thread_table[t]).q = [waiting_handles |-> <<>>, is_locked |-> TRUE,
               assigned |-> TRUE, waiters |-> Len(thread_table[t].q.waiting_handles)]
        BY <1>5 DEF Done, TCB
      <3>3. validateHandle(t) /\ t \in Handles
        BY <1>3, HandleSets DEF validateHandle, Handles
      <3> QED BY <1>3, <1>7, <2>2, <3>1, <3>2, <3>3
    <2> QED BY <2>1, <2>2
  <1>13. ASSUME NEW o \in Pids
         PROVE  /\ process_table[o] = None => process_table'[o] = None
                /\ process_table[o] # None =>
                      /\ process_table'[o] # None
                      /\ process_table'[o].creator = process_table[o].creator
                      /\ process_table'[o].io = process_table[o].io
                      /\ o \notin E => process_table'[o].q = process_table[o].q
    <2>1. CASE o # p BY <1>5, <2>1
    <2>2. CASE o = p
      <3>1. /\ Done(process_table[p]) # None
            /\ Done(process_table[p]).creator = process_table[p].creator
            /\ Done(process_table[p]).io = process_table[p].io
        BY <1>5, PcbSteps, SlotAssumption
      <3>2. p \in E OBVIOUS
      <3> HIDE DEF E
      <3> QED BY <1>3, <1>5, <2>2, <3>1, <3>2
    <2> QED BY <2>1, <2>2
  <1>14. ASSUME NEW s \in Tids
         PROVE  /\ thread_table[s] = None => thread_table'[s] = None
                /\ thread_table[s] # None =>
                      /\ thread_table'[s] # None
                      /\ thread_table'[s].pid = thread_table[s].pid
                      /\ thread_table'[s].thread = thread_table[s].thread
                      /\ s \notin E => thread_table'[s].q = thread_table[s].q
                      /\ IF \E x \in E : InQueue(s, x)
                         THEN \E x \in E : InQueue(s, x) /\ thread_table'[s].waked_by = x
                         ELSE thread_table'[s].waked_by = thread_table[s].waked_by
    <2>1. p \in E /\ t \in E OBVIOUS
    <2>2. s \notin E => s # t OBVIOUS
    <2> HIDE DEF E, ps, ts
    <2> QED BY <1>5, <1>9, <2>1, <2>2
  <1>15. /\ TidOf(n) \in E
         /\ \A m \in Native : m # n /\ pc[m] # "unborn" =>
               TidOf(m) \notin E /\ TCBOf(m).pid \notin E
    <2>1. ASSUME NEW m \in Native, m # n, pc[m] # "unborn"
          PROVE  TidOf(m) \notin E /\ TCBOf(m).pid \notin E
      <3>1. BornInv(m) BY DEF Main
      <3>2. /\ TidOf(m) \in Tids /\ TCBOf(m) = thread_table[TidOf(m)] /\ TCBOf(m) # None
            /\ TCBOf(m).pid \in Pids
        BY <1>1, <2>1, <3>1, ThreadHere
      <3>3. TidOf(m) # t BY <1>1, <1>3, <2>1, <3>1, TidsDiffer
      <3>4. TidOf(m) # erInvalid_Handle BY <3>2, HandleSets DEF Handles
      <3>5. PidOf(m) = TCBOf(m).pid BY <3>2, <3>4 DEF PidOf, TidOf, TCBOf, getTid
      <3>6. TCBOf(m).pid # p BY <1>1, <1>2, <2>1, <3>5
      <3> QED BY <1>3, <1>6, <3>2, <3>3, <3>6
    <2> QED BY <1>3, <2>1
  <1>16. \A m \in Native : pc[m] \in Cloning => arg[m] \notin E
    BY <1>1, <1>2, NotCreated DEF getTid
  <1>17. Ends(n, E)
    <2> HIDE DEF E
    <2> QED BY <1>10, <1>11, <1>12, <1>13, <1>14 DEF Ends
  <1> HIDE DEF E
  <1>18. Alone(n, E) BY <1>15, <1>16 DEF Alone
  <1> QED BY <1>4, <1>17, <1>18

LEMMA ExitProcessMain ==
  ASSUME WellBehaved, AnyInv, AnyInv', Main, Accounts, NEW n \in Native, ExitProcess(n)
  PROVE  ~Crash /\ Main' /\ Accounts'
  <1>1. /\ TypeOK /\ TypeOK' /\ pc[n] = "user" /\ children[n] = {}
    BY DEF WellBehaved, AnyInv, ExitProcess, MayExit
  <1>2. ~Crash BY ExitProcessEnds
  <1>3. PICK E : Ends(n, E) /\ Alone(n, E) BY ExitProcessEnds
  <1>4. Main' /\ Accounts' BY <1>1, <1>3, EndsKept DEF Alone
  <1> QED BY <1>2, <1>4

LEMMA ExitThreadEnds ==
  ASSUME WellBehaved, AnyInv, Main, NEW n \in Native, ExitThread(n)
  PROVE  ~Crash /\ \E E : Ends(n, E) /\ Alone(n, E)
  <1>1. /\ TypeOK /\ pc[n] = "user" /\ children[n] = {}
        /\ BornInv(n) /\ TableInv
    BY DEF WellBehaved, AnyInv, Main, ExitThread, MayExit
  <1>2. PICK t : t = getTid(n) OBVIOUS
  <1>3. /\ TidOf(n) = t /\ t \in Tids /\ TCBOf(n) = thread_table[t] /\ thread_table[t] # None
        /\ ~thread_table[t].q.is_locked
    BY <1>1, <1>2, ThreadHere DEF getTid
  <1>4. ~Crash
    <2>1. Alive BY <1>2, <1>3 DEF ExitThread, Gone
    <2> QED BY <2>1 DEF Alive, Crash, Running
  <1> DEFINE E == {t}
             ts == Elements(thread_table[t].q.waiting_handles)
  <1>5. /\ \A s \in Tids :
              /\ thread_table[s] = None => thread_table'[s] = None
              /\ thread_table[s] # None =>
                    /\ thread_table'[s] # None
                    /\ thread_table'[s].pid = thread_table[s].pid
                    /\ thread_table'[s].thread = thread_table[s].thread
                    /\ thread_table'[s].q = IF s = t THEN Done(thread_table[t]).q
                                            ELSE thread_table[s].q
                    /\ thread_table'[s].waked_by = IF s \in ts THEN t
                                                   ELSE thread_table[s].waked_by
        /\ PcAfter(n, "unborn", ts)
        /\ thread_table[t] \in TCB /\ process_table' = process_table
        /\ Gone(n)
    BY <1>1, <1>2, <1>3, <1>4, ExitThreadSteps
  <1>6. t \notin Pids BY <1>3, HandleSets
  <1>7. QueueOf(t) = thread_table[t].q BY <1>6 DEF QueueOf
  <1>8. ts = Elements(QueueOf(t).waiting_handles) /\ ts \subseteq Tids
    BY <1>5, <1>7 DEF TCB, Queue, Elements
  <1>9. \A s : s \in ts <=> \E x \in E : InQueue(s, x) BY <1>8 DEF InQueue
  <1>10. /\ pc'[n] = "unborn"
         /\ \A m \in Native : m # n =>
              pc'[m] = IF /\ pc[m] = "asleep"
                          /\ \E s \in Tids : /\ thread_table[s] # None
                                             /\ thread_table[s].thread = m
                                             /\ \E x \in E : InQueue(s, x)
                       THEN "woken" ELSE pc[m]
    <2> HIDE DEF E, ts
    <2> QED BY <1>1, <1>5, <1>8, <1>9, EndsPc
  <1>11. /\ children'[n] = {} /\ thread_to_tid'[n] = erInvalid_Handle
         /\ \A m \in Native : m # n =>
               children'[m] = children[m] /\ thread_to_tid'[m] = thread_to_tid[m]
         /\ UNCHANGED <<arg, want, clones, procfs, openCounter, seen, lost>>
    BY <1>1, <1>5 DEF Gone, TypeOK, alloc
  <1>12. /\ t \in Handles /\ validateHandle(t) /\ ~QueueOf(t).is_locked
         /\ QueueOf(t)'.is_locked /\ QueueOf(t)'.assigned = QueueOf(t)'.is_locked
         /\ QueueOf(t)'.waiting_handles = <<>>
         /\ QueueOf(t)'.waiters = Len(QueueOf(t).waiting_handles)
    <2>1. QueueOf(t)' = Done(thread_table[t]).q BY <1>3, <1>5, <1>6 DEF QueueOf
    <2>2. Done(thread_table[t]).q = [waiting_handles |-> <<>>, is_locked |-> TRUE,
             assigned |-> TRUE, waiters |-> Len(thread_table[t].q.waiting_handles)]
      BY <1>5 DEF Done, TCB
    <2>3. validateHandle(t) /\ t \in Handles
      BY <1>3, HandleSets DEF validateHandle, Handles
    <2> QED BY <1>3, <1>7, <2>1, <2>2, <2>3
  <1>13. ASSUME NEW s \in Tids
         PROVE  /\ thread_table[s] = None => thread_table'[s] = None
                /\ thread_table[s] # None =>
                      /\ thread_table'[s] # None
                      /\ thread_table'[s].pid = thread_table[s].pid
                      /\ thread_table'[s].thread = thread_table[s].thread
                      /\ s \notin E => thread_table'[s].q = thread_table[s].q
                      /\ IF \E x \in E : InQueue(s, x)
                         THEN \E x \in E : InQueue(s, x) /\ thread_table'[s].waked_by = x
                         ELSE thread_table'[s].waked_by = thread_table[s].waked_by
    <2>1. \A x : x \in E <=> x = t OBVIOUS
    <2> HIDE DEF E, ts
    <2> QED BY <1>5, <1>9, <2>1
  <1>14. /\ TidOf(n) \in E
         /\ \A m \in Native : m # n /\ pc[m] # "unborn" =>
               TidOf(m) \notin E /\ TCBOf(m).pid \notin E
    <2>1. ASSUME NEW m \in Native, m # n, pc[m] # "unborn"
          PROVE  TidOf(m) \notin E /\ TCBOf(m).pid \notin E
      <3>1. BornInv(m) BY DEF Main
      <3>2. TCBOf(m).pid \in Pids BY <1>1, <2>1, <3>1, ThreadHere
      <3>3. TidOf(m) # t BY <1>1, <1>3, <2>1, <3>1, TidsDiffer
      <3> QED BY <1>6, <3>2, <3>3
    <2> QED BY <1>3, <2>1
  <1>15. \A m \in Native : pc[m] \in Cloning => arg[m] \notin E
    BY <1>1, <1>2, NotCreated DEF getTid
  <1>16. Ends(n, E)
    <2>1. \A x : x \in E <=> x = t OBVIOUS
    <2> HIDE DEF E
    <2>2. ASSUME NEW x \in E
          PROVE  /\ x \in Handles /\ validateHandle(x) /\ ~QueueOf(x).is_locked
                 /\ QueueOf(x)'.is_locked /\ QueueOf(x)'.assigned = QueueOf(x)'.is_locked
                 /\ QueueOf(x)'.waiting_handles = <<>>
                 /\ QueueOf(x)'.waiters = Len(QueueOf(x).waiting_handles)
      <3>1. x = t BY <2>1
      <3> QED BY <1>12, <3>1 DEF QueueOf
    <2>3. \A o \in Pids :
             /\ process_table[o] = None => process_table'[o] = None
             /\ process_table[o] # None =>
                   /\ process_table'[o] # None
                   /\ process_table'[o].creator = process_table[o].creator
                   /\ process_table'[o].io = process_table[o].io
                   /\ o \notin E => process_table'[o].q = process_table[o].q
      BY <1>5
    <2> QED BY <1>10, <1>11, <1>13, <2>2, <2>3 DEF Ends
  <1> HIDE DEF E
  <1>17. Alone(n, E) BY <1>14, <1>15 DEF Alone
  <1> QED BY <1>4, <1>16, <1>17

LEMMA ExitThreadMain ==
  ASSUME WellBehaved, AnyInv, AnyInv', Main, Accounts, NEW n \in Native, ExitThread(n)
  PROVE  ~Crash /\ Main' /\ Accounts'
  <1>1. /\ TypeOK /\ TypeOK' /\ pc[n] = "user" /\ children[n] = {}
    BY DEF WellBehaved, AnyInv, ExitThread, MayExit
  <1>2. ~Crash BY ExitThreadEnds
  <1>3. PICK E : Ends(n, E) /\ Alone(n, E) BY ExitThreadEnds
  <1>4. Main' /\ Accounts' BY <1>1, <1>3, EndsKept DEF Alone
  <1> QED BY <1>2, <1>4
-----------------------------------------------------------------------------
(* The invariant holds at boot and every step keeps it.                     *)

LEMMA MainInit ==
  ASSUME Init
  PROVE  IInv
  <1>1. AnyInv BY AnyInit
  <1>2. /\ pc = [n \in Native |-> IF n = Init0 THEN "user" ELSE "unborn"]
        /\ thread_to_tid = [n \in Native |->
              IF n = Init0 THEN BASE_TID_INDEX ELSE erInvalid_Handle]
        /\ \A n \in Native : want[n] = {} /\ children[n] = {}
        /\ clones = 0 /\ crashed = FALSE /\ openCounter = 1 /\ lost = 0
        /\ procfs = {}
    BY DEF Init
  <1>3. \A n \in Native : /\ pc[n] \notin Cloning \cup Creating \cup Opening \cup Waiting
                          /\ pc[n] \notin {"getRetVal", "blockedRet", "clean", "stop",
                                           "stopClean", "woken", "start"}
    BY <1>2 DEF Cloning, Creating, Opening, Waiting, Sleeping
  <1>4. /\ process_table[0] = [creator |-> Init0, io |-> TRUE, q |-> NewQueue]
        /\ process_table[0] # None /\ \A p \in Pids : p # 0 => process_table[p] = None
    BY NewRecords, HandleSets DEF Init
  <1>5. /\ thread_table[BASE_TID_INDEX] = [pid |-> 0, thread |-> Init0,
                waked_by |-> erInvalid_Handle, q |-> NewQueue]
        /\ thread_table[BASE_TID_INDEX] # None
        /\ \A t \in Tids : t # BASE_TID_INDEX => thread_table[t] = None
    <2>1. [pid |-> 0, thread |-> Init0, waked_by |-> erInvalid_Handle, q |-> NewQueue] \in TCB
      BY QueueTypes, HandleSets DEF TCB
    <2> QED BY <2>1, HandleSets DEF Init
  <1>6. /\ process_table[0].q = NewQueue /\ process_table[0].io = TRUE
        /\ thread_table[BASE_TID_INDEX].q = NewQueue
        /\ thread_table[BASE_TID_INDEX].pid = 0
        /\ thread_table[BASE_TID_INDEX].thread = Init0
    BY <1>4, <1>5
  <1>7. /\ NewQueue.assigned = NewQueue.is_locked /\ ~NewQueue.is_locked
        /\ NewQueue.waiting_handles = <<>>
    BY DEF NewQueue
  <1>8. 0 \in Pids /\ BASE_TID_INDEX \in Tids /\ Init0 # Nobody BY HandleSets
  <1>9. ASSUME NEW n \in Native
        PROVE  BornInv(n) /\ WaitInv(n) /\ ChildInv(n) /\ CreatorInv(n)
    <2>1. BornInv(n)
      <3>1. CASE n = Init0
        <4>1. pc[n] = "user" /\ thread_to_tid[n] = BASE_TID_INDEX BY <1>2, <3>1
        <4>2. TidOf(n) = BASE_TID_INDEX BY <4>1 DEF TidOf
        <4> QED BY <1>5, <1>6, <1>7, <1>8, <3>1, <4>1, <4>2 DEF BornInv, TCBOf
      <3>2. CASE n # Init0 BY <1>2, <3>2 DEF BornInv
      <3> QED BY <3>1, <3>2
    <2>2. WaitInv(n) BY <1>2, <1>3 DEF WaitInv, Waiting, Sleeping
    <2>3. ChildInv(n) BY <1>2 DEF ChildInv
    <2>4. CreatorInv(n) BY <1>3 DEF CreatorInv, Opening, Cloning
    <2> QED BY <2>1, <2>2, <2>3, <2>4
  <1>10. ChildrenApart /\ OneCreator BY <1>2, <1>3 DEF ChildrenApart, OneCreator
  <1>11. TableInv BY <1>4, <1>5, <1>6, <1>8 DEF TableInv
  <1>12. QueuesInv BY <1>4, <1>5, <1>6, <1>7 DEF QueuesInv, QueueInv
  <1>13. OwnedInv BY <1>4 DEF OwnedInv
  <1>14. RoomInv
    <2>1. Records = {BASE_TID_INDEX} BY <1>5, <1>8 DEF Records
    <2>2. Cardinality(Records) = 1 BY <2>1, FS_Singleton
    <2> QED BY <1>2, <1>3, <2>2 DEF RoomInv
  <1>15. Balanced
    <2>1. {p \in Pids : process_table[p] # None /\ process_table[p].io} = {0}
      BY <1>4, <1>6, <1>8
    <2>2. openCounter = 1 /\ lost = 0 BY <1>2
    <2>3. Cardinality({0}) = 1 BY FS_Singleton
    <2>4. Cardinality({p \in Pids : process_table[p] # None /\ process_table[p].io}) = 1
      BY <2>1, <2>3
    <2> QED BY <2>2, <2>4 DEF Balanced, OpeningsBalance
  <1>16. ProcfsShowsProcesses
    <2>1. {p \in Pids \ {0} : process_table[p] # None} = {} BY <1>4
    <2> QED BY <1>2, <2>1 DEF ProcfsShowsProcesses
  <1>17. JoinReturnsRequested BY <1>3 DEF JoinReturnsRequested
  <1> QED BY <1>1, <1>2, <1>9, <1>10, <1>11, <1>12, <1>13, <1>14, <1>15, <1>16, <1>17
          DEF IInv, Main, Accounts, CrashedWhenFull, FewRecords

\* A step is taken by a kernel that runs, and crashes or goes on.
LEMMA StepsRun ==
  ASSUME NEW n \in Native, KernelStep(n) \/ UserStep(n)
  PROVE  ~crashed /\ ~halted /\ (Crash \/ Alive)
  <1>1. Crash \/ Alive
    <2>1. CASE \/ AdvancePid(n) \/ CreateFreePCB(n) \/ InheritStreams(n) \/ InitialisePCB(n)
               \/ ProgramFound(n) \/ CloseStreams(n)
      BY <2>1 DEF AdvancePid, CreateFreePCB, InheritStreams, InitialisePCB, ProgramFound,
                  CloseStreams, LoadCounter
    <2>2. CASE ProgramNotFound(n) \/ CreateProcessThread(n) \/ StartThread(n) \/ StartRunning(n)
      BY <2>2 DEF ProgramNotFound, CreateProcessThread, StartThread, StartRunning
    <2>3. CASE FallAsleep(n) \/ GetWakeBy(n) \/ GetRetVal(n) \/ ReadRetVal(n) \/ Clean(n)
      BY <2>3 DEF FallAsleep, GetWakeBy, GetRetVal, ReadRetVal, Clean
    <2>4. CASE StopProcess(n) \/ StopClean(n) \/ SkipStop(n) \/ Shutdown(n)
      BY <2>4 DEF StopProcess, StopClean, SkipStop, Shutdown
    <2>5. CASE ClonePickPid(n) \/ CreateThread(n) \/ WaitFor(n)
      BY <2>5 DEF ClonePickPid, CreateThread, WaitFor
    <2>6. CASE ExitProcess(n) \/ ExitThread(n)
      BY <2>6 DEF ExitProcess, ExitThread, Gone
    <2> QED BY <2>1, <2>2, <2>3, <2>4, <2>5, <2>6 DEF KernelStep, UserStep
  <1> QED BY <1>1 DEF Crash, Alive, Running

\* Nobody finds a return value that is not there, or stops a process.
LEMMA NotTaken ==
  ASSUME WellBehaved, AnyInv, Main, NEW n \in Native
  PROVE  /\ ~Shutdown(n) /\ ~GetRetVal(n)
         /\ ~StopProcess(n) /\ ~StopClean(n) /\ ~SkipStop(n)
  <1>1. ~Shutdown(n) BY DEF WellBehaved, Shutdown
  <1>2. pc[n] \notin {"stop", "stopClean"} BY DEF Main, WaitInv
  <1>3. ~StopProcess(n) /\ ~StopClean(n) /\ ~SkipStop(n)
    BY <1>2 DEF StopProcess, StopClean, SkipStop
  <1>4. ~GetRetVal(n)
    <2>1. SUFFICES ASSUME GetRetVal(n) PROVE FALSE OBVIOUS
    <2>2. pc[n] = "getRetVal" /\ ~RecordOf(arg[n]).q.assigned BY <2>1 DEF GetRetVal
    <2>3. WaitInv(n) /\ TypeOK BY DEF Main, AnyInv
    <2>4. PICK h \in children[n] : want[n] = {h}
      BY <2>2, <2>3 DEF WaitInv, Waiting, Sleeping
    <2>5. arg[n] = h /\ QueueOf(h).is_locked BY <2>2, <2>3, <2>4 DEF WaitInv
    <2>6. QueueOf(h) = RecordOf(h).q /\ QueueInv(h, QueueOf(h)) BY <2>3, ChildHere
    <2> QED BY <2>2, <2>5, <2>6 DEF QueueInv
  <1> QED BY <1>1, <1>3, <1>4

\* When init has joined its child the kernel gives back what init had.
LEMMA DestructInitMain ==
  ASSUME AnyInv, Accounts, JoinReturnsRequested, DestructInit
  PROVE  Accounts' /\ JoinReturnsRequested' /\ ~crashed' /\ halted'
  <1>1. /\ TypeOK /\ Counted /\ ~halted /\ ~crashed /\ halted' = TRUE /\ crashed' = crashed
        /\ Loaded(Init0)
    BY DEF DestructInit, AnyInv, Running
  <1>2. getPid(Init0) = 0 BY <1>1, PidOfOthers
  <1>3. /\ CleanProcess(Init0, 0, "unborn") /\ pc[Init0] = "user"
        /\ UNCHANGED <<arg, want>>
    BY <1>2 DEF DestructInit, Destructs, user
  <1>4. process_table[0] # None /\ 0 \in Pids /\ 0 \in Handle
    BY <1>1, HandleSets DEF AnyInv, Booted, Handle, Handles
  <1>5. "unborn" \in Labels BY DEF Labels
  <1>6. /\ process_table'[0] = None
        /\ \A p \in Pids : p # 0 => process_table'[p] = process_table[p]
        /\ procfs' = procfs \ {0} /\ lost' = lost
        /\ pc'[Init0] = "unborn"
        /\ \A m \in Native : m # Init0 =>
              \/ pc'[m] = pc[m]
              \/ pc[m] = "asleep" /\ pc'[m] = "woken"
    BY <1>1, <1>2, <1>3, <1>4, <1>5, CleanProcessSteps
  <1>7. JoinReturnsRequested'
    BY <1>3, <1>6 DEF JoinReturnsRequested
  <1>8. Balanced'
    <2>1. openCounter' = Closed(Init0, 0) BY <1>3 DEF CleanProcess
    <2> QED BY <1>1, <1>4, <1>6, <2>1, RemovalBalances DEF Accounts
  <1>9. ProcfsShowsProcesses'
    <2> DEFINE shown == {p \in Pids \ {0} : process_table[p] # None}
               hiding == {m \in Native : pc[m] \in {"initialisePCB", "loadProgram"}}
               hidden == {arg[m] : m \in hiding}
    <2>1. hiding' = hiding BY <1>3, <1>6
    <2>2. hidden' = hidden BY <1>3, <2>1
    <2>3. shown' = shown /\ 0 \notin shown BY <1>6
    <2>4. procfs = shown \ hidden BY DEF Accounts, ProcfsShowsProcesses
    <2> HIDE DEF shown, hiding, hidden
    <2>5. procfs' = shown' \ hidden' BY <1>6, <2>2, <2>3, <2>4
    <2> QED BY <2>5 DEF ProcfsShowsProcesses, shown, hiding, hidden
  <1> QED BY <1>1, <1>7, <1>8, <1>9 DEF Accounts

\* A crash leaves everything as it is.
LEMMA MainCrash ==
  ASSUME Main, Accounts, Crash
  PROVE  Main' /\ Accounts'
  <1>1. UNCHANGED <<process_table, thread_table, thread_to_tid, clones, procfs,
                    openCounter, lost, pc, arg, want, children>>
    BY DEF Crash, tables, alloc, user
  <1> QED BY <1>1, MainSame

\* Only the making of a thread record crashes the kernel, when none is free.
LEMMA CrashesWhenFull ==
  ASSUME WellBehaved, AnyInv, AnyInv', Main, Accounts, NEW n \in Native,
         KernelStep(n) \/ UserStep(n), Crash
  PROVE  /\ \A t \in Tids : thread_table[t] # None
         /\ Cardinality(Records) <= MaxClones
  <1>1. ~Alive BY DEF Crash, Alive, Running
  <1>2. CreateProcessThread(n) \/ CreateThread(n)
    <2>1. /\ ~AdvancePid(n) /\ ~ProgramFound(n) /\ ~StartThread(n) /\ ~StartRunning(n)
          /\ ~ClonePickPid(n) /\ ~WaitFor(n) /\ ~InitialisePCB(n) /\ ~ProgramNotFound(n)
          /\ ~CloseStreams(n)
      BY <1>1 DEF AdvancePid, ProgramFound, StartThread, StartRunning, ClonePickPid, WaitFor,
                  InitialisePCB, ProgramNotFound, CloseStreams, LoadCounter
    <2>2. /\ ~CreateFreePCB(n) /\ ~InheritStreams(n) /\ ~FallAsleep(n) /\ ~GetWakeBy(n)
          /\ ~ReadRetVal(n) /\ ~Clean(n) /\ ~ExitProcess(n) /\ ~ExitThread(n)
      BY CreateFreePCBMain, InheritStreamsMain, FallAsleepMain, GetWakeByMain,
         ReadRetValMain, CleanMain, ExitProcessMain, ExitThreadMain
    <2> QED BY <2>1, <2>2, NotTaken DEF KernelStep, UserStep
  <1>3. \A t \in Tids : thread_table[t] # None
    BY <1>2, CreateProcessThreadFull, CreateThreadFull
  <1>4. /\ Cardinality(Records) \in Nat /\ clones \in Nat /\ clones <= MaxClones
        /\ RoomInv
    BY RecordsCount DEF AnyInv, TypeOK, Main
  <1>5. CASE CreateProcessThread(n)
    <2>1. pc[n] \in Opening BY <1>5 DEF CreateProcessThread, Opening, Creating
    <2> QED BY <1>3, <1>4, <2>1 DEF RoomInv
  <1>6. CASE CreateThread(n)
    <2>1. clones < MaxClones BY <1>6 DEF CreateThread, MayClone
    <2> QED BY <1>3, <1>4, <2>1 DEF RoomInv
  <1> QED BY <1>2, <1>5, <1>6

LEMMA MainStep ==
  ASSUME WellBehaved, AnyInv, AnyInv', Main, Accounts, NEW n \in Native,
         KernelStep(n) \/ UserStep(n)
  PROVE  Main' /\ Accounts'
  <1>1. CASE Crash BY <1>1, MainCrash
  <1>2. CASE ~Crash
    <2>1. CASE \/ AdvancePid(n) \/ CreateFreePCB(n) \/ InitialisePCB(n) \/ ProgramFound(n)
               \/ ProgramNotFound(n) \/ ClonePickPid(n)
      BY <2>1, AdvancePidMain, CreateFreePCBMain, InitialisePCBMain, ProgramFoundMain,
         ProgramNotFoundMain, ClonePickPidMain
    <2>2. CASE CreateProcessThread(n) \/ StartThread(n) \/ StartRunning(n) \/ CreateThread(n)
      BY <1>2, <2>2, CreateProcessThreadMain, StartThreadMain, StartRunningMain,
         CreateThreadMain
    <2>3. CASE FallAsleep(n) \/ GetWakeBy(n) \/ ReadRetVal(n) \/ Clean(n) \/ WaitFor(n)
      BY <2>3, FallAsleepMain, GetWakeByMain, ReadRetValMain, CleanMain, WaitForMain
    <2>4. CASE ExitProcess(n) \/ ExitThread(n) BY <2>4, ExitProcessMain, ExitThreadMain
    <2>5. CASE InheritStreams(n) \/ CloseStreams(n)
      <3>1. LoadCounter(n) BY <2>5, InheritStreamsMain DEF CloseStreams
      <3> QED BY <3>1, LoadCounterMain
    <2> QED BY <2>1, <2>2, <2>3, <2>4, <2>5, NotTaken DEF KernelStep, UserStep
  <1> QED BY <1>1, <1>2

LEMMA IStep ==
  ASSUME WellBehaved, IInv, [Next]_vars
  PROVE  IInv'
  <1>1. AnyInv' BY AnyStep DEF IInv
  <1>2. ASSUME NEW n \in Native, KernelStep(n) \/ UserStep(n) PROVE IInv'
    <2>1. ~crashed /\ ~halted /\ (Crash \/ Alive) BY <1>2, StepsRun
    <2>2. AnyInv /\ Main /\ Accounts BY <2>1 DEF IInv
    <2>3. Main' /\ Accounts' BY <1>1, <1>2, <2>2, MainStep
    <2>4. JoinReturnsRequested' BY <2>3 DEF Main, WaitInv, JoinReturnsRequested
    <2>5. CrashedWhenFull' /\ FewRecords'
      <3>1. CASE Crash
        <4>1. /\ \A t \in Tids : thread_table[t] # None
              /\ Cardinality(Records) <= MaxClones
          BY <1>1, <1>2, <2>2, <3>1, CrashesWhenFull
        <4>2. thread_table' = thread_table BY <3>1 DEF Crash, tables
        <4> QED BY <4>1, <4>2 DEF CrashedWhenFull, FewRecords, Records
      <3>2. CASE Alive BY <2>1, <3>2 DEF Alive, CrashedWhenFull, FewRecords
      <3> QED BY <2>1, <3>1, <3>2
    <2> QED BY <1>1, <2>3, <2>4, <2>5 DEF IInv
  <1>3. CASE DestructInit
    <2>1. Accounts' /\ JoinReturnsRequested' /\ ~crashed' /\ halted'
      BY <1>3, DestructInitMain DEF IInv
    <2> QED BY <1>1, <2>1 DEF IInv, CrashedWhenFull, FewRecords
  <1>4. CASE UNCHANGED vars
    <2>1. UNCHANGED <<process_table, thread_table, thread_to_tid, clones, procfs,
                      openCounter, seen, lost, pc, arg, want, children, crashed, halted>>
      BY <1>4 DEF vars, tables, alloc, user
    <2>2. /\ Main' = Main /\ Accounts' = Accounts
      BY <2>1 DEF Main, Accounts, BornInv, WaitInv, ChildInv, CreatorInv, ChildrenApart,
            OneCreator, TableInv, QueuesInv, QueueInv, Waits, OwnedInv, RoomInv, Records,
            TidOf, TCBOf, QueueOf, Balanced, OpeningsBalance, ProcfsShowsProcesses
    <2>3. /\ JoinReturnsRequested' = JoinReturnsRequested
          /\ CrashedWhenFull' = CrashedWhenFull /\ FewRecords' = FewRecords
      BY <2>1 DEF JoinReturnsRequested, CrashedWhenFull, FewRecords, Records
    <2> QED BY <1>1, <2>1, <2>2, <2>3 DEF IInv
  <1> QED BY <1>2, <1>3, <1>4 DEF Next

(* What holds of well-behaved programs.                                     *)
LEMMA IInvAlways == WellBehaved => (Spec => []IInv)
  <1> SUFFICES ASSUME WellBehaved PROVE Spec => []IInv OBVIOUS
  <1>1. Init => IInv BY MainInit
  <1>2. IInv /\ [Next]_vars => IInv' BY IStep
  <1> QED BY <1>1, <1>2, PTL DEF Spec

(* getPid() is right for every system call: a thread that runs has the TCB  *)
(* its tid names, of a process that is in the table (process.cpp, the       *)
(* functions getTid and getPid).                                            *)
THEOREM ThreadsAreThemselves == WellBehaved => (Spec => []ThreadIdentity)
  <1>1. IInv => ThreadIdentity
    <2> SUFFICES ASSUME IInv, NEW n \in Native, Running, pc[n] \notin {"unborn", "start"}
                 PROVE  LivePid(n) /\ thread_table[getTid(n)].thread = n
      BY DEF ThreadIdentity
    <2>1. TypeOK /\ TableInv /\ BornInv(n) BY DEF IInv, AnyInv, Main, Running
    <2> QED BY <2>1, ThreadHere DEF getTid
  <1> QED BY <1>1, IInvAlways, PTL

(* Wait_For reports a handle that the caller waits for (process.cpp:113).   *)
THEOREM JoinsReturnRequested == WellBehaved => (Spec => []JoinReturnsRequested)
  <1>1. IInv => JoinReturnsRequested BY DEF IInv
  <1> QED BY <1>1, IInvAlways, PTL

(* The record of a handle is there as long as a thread waits for it, so     *)
(* that the return value can be read (make_done, red_ret_val, the last      *)
(* reader's cleanProcess and cleanThread).                                  *)
THEOREM RecordsAreKept == WellBehaved => (Spec => []JoinedRecordKept)
  <1>1. IInv => JoinedRecordKept
    <2> SUFFICES ASSUME IInv, Running, NEW n \in Native, NEW h \in want[n]
                 PROVE  validateHandle(h)
      BY DEF JoinedRecordKept
    <2>1. TypeOK /\ Main /\ WaitInv(n) /\ ChildInv(n) BY DEF IInv, AnyInv, Main, Running
    <2>2. h \in children[n] BY <2>1, WantedHere
    <2> QED BY <2>1, <2>2, ChildHere
  <1> QED BY <1>1, IInvAlways, PTL

(* A process gives back its slot and its entry in procfs, also one whose    *)
(* creation failed for want of a program; a finished one is still           *)
(* somebody's to join (cleanProcess, process.cpp:192).                      *)
THEOREM SlotsAreGivenBack ==
  WellBehaved => (Spec => [](NoZombies /\ ProcfsShowsProcesses))
  <1>1. IInv => NoZombies
    <2> SUFFICES ASSUME IInv, Running, NEW p \in Pids, process_table[p] # None,
                        process_table[p].q.assigned
                 PROVE  \E n \in Native : p \in children[n]
      BY DEF NoZombies
    <2>1. TypeOK /\ Main /\ Booted BY DEF IInv, AnyInv, Running
    <2>2. p # 0 BY <2>1 DEF Booted
    <2>3. process_table[p].q.is_locked BY <2>1 DEF Main, QueuesInv, QueueInv
    <2>4. ASSUME NEW n \in Native, pc[n] \in Creating, arg[n] = p PROVE FALSE
      BY <2>1, <2>3, <2>4 DEF Main, CreatorInv
    <2> QED BY <2>1, <2>2, <2>4 DEF Main, OwnedInv
  <1>2. IInv => ProcfsShowsProcesses BY DEF IInv, Accounts
  <1>3. IInv => NoZombies /\ ProcfsShowsProcesses BY <1>1, <1>2
  <1> QED BY <1>3, IInvAlways, PTL

(* Besides, as long as no two threads count at the same time, the streams'  *)
(* descriptor is open exactly once per process that has them, and once more *)
(* per process that was not created because its program does not exist      *)
(* (initialisePCB, cleanProcess; process.cpp:191 forgets what was opened).  *)
THEOREM NothingIsLeaked ==
  WellBehaved /\ CountsAlone => (Spec => []NothingLeaks)
  <1> SUFFICES ASSUME WellBehaved, CountsAlone PROVE Spec => []NothingLeaks
    OBVIOUS
  <1>1. IInv => OpeningsBalance BY DEF IInv, Accounts, Balanced
  <1>2. NoZombies /\ ProcfsShowsProcesses /\ OpeningsBalance => NothingLeaks
    BY DEF NothingLeaks
  <1> QED BY <1>1, <1>2, IInvAlways, SlotsAreGivenBack, PTL

(* The one thing that crashes the kernel is a thread table without a free   *)
(* slot: the scan then returns another number than the one that             *)
(* createProcessThread and createThread compare its result with.            *)
THEOREM CrashesOnlyWhenFull == WellBehaved => (Spec => []CrashedWhenFull)
  <1>1. IInv => CrashedWhenFull BY DEF IInv
  <1> QED BY <1>1, IInvAlways, PTL

(* With fewer calls of Clone than slots for threads, the kernel never       *)
(* dereferences an empty slot or indexes outside a table.                   *)
THEOREM NeverCrashes == WellBehaved /\ MaxClones < MAX_THREAD_COUNT => (Spec => []NoCrash)
  <1> SUFFICES ASSUME WellBehaved, MaxClones < MAX_THREAD_COUNT PROVE Spec => []NoCrash
    OBVIOUS
  <1>1. IInv => NoCrash
    <2> SUFFICES ASSUME IInv, crashed PROVE FALSE BY DEF NoCrash
    <2>1. \A t \in Tids : thread_table[t] # None BY DEF IInv, CrashedWhenFull
    <2>2. Records = Tids BY <2>1 DEF Records
    <2>3. Cardinality(Records) = MAX_THREAD_COUNT BY <2>2, FiniteTables
    <2>4. Cardinality(Records) <= MaxClones BY DEF IInv, FewRecords
    <2> QED BY <2>3, <2>4
  <1> QED BY <1>1, IInvAlways, PTL
-----------------------------------------------------------------------------
(* No wake-up is lost on a thread that is asleep.                           *)

\* No record is done now that was not.
NobodyEnds ==
    /\ \A p \in Pids : process_table[p] # None /\ process_table'[p] # None =>
          (process_table'[p].q.is_locked => process_table[p].q.is_locked)
    /\ \A t \in Tids : thread_table[t] # None /\ thread_table'[t] # None =>
          (thread_table'[t].q.is_locked => thread_table[t].q.is_locked)

LEMMA SameTablesEndNothing ==
  ASSUME UNCHANGED tables
  PROVE  NobodyEnds
  BY DEF NobodyEnds, tables

LEMMA CreatingEndsNothing ==
  ASSUME AnyInv, Main, NEW n \in Native, ~Crash,
         \/ CreateFreePCB(n) \/ InitialisePCB(n) \/ CreateProcessThread(n)
         \/ CreateThread(n) \/ StartThread(n) \/ ProgramNotFound(n)
  PROVE  NobodyEnds
  <1>1. TypeOK /\ CreatorInv(n) BY DEF AnyInv, Main
  <1>2. CASE CreateFreePCB(n)
    <2>1. /\ process_table[arg[n]] = None /\ thread_table' = thread_table
          /\ process_table' = [process_table EXCEPT ![arg[n]] =
                [creator |-> n, io |-> FALSE, q |-> NewQueue]]
      BY <1>1, <1>2 DEF CreateFreePCB, CreatorInv
    <2>2. \A p \in Pids : p # arg[n] => process_table'[p] = process_table[p]
      BY <1>1, <2>1 DEF TypeOK
    <2> QED BY <2>1, <2>2 DEF NobodyEnds
  <1>3. CASE InitialisePCB(n)
    <2>1. /\ thread_table' = thread_table
          /\ process_table' = IF OwnsSlot(n)
                THEN [process_table EXCEPT ![arg[n]].io = TRUE] ELSE process_table
      BY <1>3 DEF InitialisePCB
    <2>2. \A p \in Pids : process_table[p] # None =>
             process_table'[p].q = process_table[p].q
      <3>1. ASSUME NEW p \in Pids, process_table[p] # None
            PROVE  process_table'[p].q = process_table[p].q
        <4>1. process_table[p] \in PCB BY <1>1, <3>1 DEF TypeOK
        <4>2. \/ process_table'[p] = process_table[p]
              \/ process_table'[p] = [process_table[p] EXCEPT !.io = TRUE]
          BY <1>1, <2>1 DEF TypeOK
        <4> QED BY <4>1, <4>2 DEF PCB
      <3> QED BY <3>1
    <2> QED BY <2>1, <2>2 DEF NobodyEnds
  <1>4. CASE CreateProcessThread(n) \/ CreateThread(n)
    <2>1. PICK tid, new : /\ tid = getNextFreeTid /\ tid \in Tids
                          /\ thread_table' = [thread_table EXCEPT ![tid] = new]
                          /\ process_table' = process_table
      BY <1>4 DEF CreateProcessThread, CreateThread
    <2>2. thread_table[tid] = None BY <1>1, <2>1, FreeTid, HandleSets DEF Handles
    <2>3. \A t \in Tids : t # tid => thread_table'[t] = thread_table[t]
      BY <1>1, <2>1 DEF TypeOK
    <2> QED BY <2>1, <2>2, <2>3 DEF NobodyEnds
  <1>5. CASE StartThread(n)
    <2>1. PICK m \in Native :
             /\ thread_table' = IF thread_table[arg[n]] = None THEN thread_table
                                ELSE [thread_table EXCEPT ![arg[n]].thread = m]
             /\ process_table' = process_table
      BY <1>5 DEF StartThread
    <2>2. \A t \in Tids : thread_table[t] # None => thread_table'[t].q = thread_table[t].q
      <3>1. ASSUME NEW t \in Tids, thread_table[t] # None
            PROVE  thread_table'[t].q = thread_table[t].q
        <4>1. thread_table[t] \in TCB BY <1>1, <3>1 DEF TypeOK
        <4>2. \/ thread_table'[t] = thread_table[t]
              \/ thread_table'[t] = [thread_table[t] EXCEPT !.thread = m]
          BY <1>1, <2>1 DEF TypeOK
        <4> QED BY <4>1, <4>2 DEF TCB
      <3> QED BY <3>1
    <2> QED BY <2>1, <2>2 DEF NobodyEnds
  <1>6. CASE ProgramNotFound(n)
    <2>1. /\ process_table' = [process_table EXCEPT ![arg[n]] = None]
          /\ thread_table' = thread_table
      BY <1>6 DEF ProgramNotFound
    <2>2. \A p \in Pids : process_table'[p] = None \/ process_table'[p] = process_table[p]
      BY <1>1, <2>1 DEF TypeOK
    <2> QED BY <2>1, <2>2 DEF NobodyEnds
  <1> QED BY <1>2, <1>3, <1>4, <1>5, <1>6

LEMMA WaitingEndsNothing ==
  ASSUME AnyInv, Main, NEW n \in Native, ~Crash,
         WaitFor(n) \/ GetWakeBy(n) \/ ReadRetVal(n)
  PROVE  NobodyEnds
  <1>1. TypeOK /\ BornInv(n) BY DEF AnyInv, Main
  <1>2. CASE WaitFor(n)
    <2>1. thread_to_tid[n] \in Tids
      <3>1. pc[n] = "user" BY <1>2 DEF WaitFor
      <3> QED BY <1>1, <3>1 DEF BornInv, TidOf
    <2>2. /\ \A p \in Pids : process_table'[p] = process_table[p]
                             \/ process_table'[p] = Register(process_table[p], thread_to_tid[n])
          /\ \A t \in Tids : thread_table'[t] = thread_table[t]
                             \/ thread_table'[t] = Register(thread_table[t], thread_to_tid[n])
      BY <1>2 DEF WaitFor, getTid
    <2>3. ASSUME NEW r \in PCB \cup TCB
          PROVE  Register(r, thread_to_tid[n]).q.is_locked = r.q.is_locked
      <3>1. PICK q \in Queue : q = r.q BY RecordSteps
      <3>2. Register(r, thread_to_tid[n]).q = IF q.is_locked THEN q
               ELSE [q EXCEPT !.waiting_handles = Append(@, thread_to_tid[n])]
        BY <2>1, <3>1, RecordSteps
      <3> QED BY <3>1, <3>2 DEF Queue
    <2>4. /\ \A p \in Pids : process_table[p] # None => process_table[p] \in PCB \cup TCB
          /\ \A t \in Tids : thread_table[t] # None => thread_table[t] \in PCB \cup TCB
      BY <1>1 DEF TypeOK
    <2> QED BY <2>2, <2>3, <2>4 DEF NobodyEnds
  <1>3. CASE GetWakeBy(n)
    <2>1. /\ process_table' = process_table
          /\ thread_table' =
               [thread_table EXCEPT ![thread_to_tid[n]].waked_by = erInvalid_Handle]
      BY <1>3 DEF GetWakeBy, getTid
    <2>2. \A t \in Tids : thread_table[t] # None => thread_table'[t].q = thread_table[t].q
      <3>1. ASSUME NEW t \in Tids, thread_table[t] # None
            PROVE  thread_table'[t].q = thread_table[t].q
        <4>1. thread_table[t] \in TCB BY <1>1, <3>1 DEF TypeOK
        <4>2. \/ thread_table'[t] = thread_table[t]
              \/ thread_table'[t] = [thread_table[t] EXCEPT !.waked_by = erInvalid_Handle]
          BY <1>1, <2>1 DEF TypeOK
        <4> QED BY <4>1, <4>2 DEF TCB
      <3> QED BY <3>1
    <2> QED BY <2>1, <2>2 DEF NobodyEnds
  <1>4. CASE ReadRetVal(n)
    <2>1. /\ \A p \in Pids : process_table'[p] = process_table[p]
                             \/ process_table'[p] = AfterRead(process_table[p])
          /\ \A t \in Tids : thread_table'[t] = thread_table[t]
                             \/ thread_table'[t] = AfterRead(thread_table[t])
      BY <1>1, <1>4 DEF ReadRetVal, TypeOK
    <2>2. ASSUME NEW r \in PCB \cup TCB PROVE AfterRead(r).q.is_locked = r.q.is_locked
      <3>1. PICK q \in Queue : q = r.q BY RecordSteps
      <3>2. AfterRead(r).q = [q EXCEPT !.waiters = IF @ > 0 THEN @ - 1 ELSE @]
        BY <3>1, RecordSteps
      <3> QED BY <3>1, <3>2 DEF Queue
    <2>3. /\ \A p \in Pids : process_table[p] # None => process_table[p] \in PCB \cup TCB
          /\ \A t \in Tids : thread_table[t] # None => thread_table[t] \in PCB \cup TCB
      BY <1>1 DEF TypeOK
    <2> QED BY <2>1, <2>2, <2>3 DEF NobodyEnds
  <1> QED BY <1>2, <1>3, <1>4

\* The removal of a process ends nothing.
LEMMA RemovalEndsNothing ==
  ASSUME TypeOK, Counted, NEW n \in Native, NEW h \in Pids, Loaded(n),
         process_table[h] # None, NEW l \in Labels, CleanProcess(n, h, l),
         getPid(n) \in Handle
  PROVE  NobodyEnds
  <1>1. /\ process_table'[h] = None
        /\ \A p \in Pids : p # h => process_table'[p] = process_table[p]
        /\ \A t \in Tids : thread_table'[t] # None =>
              thread_table'[t].q.is_locked = thread_table[t].q.is_locked
    BY CleanProcessSteps
  <1> QED BY <1>1 DEF NobodyEnds

LEMMA CleaningEndsNothing ==
  ASSUME AnyInv, Main, NEW n \in Native, ~Crash, Clean(n)
  PROVE  NobodyEnds
  <1>1. TypeOK /\ Counted /\ WaitInv(n) /\ pc[n] = "clean" /\ getPid(n) \in Handle
        /\ "user" \in Labels
    BY PidOfOthers DEF AnyInv, Main, Clean, Handle, Handles, Labels
  <1>2. PICK h \in children[n] : h = arg[n] /\ QueueOf(h).is_locked
    <2>1. PICK h \in children[n] : want[n] = {h} BY <1>1 DEF WaitInv, Waiting, Sleeping
    <2> QED BY <1>1, <2>1 DEF WaitInv
  <1>3. h \in Handles BY <1>1 DEF TypeOK, Handles
  <1>4. CASE h \in Pids
    <2>1. CanCleanProcess(h) /\ CleanProcess(n, h, "user") /\ Loaded(n)
      BY <1>2, <1>4 DEF Clean, CanClean
    <2>2. process_table[h] # None BY <2>1 DEF CanCleanProcess
    <2> QED BY <1>1, <1>4, <2>1, <2>2, RemovalEndsNothing
  <1>5. CASE h \in Tids
    <2>1. h \notin Pids /\ CanCleanThread(h) /\ CleanThread(n, h)
      BY <1>2, <1>5, HandleSets DEF Clean, CanClean
    <2>2. thread_table[h] # None /\ thread_table[h].q.is_locked
      BY <1>2, <1>5, <2>1, HandleSets DEF CanCleanThread, validateHandle, QueueOf
    <2>3. /\ process_table' = process_table
          /\ \A t \in Tids : t # h =>
               /\ thread_table[t] = None => thread_table'[t] = None
               /\ thread_table[t] # None => thread_table'[t].q = thread_table[t].q
      BY <1>1, <1>5, <2>1, <2>2, CleanThreadSteps
    <2> QED BY <2>2, <2>3 DEF NobodyEnds
  <1> QED BY <1>3, <1>4, <1>5 DEF Handles

\* The end of a program wakes whoever is asleep for it.
LEMMA EndsWake ==
  ASSUME TypeOK, Main, NEW n \in Native, NEW E, Ends(n, E), pc[n] = "user",
         NEW h \in Handles, validateHandle(h), ~RecordOf(h).q.is_locked,
         RecordOf(h)'.q.is_locked,
         NEW m \in Native, pc[m] = "asleep", h \in want[m]
  PROVE  pc'[m] = "woken"
  <1>1. h \in E
    <2>1. SUFFICES ASSUME h \notin E PROVE FALSE OBVIOUS
    <2>2. CASE h \in Pids
      <3>1. RecordOf(h) = process_table[h] /\ RecordOf(h)' = process_table'[h]
            /\ process_table[h] # None
        BY <2>2, HandleSets DEF RecordOf, validateHandle
      <3>2. process_table'[h].q = process_table[h].q BY <2>1, <2>2, <3>1 DEF Ends
      <3> QED BY <3>1, <3>2
    <2>3. CASE h \in Tids
      <3>1. RecordOf(h) = thread_table[h] /\ RecordOf(h)' = thread_table'[h]
            /\ thread_table[h] # None
        BY <2>3, HandleSets DEF RecordOf, validateHandle
      <3>2. thread_table'[h].q = thread_table[h].q BY <2>1, <2>3, <3>1 DEF Ends
      <3> QED BY <3>1, <3>2
    <2> QED BY <2>2, <2>3 DEF Handles
  <1>2. WaitInv(m) /\ ChildInv(m) /\ pc[m] \in Sleeping BY DEF Main, Sleeping
  <1>3. want[m] = {h} BY <1>2, WantedHere
  <1>4. /\ InQueue(thread_to_tid[m], h) /\ thread_to_tid[m] \in Tids
        /\ thread_table[thread_to_tid[m]] # None
        /\ thread_table[thread_to_tid[m]].thread = m
    BY <1>1, <1>2, <1>3, InQueues
  <1>5. \E t \in Tids : /\ thread_table[t] # None /\ thread_table[t].thread = m
                        /\ \E x \in E : InQueue(t, x)
    BY <1>1, <1>4
  <1>6. m # n OBVIOUS
  <1> QED BY <1>5, <1>6 DEF Ends

LEMMA StepsWake ==
  ASSUME WellBehaved, IInv, [Next]_vars,
         NEW h \in Handles, validateHandle(h), validateHandle(h)',
         ~RecordOf(h).q.is_locked, RecordOf(h)'.q.is_locked,
         NEW m \in Native, pc[m] = "asleep", h \in want[m]
  PROVE  pc'[m] = "woken"
  <1>1. AnyInv /\ TypeOK BY DEF IInv, AnyInv
  <1>2. ~NobodyEnds
    <2>1. SUFFICES ASSUME NobodyEnds PROVE FALSE OBVIOUS
    <2>2. CASE h \in Pids
      <3>1. /\ RecordOf(h) = process_table[h] /\ RecordOf(h)' = process_table'[h]
            /\ process_table[h] # None /\ process_table'[h] # None
        BY <2>2, HandleSets DEF RecordOf, validateHandle
      <3> QED BY <2>1, <2>2, <3>1 DEF NobodyEnds
    <2>3. CASE h \in Tids
      <3>1. /\ RecordOf(h) = thread_table[h] /\ RecordOf(h)' = thread_table'[h]
            /\ thread_table[h] # None /\ thread_table'[h] # None
        BY <2>3, HandleSets DEF RecordOf, validateHandle
      <3> QED BY <2>1, <2>3, <3>1 DEF NobodyEnds
    <2> QED BY <2>2, <2>3 DEF Handles
  <1>3. ASSUME NEW n \in Native, KernelStep(n) \/ UserStep(n) PROVE pc'[m] = "woken"
    <2>1. Main BY <1>3, StepsRun DEF IInv
    <2>2. ~Crash BY <1>2, SameTablesEndNothing DEF Crash
    <2>3. /\ ~AdvancePid(n) /\ ~ProgramFound(n) /\ ~StartRunning(n) /\ ~FallAsleep(n)
          /\ ~ClonePickPid(n) /\ ~InheritStreams(n) /\ ~CloseStreams(n)
      BY <1>2, <2>2, SameTablesEndNothing
         DEF AdvancePid, ProgramFound, StartRunning, FallAsleep, ClonePickPid,
             InheritStreams, CloseStreams, LoadCounter
    <2>4. /\ ~CreateFreePCB(n) /\ ~InitialisePCB(n) /\ ~CreateProcessThread(n)
          /\ ~CreateThread(n) /\ ~StartThread(n) /\ ~WaitFor(n) /\ ~GetWakeBy(n)
          /\ ~ReadRetVal(n) /\ ~Clean(n) /\ ~ProgramNotFound(n)
      BY <1>1, <1>2, <2>1, <2>2, CreatingEndsNothing, WaitingEndsNothing,
         CleaningEndsNothing
    <2>5. ExitProcess(n) \/ ExitThread(n)
      BY <1>1, <1>3, <2>1, <2>3, <2>4, NotTaken DEF KernelStep, UserStep
    <2>6. pc[n] = "user" BY <2>5 DEF ExitProcess, ExitThread, MayExit
    <2>7. PICK E : Ends(n, E) BY <1>1, <2>1, <2>5, ExitProcessEnds, ExitThreadEnds
    <2> QED BY <1>1, <2>1, <2>6, <2>7, EndsWake
  <1>4. CASE DestructInit
    <2>1. Counted /\ Loaded(Init0) /\ ~halted
      BY <1>4 DEF DestructInit, IInv, AnyInv, Running
    <2>2. getPid(Init0) = 0 BY <1>1, <2>1, PidOfOthers
    <2>3. CleanProcess(Init0, 0, "unborn") BY <1>4, <2>2 DEF DestructInit
    <2>4. process_table[0] # None /\ 0 \in Pids /\ 0 \in Handle /\ "unborn" \in Labels
      BY <1>1, <2>1, HandleSets DEF AnyInv, Booted, Handle, Handles, Labels
    <2>5. NobodyEnds BY <1>1, <2>1, <2>2, <2>3, <2>4, RemovalEndsNothing
    <2> QED BY <1>2, <2>5
  <1>5. CASE UNCHANGED vars
    <2>1. UNCHANGED tables BY <1>5 DEF vars
    <2> QED BY <1>2, <2>1, SameTablesEndNothing
  <1> QED BY <1>3, <1>4, <1>5 DEF Next

(* The step in which a program ends wakes every thread that is already      *)
(* asleep for it: the waiting queues forget nobody (make_done, notifyAll,   *)
(* wakeUpThreadHandle, thread_state::wake_up).                              *)
THEOREM EndsWakeSleepers == WellBehaved => (Spec => EndWakesSleepers)
  <1> SUFFICES ASSUME WellBehaved PROVE Spec => EndWakesSleepers OBVIOUS
  <1> DEFINE Wakes ==
        \A h \in Pids \cup Tids :
           validateHandle(h) /\ validateHandle(h)' /\ ~RecordOf(h).q.is_locked
             /\ RecordOf(h)'.q.is_locked =>
                 \A n \in Native : pc[n] = "asleep" /\ h \in want[n] => pc'[n] = "woken"
  <1>1. Init => IInv BY MainInit
  <1>2. IInv /\ [Next]_vars => IInv' BY IStep
  <1>3. IInv /\ [Next]_vars => Wakes BY StepsWake DEF Handles
  <1>4. EndWakesSleepers <=> [][Wakes]_vars BY DEF EndWakesSleepers
  <1> HIDE DEF Wakes
  <1> QED BY <1>1, <1>2, <1>3, <1>4, PTL DEF Spec
=============================================================================
