------------------------------ MODULE Process ------------------------------
(***************************************************************************)
(* Process and thread management of the kernel: src/src/kernel/process/    *)
(* process.cpp with waiting_queue.cpp, thread_state.cpp and retval.cpp.    *)
(*                                                                         *)
(* The actors are the native threads of the host. Each runs user code (any *)
(* legal sequence of the system calls Clone, Wait_For, Shutdown and exit)  *)
(* and, inside a call, the kernel's code. A stretch of kernel code that    *)
(* holds a lock, or touches no shared state, is one step; where the code   *)
(* drops the lock or never takes it the steps of the threads interleave.   *)
(* A null record that is dereferenced or an index outside a table sets     *)
(* crashed: the real kernel has no defined behaviour after that.           *)
(***************************************************************************)
EXTENDS Integers, Sequences, FiniteSets

CONSTANTS Native,             \* native threads of the host
          Init0,              \* the one that boots the kernel and is "init"
          Nobody,             \* no native thread
          None,               \* an empty slot of a table
          MAX_PROCESS_COUNT,  \* slots of process_table
          MAX_THREAD_COUNT,   \* slots of thread_table
          MaxClones,          \* bound of the model: Clone calls
          MaxHandles,         \* bound of the model: handles in one Wait_For
          Liberties           \* what user programs permit themselves, see below

(* Programs that take no liberty create one process at a time machine-wide *)
(* and join everything they create, each handle by the thread that got it; *)
(* and none is created in the very moment in which the streams of another  *)
(* are closed, which programs cannot avoid but seldom meet.                *)
AllLiberties ==
    {"overlapping clones",   \* two threads are inside Clone at once
     "shared joins",         \* threads of a process join each other's handles
     "full table",           \* a process is created though no slot is free
     "unknown programs",     \* a program name is absent from user.dll
     "abandoned children",   \* a program exits before it joined its children
     "count at the same time",  \* two threads update the streams' counter
     "shutdown"}             \* a program calls Shutdown

ASSUME ProcessAssumption ==
    /\ IsFiniteSet(Native) /\ Init0 \in Native /\ Nobody \notin Native
    /\ MAX_PROCESS_COUNT \in Nat \ {0} /\ MAX_THREAD_COUNT \in Nat \ {0}
    /\ MaxClones \in Nat /\ MaxHandles \in Nat \ {0}
    /\ Liberties \subseteq AllLiberties

BASE_TID_INDEX == MAX_PROCESS_COUNT
Pids == 0..(MAX_PROCESS_COUNT - 1)
Tids == BASE_TID_INDEX..(BASE_TID_INDEX + MAX_THREAD_COUNT - 1)
erInvalid_Handle == 65535
Unseen == -1

VARIABLES process_table,      \* pid -> PCB or None
          thread_table,       \* tid -> TCB or None
          thread_to_tid,      \* native thread -> tid
          next_pid, next_tid, \* next_avaliable_pid and next_avaliable_tid
          procfs,             \* pids with a file in procfs
          openCounter,        \* openings of the standard streams' descriptor
          seen,               \* what a thread that counts has read of it
          lost,               \* openings that no process will close, for the
                              \* property only
          pc,                 \* where each native thread is
          mains,              \* the threads that run process0, not thread0
          arg,                \* the handle it is creating or waiting for
          want,               \* the handles its Wait_For was called with
          children,           \* handles its user code got and has not joined
          clones,             \* Clone calls so far
          crashed, halted

tables == <<process_table, thread_table>>
alloc == <<next_pid, next_tid, clones>>
user == <<want, children, mains>>
counting == <<openCounter, seen, lost>>
vars == <<tables, thread_to_tid, alloc, procfs, counting, pc, arg, user,
          crashed, halted>>

Queue == [waiting_handles : Seq(Tids),
          is_locked : BOOLEAN, assigned : BOOLEAN, waiters : Nat]
PCB == [creator : Native, io : BOOLEAN, q : Queue]
TCB == [pid : Pids \cup {erInvalid_Handle}, thread : Native \cup {Nobody},
        waked_by : Pids \cup Tids \cup {erInvalid_Handle},
        q : Queue]

(* An empty slot is no record, and the numbers of the handles end below the *)
(* sentinel (1024 processes and 1024 threads against 65535).                *)
ASSUME SlotAssumption ==
    /\ None \notin PCB /\ None \notin TCB
    /\ MAX_PROCESS_COUNT + MAX_THREAD_COUNT <= erInvalid_Handle

\* waiting_queue and retval as constructed.
NewQueue == [waiting_handles |-> <<>>, is_locked |-> FALSE,
             assigned |-> FALSE, waiters |-> 0]

Elements(queue) == {queue[i] : i \in DOMAIN queue}

\* mutant: the test for an empty slot is inverted
FirstTaken(table, next) ==
    LET size == Cardinality(DOMAIN table)
        taken == {h \in DOMAIN table : table[h] # None}
        distance(h) == (h + size - next) % size
    IN  CHOOSE h \in taken : \A g \in taken : distance(h) <= distance(g)

\* The first free slot from next on, in cyclic order; the sentinel if none is.
FirstFree(table, next) ==
    LET size == Cardinality(DOMAIN table)
        free == {h \in DOMAIN table : table[h] = None}
        distance(h) == (h + size - next) % size
    IN  IF free = {} THEN erInvalid_Handle
        ELSE CHOOSE h \in free : \A g \in free : distance(h) <= distance(g)

getNextFreePid == FirstFree(process_table, next_pid)
getNextFreeTid == FirstFree(thread_table, next_tid)

\* The next value of the two counters once handle h has been chosen.
NextPid(h) == IF h = erInvalid_Handle THEN 0 ELSE (h + 1) % MAX_PROCESS_COUNT
NextTid(h) == IF h = erInvalid_Handle THEN BASE_TID_INDEX
              ELSE BASE_TID_INDEX + ((h + 1 - BASE_TID_INDEX) % MAX_THREAD_COUNT)

getTid(n) == thread_to_tid[n]
getPid(n) ==
    IF getTid(n) = erInvalid_Handle \/ thread_table[getTid(n)] = None
    THEN erInvalid_Handle ELSE thread_table[getTid(n)].pid

LivePid(n) == getPid(n) \in Pids /\ process_table[getPid(n)] # None

validateHandle(h) ==
    IF h < BASE_TID_INDEX THEN process_table[h] # None ELSE thread_table[h] # None

RecordOf(h) == IF h < BASE_TID_INDEX THEN process_table[h] ELSE thread_table[h]
-----------------------------------------------------------------------------
Init ==
    /\ process_table = [p \in Pids |->
          IF p = 0 THEN [creator |-> Init0, io |-> TRUE, q |-> NewQueue] ELSE None]
    /\ thread_table = [t \in Tids |->
          IF t = BASE_TID_INDEX
          THEN [pid |-> 0, thread |-> Init0,
                waked_by |-> erInvalid_Handle, q |-> NewQueue]
          ELSE None]
    /\ thread_to_tid = [n \in Native |->
          IF n = Init0 THEN BASE_TID_INDEX ELSE erInvalid_Handle]
    /\ next_pid = 1 % MAX_PROCESS_COUNT
    /\ next_tid = BASE_TID_INDEX + (1 % MAX_THREAD_COUNT)
    /\ procfs = {}
    /\ openCounter = 1
    /\ seen = [n \in Native |-> Unseen]
    /\ lost = 0
    /\ pc = [n \in Native |-> IF n = Init0 THEN "user" ELSE "unborn"]
    /\ arg = [n \in Native |-> erInvalid_Handle]
    /\ want = [n \in Native |-> {}]
    /\ children = [n \in Native |-> {}]
    /\ mains = {Init0}
    /\ clones = 0
    /\ crashed = FALSE
    /\ halted = FALSE

Goto(n, l) == pc' = [pc EXCEPT ![n] = l]
SetArg(n, h) == arg' = [arg EXCEPT ![n] = h]

Running == ~crashed /\ ~halted

Crash ==
    /\ Running
    /\ crashed' = TRUE
    /\ UNCHANGED <<tables, thread_to_tid, alloc, procfs, counting, pc, arg,
                   user, halted>>
Alive == Running /\ UNCHANGED <<crashed, halted>>

Cloning == {"advancePid", "createFreePCB", "initialisePCB", "loadProgram",
            "createProcessThread", "startThread"}

MayClone(n) ==
    /\ pc[n] = "user"
    /\ clones < MaxClones
    /\ \/ "overlapping clones" \in Liberties
       \/ \A m \in Native : pc[m] \notin Cloning
    /\ Cardinality({m \in Native : pc[m] = "unborn"})
         > Cardinality({m \in Native : pc[m] \in Cloning})
    /\ n = Init0 => clones = 0      \* runFirstProgram creates the shell, no more
-----------------------------------------------------------------------------
(* subroutineCreateProcess.                                                *)
(* getNextFreePid() without a lock: the scan from next_avaliable_pid ...    *)
ClonePickPid(n) ==
    /\ MayClone(n)
    /\ "full table" \in Liberties \/ getNextFreePid \in Pids
    /\ SetArg(n, getNextFreePid)
    /\ clones' = clones + 1
    /\ Goto(n, "advancePid")
    /\ UNCHANGED <<tables, thread_to_tid, next_pid, next_tid, procfs,
                   counting, user>>
    /\ Alive

(* ... and the store of the counter.                                       *)
AdvancePid(n) ==
    /\ pc[n] = "advancePid"
    /\ next_pid' = NextPid(arg[n])
    /\ Goto(n, "createFreePCB")
    /\ UNCHANGED <<tables, thread_to_tid, next_tid, clones, procfs,
                   counting, arg, user>>
    /\ Alive

(* The test for MAX_PROCESS_COUNT in subroutineCreateProcess never holds:   *)
(* the sentinel of a full table is another number, outside the table.       *)
CreateFreePCB(n) ==
    /\ pc[n] = "createFreePCB"
    /\ \/ arg[n] \notin Pids /\ Crash
       \/ /\ arg[n] \in Pids
          /\ process_table' = [process_table EXCEPT ![arg[n]] =
                [creator |-> n, io |-> FALSE, q |-> NewQueue]]
          /\ Goto(n, "initialisePCB")
          /\ UNCHANGED <<thread_table, thread_to_tid, alloc, procfs,
                         counting, arg, user>>
          /\ Alive

\* The slot still holds the record that n made for the process it is creating.
OwnsSlot(n) == process_table[arg[n]] # None /\ process_table[arg[n]].creator = n

(* A counter is read before it is written, and nothing keeps another thread *)
(* from counting in between.                                                *)
Loaded(n) == seen[n] # Unseen

LoadCounter(n) ==
    /\ ~Loaded(n)
    /\ "count at the same time" \in Liberties \/ \A m \in Native : ~Loaded(m)
    /\ seen' = [seen EXCEPT ![n] = openCounter]
    /\ UNCHANGED <<tables, thread_to_tid, alloc, procfs, openCounter, lost, pc,
                   arg, user>>
    /\ Alive

Forget(n) == seen' = [seen EXCEPT ![n] = Unseen]

\* mutant: the duplicated descriptor is not counted
OpenedUncounted(n) == openCounter

\* increaseFDescOpenCounter, which does not open a closed descriptor again.
Opened(n) == IF seen[n] < 1 THEN openCounter ELSE seen[n] + 1

(* The working directory comes from the creator's PCB, the streams are its *)
(* descriptors ...                                                         *)
InheritStreams(n) ==
    /\ pc[n] = "initialisePCB"
    /\ \/ ~Loaded(n) /\ ~LivePid(n) /\ Crash
       \/ LivePid(n) /\ LoadCounter(n)

(* ... opened once more. The record is reached through n's own pointer, so *)
(* it may meanwhile have been dropped from the table.                      *)
InitialisePCB(n) ==
    /\ pc[n] = "initialisePCB" /\ Loaded(n)
    /\ openCounter' = Opened(n) /\ Forget(n)
    /\ process_table' = IF OwnsSlot(n)
          THEN [process_table EXCEPT ![arg[n]].io = TRUE]
          ELSE process_table
    /\ Goto(n, "loadProgram")
    /\ UNCHANGED <<thread_table, thread_to_tid, alloc, procfs, lost, arg, user>>
    /\ Alive

(* GetProcAddress finds the program ...                                    *)
ProgramFound(n) ==
    /\ pc[n] = "loadProgram"
    /\ procfs' = procfs \cup {arg[n]}
    /\ Goto(n, "createProcessThread")
    /\ UNCHANGED <<tables, thread_to_tid, alloc, counting, arg, user>>
    /\ Alive

(* ... or not: the slot is freed, the descriptors stay open.               *)
ProgramNotFound(n) ==
    /\ "unknown programs" \in Liberties
    /\ pc[n] = "loadProgram"
    /\ process_table' = [process_table EXCEPT ![arg[n]] = None]
    /\ SetArg(n, erInvalid_Handle)
    /\ Goto(n, "user")
    /\ lost' = lost + 1
    /\ UNCHANGED <<thread_table, thread_to_tid, alloc, procfs, openCounter, seen,
                   user>>
    /\ Alive

NewTCB(pid, thread) ==
    [pid |-> pid, thread |-> thread, waked_by |-> erInvalid_Handle,
     q |-> NewQueue]

(* createProcessThread, all under thread_table_lock. The full table's      *)
(* sentinel passes the test here too and indexes outside the table.        *)
CreateProcessThread(n) ==
    /\ pc[n] = "createProcessThread"
    /\ LET tid == getNextFreeTid
       IN \/ tid \notin Tids /\ Crash
          \/ /\ tid \in Tids
             /\ \E m \in Native :
                  /\ pc[m] = "unborn"
                  /\ thread_table' =
                       [thread_table EXCEPT ![tid] = NewTCB(arg[n], m)]
                  /\ pc' = [pc EXCEPT ![n] = "user", ![m] = "start"]
                  /\ arg' = [arg EXCEPT ![n] = erInvalid_Handle, ![m] = tid]
                  /\ mains' = mains \cup {m}
             /\ next_tid' = NextTid(tid)
             /\ children' = [children EXCEPT ![n] = @ \cup {arg[n]}]
             /\ UNCHANGED <<process_table, thread_to_tid, next_pid, clones,
                            procfs, counting, want>>
             /\ Alive

(* subroutineCreateThread: the TCB is made under thread_table_lock ...     *)
CreateThread(n) ==
    /\ MayClone(n) /\ n # Init0
    /\ LET tid == getNextFreeTid
       IN \/ tid \notin Tids /\ Crash
          \/ /\ tid \in Tids
             /\ thread_table' =
                  [thread_table EXCEPT ![tid] = NewTCB(getPid(n), Nobody)]
             /\ next_tid' = NextTid(tid)
             /\ SetArg(n, tid)
             /\ Goto(n, "startThread")
             /\ clones' = clones + 1
             /\ UNCHANGED <<process_table, thread_to_tid, next_pid, procfs,
                            counting, user>>
             /\ Alive

(* ... and the native thread is started after the lock is dropped.         *)
StartThread(n) ==
    /\ pc[n] = "startThread"
    /\ \E m \in Native :
         /\ pc[m] = "unborn"
         /\ thread_table' = IF thread_table[arg[n]] = None THEN thread_table
                            ELSE [thread_table EXCEPT ![arg[n]].thread = m]
         /\ pc' = [pc EXCEPT ![n] = "user", ![m] = "start"]
         /\ arg' = [arg EXCEPT ![n] = erInvalid_Handle, ![m] = arg[n]]
         /\ mains' = mains \ {m}
    /\ children' = [children EXCEPT ![n] = @ \cup {arg[n]}]
    /\ UNCHANGED <<process_table, thread_to_tid, alloc, procfs, counting, want>>
    /\ Alive

\* process0 and thread0 begin: addRecordToThreadMap.
StartRunning(n) ==
    /\ pc[n] = "start"
    /\ thread_to_tid' = [thread_to_tid EXCEPT ![n] = arg[n]]
    /\ SetArg(n, erInvalid_Handle)
    /\ Goto(n, "user")
    /\ UNCHANGED <<tables, alloc, procfs, counting, user>>
    /\ Alive
-----------------------------------------------------------------------------
\* Run_VM after its only Wait_For: destructInit cleans the process of init.
Destructs(n) == n = Init0 /\ pc[n] = "user" /\ clones > 0 /\ children[n] = {}

\* Is n removing a process, and which one?
Cleans(n) ==
    \/ Destructs(n)
    \/ pc[n] \in {"clean", "stopClean"} /\ arg[n] \in Pids
Cleaned(n) == IF Destructs(n) THEN getPid(n) ELSE arg[n]

\* process_table_lock, which cleanProcess holds while it closes the streams.
TableFree(n) == \A m \in Native \ {n} : ~(Loaded(m) /\ Cleans(m))
-----------------------------------------------------------------------------
\* Wait_For.
\* The handles user code of thread n can name.
Joinable(n) ==
    IF "shared joins" \in Liberties
    THEN UNION {children[m] : m \in {m \in Native : getPid(m) = getPid(n)}}
    ELSE children[n]

Register(record, tid) ==
    IF record.q.is_locked THEN record
    ELSE [record EXCEPT !.q.waiting_handles = Append(@, tid)]

(* Under both table locks: the caller enters the queue of every handle that *)
(* is valid and not finished; a finished one is answered without sleeping.  *)
WaitFor(n) ==
    /\ pc[n] = "user" /\ TableFree(n)
    /\ \E hs \in SUBSET Joinable(n) :
         /\ Cardinality(hs) \in 1..MaxHandles
         /\ want' = [want EXCEPT ![n] = hs]
         /\ LET valid == {h \in hs : validateHandle(h)}
                already_done == {h \in valid : RecordOf(h).q.is_locked}
            IN  /\ process_table' = [p \in Pids |->
                      IF p \in valid THEN Register(process_table[p], getTid(n))
                      ELSE process_table[p]]
                /\ thread_table' = [t \in Tids |->
                      IF t \in valid THEN Register(thread_table[t], getTid(n))
                      ELSE thread_table[t]]
                /\ \/ /\ already_done = {}
                      /\ Goto(n, "sleep")
                      /\ UNCHANGED arg
                   \/ \E h \in already_done : Goto(n, "getRetVal") /\ SetArg(n, h)
    /\ UNCHANGED <<thread_to_tid, alloc, procfs, counting, children, mains>>
    /\ Alive

(* thread_state::sleep on the caller's own TCB, with no lock held since the *)
(* registration and no look at whether the wake-up has come meanwhile.      *)
FallAsleep(n) ==
    /\ pc[n] = "sleep"
    /\ \/ thread_table[getTid(n)] = None /\ Crash
       \/ /\ thread_table[getTid(n)] # None
          /\ Goto(n, "asleep")
          /\ UNCHANGED <<tables, thread_to_tid, alloc, procfs, counting, arg, user>>
          /\ Alive

\* get_wake_by, which also resets the field.
GetWakeBy(n) ==
    /\ pc[n] = "woken"
    /\ \/ thread_table[getTid(n)] = None /\ Crash
       \/ /\ thread_table[getTid(n)] # None
          /\ SetArg(n, thread_table[getTid(n)].waked_by)
          /\ thread_table' =
               [thread_table EXCEPT ![getTid(n)].waked_by = erInvalid_Handle]
          /\ Goto(n, "getRetVal")
          /\ UNCHANGED <<process_table, thread_to_tid, alloc, procfs, counting, user>>
          /\ Alive

\* The call is over: user code takes a single handle for joined whatever
\* handle was reported (rtl Join_One_Handle does not look at it).
JoinDone(n, h) ==
    /\ SetArg(n, erInvalid_Handle)
    /\ want' = [want EXCEPT ![n] = {}]
    /\ children' = [children EXCEPT ![n] =
          @ \ ({h} \cup IF Cardinality(want[n]) = 1 THEN want[n] ELSE {})]
    /\ UNCHANGED mains

ReadRecord(h) == h \in Pids \cup Tids /\ validateHandle(h)

\* mutant: the counter of waiters is decremented also at 0
AfterReadUnguarded(record) == [record EXCEPT !.q.waiters = @ - 1]

AfterRead(record) ==
    [record EXCEPT !.q.waiters = IF @ > 0 THEN @ - 1 ELSE @]

(* GetRetVal and retval::red_ret_val: block while nothing is assigned; the  *)
(* reader that brings the count of waiters to 0, or finds it there, goes on *)
(* to remove the record.                                                    *)
GetRetVal(n) ==
    /\ pc[n] = "getRetVal"
    /\ ReadRecord(arg[n]) /\ ~RecordOf(arg[n]).q.assigned
    /\ Goto(n, "blockedRet")
    /\ UNCHANGED <<tables, thread_to_tid, alloc, procfs, counting, arg, user>>
    /\ Alive

ReadRetVal(n) ==
    /\ pc[n] \in {"getRetVal", "blockedRet"}
    /\ \/ ~ReadRecord(arg[n]) /\ Crash
       \/ LET h == arg[n]
          IN /\ ReadRecord(h) /\ RecordOf(h).q.assigned
             /\ \/ /\ h \in Pids
                   /\ process_table' = [process_table EXCEPT ![h] = AfterRead(@)]
                   /\ UNCHANGED thread_table
                \/ /\ h \in Tids
                   /\ thread_table' = [thread_table EXCEPT ![h] = AfterRead(@)]
                   /\ UNCHANGED process_table
             /\ \/ /\ AfterRead(RecordOf(h)).q.waiters = 0
                   /\ Goto(n, "clean")
                   /\ UNCHANGED <<arg, user>>
                \/ /\ AfterRead(RecordOf(h)).q.waiters # 0
                   /\ Goto(n, "user")
                   /\ JoinDone(n, h)
             /\ UNCHANGED <<thread_to_tid, alloc, procfs, counting>>
             /\ Alive
-----------------------------------------------------------------------------
\* Waking and removing.
\* mutant: the woken thread is not told by whom
WakeUpAnonymous(table, ws, waker) == table

\* mutant: the woken thread finds its own handle
WakeUpBySelf(table, ws, waker) ==
    [t \in Tids |-> IF t \in ws /\ table[t] # None
                    THEN [table[t] EXCEPT !.waked_by = t] ELSE table[t]]

\* wakeUpThreadHandle and wakeUpProcessHandle for the waiters ws.
WakeUp(table, ws, waker) ==
    [t \in Tids |-> IF t \in ws /\ table[t] # None
                    THEN [table[t] EXCEPT !.waked_by = waker] ELSE table[t]]

\* The native threads asleep on the condition variable of a TCB in ws.
Notified(ws) ==
    {n \in Native : /\ pc[n] = "asleep"
                    /\ \E w \in ws : /\ thread_table[w] # None
                                     /\ thread_table[w].thread = n}

PcAfter(n, label, ws) ==
    pc' = [m \in Native |-> IF m = n THEN label
                            ELSE IF m \in Notified(ws) THEN "woken" ELSE pc[m]]

\* mutant: the test of the pid is missing, every thread is removed
AllThreads(h) == {t \in Tids : thread_table[t] # None}

ThreadsOf(h) ==
    {t \in Tids : thread_table[t] # None /\ thread_table[t].pid = h}

\* cleanThread spares the first slot, init's.
Doomed(h) == ThreadsOf(h) \ {BASE_TID_INDEX}

\* detach() of a std::thread that was never started throws.
Detachable(ts) == \A t \in ts : thread_table[t].thread # Nobody

NoWaiters(record) == [record EXCEPT !.q.waiting_handles = <<>>]

\* mutant: the streams of a process that is removed stay open
ClosedNever(n, h) == openCounter

\* close of the VFS, which leaves a closed descriptor alone.
Closed(n, h) ==
    IF process_table[h].io /\ seen[n] >= 1 THEN seen[n] - 1 ELSE openCounter

ProcfsWithout(h) == procfs \ {h}

(* cleanProcess(h) called by n, who goes on at label: the procfs file, the  *)
(* threads in ascending order (each wakes its waiters and loses its TCB, so *)
(* that it cannot be woken by a later one), the open descriptors, the       *)
(* waiters of the process, the slot. All of it is one step but the look at  *)
(* the counter of the descriptors, CloseStreams, which comes before it:     *)
(* the other tables have locks of their own, the counter has none.          *)
CleanProcess(n, h, label) ==
    LET threadWaiters == {w \in Tids : \E t \in ThreadsOf(h) :
              /\ w \in Elements(thread_table[t].q.waiting_handles)
              /\ ~(w \in Doomed(h) /\ w < t)}
        waiters == IF getTid(n) \in Doomed(h) \/ getPid(n) = erInvalid_Handle THEN {}
                   ELSE Elements(process_table[h].q.waiting_handles) \ Doomed(h)
        kept == [t \in Tids |-> IF t \in Doomed(h) THEN None
                                ELSE IF t \in ThreadsOf(h)
                                     THEN NoWaiters(thread_table[t])
                                     ELSE thread_table[t]]
    IN  /\ procfs' = ProcfsWithout(h)
        /\ thread_table' = WakeUp(WakeUp(kept, threadWaiters, getTid(n)),
                                  waiters, getPid(n))
        /\ openCounter' = Closed(n, h) /\ Forget(n)
        /\ process_table' = [process_table EXCEPT ![h] = None]
        /\ PcAfter(n, label, threadWaiters \cup waiters)
        /\ UNCHANGED <<thread_to_tid, alloc, lost>>

CanCleanProcess(h) ==
    h \in Pids /\ process_table[h] # None /\ Detachable(Doomed(h))

\* Under process_table_lock, which n keeps until the process is removed.
CloseStreams(n) ==
    /\ Cleans(n) /\ TableFree(n)
    /\ CanCleanProcess(Cleaned(n))
    /\ LoadCounter(n)

(* The last reader removes the record, then Wait_For returns. Process and   *)
(* thread records are removed alike.                                        *)
CleanThread(n, h) ==
    LET waiters == Elements(thread_table[h].q.waiting_handles)
    IN  /\ thread_table' = [WakeUp(thread_table, waiters, getTid(n)) EXCEPT
              ![h] = IF h = BASE_TID_INDEX THEN NoWaiters(@) ELSE None]
        /\ PcAfter(n, "user", waiters)
        /\ UNCHANGED <<process_table, thread_to_tid, alloc, procfs, counting>>

CanCleanThread(h) == validateHandle(h) /\ Detachable({h})

CanClean(h) == IF h \in Pids THEN CanCleanProcess(h) ELSE CanCleanThread(h)

Clean(n) ==
    /\ pc[n] = "clean"
    /\ \/ ~CanClean(arg[n]) /\ (arg[n] \in Pids => TableFree(n)) /\ Crash
       \/ /\ CanClean(arg[n]) /\ (arg[n] \in Pids => Loaded(n))
          /\ IF arg[n] \in Pids THEN CleanProcess(n, arg[n], "user")
                               ELSE CleanThread(n, arg[n])
          /\ JoinDone(n, arg[n])
          /\ Alive
-----------------------------------------------------------------------------
\* The end of a program.
\* The process a native thread runs for, also before it has started.
PidOf(n) ==
    LET tid == IF pc[n] = "start" THEN arg[n] ELSE getTid(n)
    IN  IF tid = erInvalid_Handle \/ thread_table[tid] = None
        THEN erInvalid_Handle ELSE thread_table[tid].pid

(* A program returns from its entry point: always after its worker threads, *)
(* and, unless it abandons them, after it has joined what it created.       *)
MayExit(n) ==
    /\ pc[n] = "user" /\ n # Init0
    /\ "abandoned children" \in Liberties \/ children[n] = {}
    /\ n \in mains =>
         \A m \in Native \ {n} : pc[m] # "unborn" => PidOf(m) # getPid(n)

\* mutant: make_done does not mark the value as assigned
DoneUnassigned(record) ==
    [record EXCEPT !.q = [waiting_handles |-> <<>>, is_locked |-> TRUE,
                          assigned |-> FALSE,
                          waiters |-> Len(record.q.waiting_handles)]]

\* make_done with the length of the queue, close, notifyAll.
Done(record) ==
    [record EXCEPT !.q = [waiting_handles |-> <<>>, is_locked |-> TRUE,
                          assigned |-> TRUE,
                          waiters |-> Len(record.q.waiting_handles)]]

Gone(n) ==
    /\ children' = [children EXCEPT ![n] = {}]
    /\ thread_to_tid' = [thread_to_tid EXCEPT ![n] = erInvalid_Handle]
    /\ UNCHANGED <<alloc, procfs, counting, arg, want, mains>>
    /\ Alive

(* The end of process0, under both table locks.                            *)
ExitProcess(n) ==
    /\ MayExit(n) /\ n \in mains /\ TableFree(n)
    /\ \/ ~LivePid(n) /\ Crash
       \/ LET p == getPid(n)
              t == getTid(n)
              procWaiters == Elements(process_table[p].q.waiting_handles)
              threadWaiters == Elements(thread_table[t].q.waiting_handles)
          IN /\ LivePid(n)
             /\ process_table' = [process_table EXCEPT ![p] = Done(@)]
             /\ thread_table' =
                  WakeUp(WakeUp([thread_table EXCEPT ![t] = Done(@)],
                                procWaiters, p), threadWaiters, t)
             /\ PcAfter(n, "unborn", procWaiters \cup threadWaiters)
             /\ Gone(n)

(* The end of thread0, under thread_table_lock.                            *)
ExitThread(n) ==
    /\ MayExit(n) /\ n \notin mains
    /\ \/ thread_table[getTid(n)] = None /\ Crash
       \/ LET t == getTid(n)
              threadWaiters == Elements(thread_table[t].q.waiting_handles)
          IN /\ thread_table[t] # None
             /\ thread_table' =
                  WakeUp([thread_table EXCEPT ![t] = Done(@)], threadWaiters, t)
             /\ PcAfter(n, "unborn", threadWaiters)
             /\ UNCHANGED process_table
             /\ Gone(n)

(* destructInit, then the VM is gone.                                      *)
DestructInit ==
    /\ Destructs(Init0) /\ Loaded(Init0)
    /\ CleanProcess(Init0, getPid(Init0), "unborn")
    /\ Running /\ halted' = TRUE
    /\ UNCHANGED <<arg, user, crashed>>
-----------------------------------------------------------------------------
(* routineShutdown: every pid from 1 on in turn; nothing holds a lock from  *)
(* one step to the next.                                                    *)
Shutdown(n) ==
    /\ "shutdown" \in Liberties
    /\ pc[n] = "user" /\ n # Init0
    /\ SetArg(n, 1)
    /\ Goto(n, "stop")
    /\ UNCHANGED <<tables, thread_to_tid, alloc, procfs, counting, user>>
    /\ Alive

Stoppable(n) ==
    arg[n] \in Pids /\ process_table[arg[n]] # None /\ arg[n] # getPid(n)

\* stopProcess: make_done(99, 0) on a record that is there and not one's own.
StopProcess(n) ==
    /\ pc[n] = "stop"
    /\ Stoppable(n)
    /\ process_table' = [process_table EXCEPT ![arg[n]].q.assigned = TRUE,
                                              ![arg[n]].q.waiters = 0]
    /\ Goto(n, "stopClean")
    /\ UNCHANGED <<thread_table, thread_to_tid, alloc, procfs, counting, arg, user>>
    /\ Alive

StopClean(n) ==
    /\ pc[n] = "stopClean"
    /\ \/ ~CanCleanProcess(arg[n]) /\ TableFree(n) /\ Crash
       \/ /\ CanCleanProcess(arg[n]) /\ Loaded(n)
          /\ CleanProcess(n, arg[n], "stop")
          /\ SetArg(n, arg[n] + 1)
          /\ UNCHANGED user
          /\ Alive

\* The loop goes on past a pid that is free or its own, and ends.
SkipStop(n) ==
    /\ pc[n] = "stop"
    /\ ~Stoppable(n)
    /\ \/ /\ arg[n] \in Pids
          /\ SetArg(n, arg[n] + 1)
          /\ UNCHANGED pc
       \/ /\ arg[n] \notin Pids
          /\ SetArg(n, erInvalid_Handle)
          /\ Goto(n, "user")
    /\ UNCHANGED <<tables, thread_to_tid, alloc, procfs, counting, user>>
    /\ Alive
-----------------------------------------------------------------------------
KernelStep(n) ==
    \/ AdvancePid(n) \/ CreateFreePCB(n) \/ InheritStreams(n) \/ InitialisePCB(n)
    \/ ProgramFound(n) \/ ProgramNotFound(n)
    \/ CreateProcessThread(n) \/ StartThread(n) \/ StartRunning(n)
    \/ FallAsleep(n) \/ GetWakeBy(n) \/ GetRetVal(n) \/ ReadRetVal(n)
    \/ CloseStreams(n) \/ Clean(n)
    \/ StopProcess(n) \/ StopClean(n) \/ SkipStop(n)

UserStep(n) ==
    \/ ClonePickPid(n) \/ CreateThread(n) \/ WaitFor(n) \/ Shutdown(n)
    \/ ExitProcess(n) \/ ExitThread(n)

Next ==
    \/ \E n \in Native : KernelStep(n) \/ UserStep(n)
    \/ DestructInit

(* A native thread inside the kernel keeps running; user code may compute   *)
(* for ever.                                                                *)
Spec ==
    /\ Init /\ [][Next]_vars
    /\ \A n \in Native : WF_vars(KernelStep(n))
-----------------------------------------------------------------------------
Labels == {"unborn", "start", "user", "sleep", "asleep", "woken", "getRetVal",
           "blockedRet", "clean", "stop", "stopClean"} \cup Cloning

(* Type invariant.                                                          *)
TypeOK ==
    /\ process_table \in [Pids -> PCB \cup {None}]
    /\ thread_table \in [Tids -> TCB \cup {None}]
    /\ thread_to_tid \in [Native -> Tids \cup {erInvalid_Handle}]
    /\ next_pid \in Pids /\ next_tid \in Tids
    /\ procfs \subseteq Pids
    /\ openCounter \in Nat
    /\ seen \in [Native -> Nat \cup {Unseen}]
    /\ lost \in Nat
    /\ pc \in [Native -> Labels]
    /\ arg \in [Native -> Pids \cup Tids \cup {erInvalid_Handle}]
    /\ want \in [Native -> SUBSET (Pids \cup Tids)]
    /\ children \in [Native -> SUBSET (Pids \cup Tids)]
    /\ mains \subseteq Native
    /\ clones \in 0..MaxClones
    /\ crashed \in BOOLEAN /\ halted \in BOOLEAN

(* The kernel never dereferences an empty slot or indexes outside a table.  *)
NoCrash == ~crashed

(* Every native thread that runs has the TCB its tid names, and the process *)
(* it works for is in the table: getPid() is right for every system call.   *)
ThreadIdentity ==
    \A n \in Native : Running /\ pc[n] \notin {"unborn", "start"} =>
        /\ LivePid(n)
        /\ thread_table[getTid(n)].thread = n

(* Wait_For reports a handle that the caller is waiting for. This is what   *)
(* process.cpp:113 says, "OUT:rax is signalized handle", and what the code  *)
(* does; for api.h:120 see JoinReturnsIndex.                                *)
JoinReturnsRequested ==
    \A n \in Native : pc[n] \in {"getRetVal", "blockedRet", "clean"} =>
        arg[n] \in want[n]

(* api.h:120: what Wait_For reports is the index of the signalled handle in *)
(* the array that it was called with.                                       *)
JoinReturnsIndex ==
    \A n \in Native : pc[n] \in {"getRetVal", "blockedRet", "clean"} =>
        arg[n] \in 0..(Cardinality(want[n]) - 1)

(* The record of a handle stays until every thread waiting for it has read  *)
(* the return value (Dokumentace.pdf, section 3.1.1).                       *)
JoinedRecordKept ==
    \A n \in Native : Running /\ want[n] # {} => \A h \in want[n] : validateHandle(h)

\* A finished process holds its slot only while somebody is still to join it.
NoZombies ==
    Running => \A p \in Pids :
        process_table[p] # None /\ process_table[p].q.assigned =>
            \E n \in Native : p \in children[n]

\* procfs, which ps lists, shows the processes other than init from the
\* moment their program is loaded until they are removed.
ProcfsShowsProcesses ==
    procfs = {p \in Pids \ {0} : process_table[p] # None} \
             {arg[n] : n \in {n \in Native :
                                pc[n] \in {"initialisePCB", "loadProgram"}}}

(* What is opened for a process is closed exactly once, when it is removed; *)
(* what was opened for one whose program does not exist stays open.         *)
OpeningsBalance ==
    openCounter = lost + Cardinality({p \in Pids :
                      process_table[p] # None /\ process_table[p].io})

(* A process that was joined, or whose creation failed for want of a        *)
(* program, has given its slot and its entry in procfs back, and the one    *)
(* thing that leaks are the openings of a failed creation (process.cpp:191  *)
(* does not undo them). For threads that do not count at the same time: the *)
(* counter is read and written without a lock (VFS.cpp:191, :336).          *)
NothingLeaks == NoZombies /\ ProcfsShowsProcesses /\ OpeningsBalance

(* Whatever programs do, clones that share a slot and Shutdown included, a  *)
(* process never loses its streams because another one closed them once too *)
(* often; unless two threads count at the same time, when it does happen.   *)
StreamsStayOpen ==
    openCounter >= Cardinality({p \in Pids :
                      process_table[p] # None /\ process_table[p].io})

\* The step in which a program ends wakes every thread already asleep on it.
EndWakesSleepers ==
    [][\A h \in Pids \cup Tids :
         validateHandle(h) /\ validateHandle(h)' /\ ~RecordOf(h).q.is_locked
           /\ RecordOf(h)'.q.is_locked =>
               \A n \in Native : pc[n] = "asleep" /\ h \in want[n] =>
                   pc'[n] = "woken"]_vars

\* A thread that was woken, or found its handle finished, leaves Wait_For.
WokenJoinReturns ==
    \A n \in Native : pc[n] \in {"woken", "getRetVal"} ~> pc[n] = "user"

(* A thread asleep in Wait_For when its program ends gets out of it: the    *)
(* end wakes it (make_done, notifyAll), and once awake it is not held up by *)
(* others that read the same return value.                                  *)
SleepersGetOut == EndWakesSleepers /\ WokenJoinReturns

(* api.h:119: Wait_For returns as soon as one of its handles is signalled.  *)
JoinReturns ==
    \A n \in Native :
        (\E h \in want[n] : validateHandle(h) /\ RecordOf(h).q.is_locked)
            ~> want[n] = {}
=============================================================================
