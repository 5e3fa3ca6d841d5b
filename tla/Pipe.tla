-------------------------------- MODULE Pipe --------------------------------
(***************************************************************************)
(* The pipe of src/src/kernel/pipe.{h,cpp}: a ring buffer between writer   *)
(* and reader threads, guarded by two semaphores (empty: free cells, full: *)
(* stored bytes), with each end closed separately. The threads interleave  *)
(* at every lock acquisition; what runs under attr_lock or write_lock, or  *)
(* inside one semaphore call, is one step.                                 *)
(***************************************************************************)
EXTENDS SemaphoreOps, Sequences

CONSTANTS Writers,        \* native threads that call write_in
          Readers,        \* native threads that call read_out
          Bytes,          \* the byte values written; 0 is the cleared buffer
          PIPE_SIZE,      \* cells of the ring buffer
          SIZE_MAX,       \* the largest size_t: 0 - 1 wraps to it
          MaxChunk,       \* bound of the model: largest nbytes of one call
          OrderlyClose    \* is an end closed only with no thread inside it?

Threads == Writers \cup Readers

ASSUME PipeAssumption ==
    /\ IsFiniteSet(Writers) /\ IsFiniteSet(Readers)
    /\ Writers \cap Readers = {}
    /\ PIPE_SIZE \in Nat \ {0}
    /\ SIZE_MAX \in Nat /\ PIPE_SIZE < SIZE_MAX
    /\ MaxChunk \in Nat \ {0}
    /\ OrderlyClose \in BOOLEAN

VARIABLES empty, full,    \* the semaphores
          buffer, read_index, write_index, fields_count,
          status,         \* the ends still open
          pc,             \* where each thread is in write_in or read_out
          asked,          \* nbytes of the thread's last call
          moved           \* bytes that call has written or read so far

ring == <<buffer, read_index, write_index, fields_count>>
calls == <<asked, moved>>
vars == <<empty, full, ring, status, pc, calls>>

WriterLabels == {"idle", "w_check", "w_acquire", "w_wait", "w_recheck",
                 "w_store", "w_signal", "w_abort"}
ReaderLabels == {"idle", "r_check", "r_acquire", "r_wait", "r_recheck",
                 "r_fetch", "r_signal", "r_eof"}

At(S, l) == {t \in S : pc[t] = l}
Goto(t, l) == pc' = [pc EXCEPT ![t] = l]
Idle(S) == \A t \in S : pc[t] = "idle"

isOpenRead == "openRead" \in status
isOpenWrite == "openWrite" \in status
isEmpty == fields_count = 0

\* mutant: the reader gives up as soon as the writing end is closed
readMakeSenseWhileOpen == isOpenRead /\ isOpenWrite

readMakeSense == isOpenRead /\ (~isEmpty \/ isOpenWrite)

writteMakeSense == isOpenWrite /\ isOpenRead

Init ==
    /\ empty = InitialSemaphore(PIPE_SIZE)
    /\ full = InitialSemaphore(0)
    /\ buffer = [i \in 0..PIPE_SIZE-1 |-> 0]
    /\ read_index = 0 /\ write_index = 0 /\ fields_count = 0
    /\ status = {"openRead", "openWrite"}
    /\ pc = [t \in Threads |-> "idle"]
    /\ asked = [t \in Threads |-> 0]
    /\ moved = [t \in Threads |-> 0]
-----------------------------------------------------------------------------
(* write_in, called with 1..MaxChunk bytes.                                *)
CallWrite(w) ==
    /\ pc[w] = "idle"
    /\ \E n \in 1..MaxChunk : asked' = [asked EXCEPT ![w] = n]
    /\ moved' = [moved EXCEPT ![w] = 0]
    /\ Goto(w, "w_check")
    /\ UNCHANGED <<empty, full, ring, status>>

WriteCheck(w) ==
    /\ pc[w] = "w_check"
    /\ Goto(w, IF writteMakeSense THEN "w_acquire" ELSE "idle")
    /\ UNCHANGED <<empty, full, ring, status, calls>>

WriteAcquire(w) ==
    /\ pc[w] = "w_acquire"
    /\ \/ /\ CanAcquire(empty)
          /\ empty' = AfterAcquire(empty)
          /\ Goto(w, "w_recheck")
       \/ /\ ~CanAcquire(empty)
          /\ empty' = AfterSleep(empty, w)
          /\ Goto(w, "w_wait")
    /\ UNCHANGED <<full, ring, status, calls>>

WriteResume(w) ==
    /\ pc[w] = "w_wait" /\ w \in empty.woken
    /\ empty' = AfterResume(empty, w)
    /\ Goto(w, "w_recheck")
    /\ UNCHANGED <<full, ring, status, calls>>

WriteRecheck(w) ==
    /\ pc[w] = "w_recheck"
    /\ Goto(w, IF writteMakeSense THEN "w_store" ELSE "w_abort")
    /\ UNCHANGED <<empty, full, ring, status, calls>>

\* mutant: an aborted write keeps the cell it acquired
WriteAbortKeepsCell(w) ==
    /\ pc[w] = "w_abort"
    /\ Goto(w, "idle")
    /\ UNCHANGED <<empty, full, ring, status, calls>>

(* The aborted write passes its cell on before it returns.                 *)
WriteAbort(w) ==
    /\ pc[w] = "w_abort"
    /\ empty' \in AfterRelease(empty)
    /\ Goto(w, "idle")
    /\ UNCHANGED <<full, ring, status, calls>>

\* mutant: the index is advanced before the cell is written
WriteStoreAdvanceFirst(w) ==
    /\ pc[w] = "w_store"
    /\ write_index' = (write_index + 1) % PIPE_SIZE
    /\ \E b \in Bytes : buffer' = [buffer EXCEPT ![write_index'] = b]
    /\ fields_count' = fields_count + 1
    /\ moved' = [moved EXCEPT ![w] = @ + 1]
    /\ Goto(w, "w_signal")
    /\ UNCHANGED <<empty, full, read_index, status, asked>>

(* Under write_lock; the next byte of the caller's data is any byte.       *)
WriteStore(w) ==
    /\ pc[w] = "w_store"
    /\ \E b \in Bytes : buffer' = [buffer EXCEPT ![write_index] = b]
    /\ write_index' = (write_index + 1) % PIPE_SIZE
    /\ fields_count' = fields_count + 1
    /\ moved' = [moved EXCEPT ![w] = @ + 1]
    /\ Goto(w, "w_signal")
    /\ UNCHANGED <<empty, full, read_index, status, asked>>

\* full.release() and the loop test.
WriteSignal(w) ==
    /\ pc[w] = "w_signal"
    /\ full' \in AfterRelease(full)
    /\ Goto(w, IF moved[w] < asked[w] THEN "w_check" ELSE "idle")
    /\ UNCHANGED <<empty, ring, status, calls>>
-----------------------------------------------------------------------------
(* read_out, called for 1..MaxChunk bytes.                                 *)
CallRead(r) ==
    /\ pc[r] = "idle"
    /\ \E n \in 1..MaxChunk : asked' = [asked EXCEPT ![r] = n]
    /\ moved' = [moved EXCEPT ![r] = 0]
    /\ Goto(r, "r_check")
    /\ UNCHANGED <<empty, full, ring, status>>

ReadCheck(r) ==
    /\ pc[r] = "r_check"
    /\ Goto(r, IF readMakeSense THEN "r_acquire" ELSE "idle")
    /\ UNCHANGED <<empty, full, ring, status, calls>>

ReadAcquire(r) ==
    /\ pc[r] = "r_acquire"
    /\ \/ /\ CanAcquire(full)
          /\ full' = AfterAcquire(full)
          /\ Goto(r, "r_recheck")
       \/ /\ ~CanAcquire(full)
          /\ full' = AfterSleep(full, r)
          /\ Goto(r, "r_wait")
    /\ UNCHANGED <<empty, ring, status, calls>>

ReadResume(r) ==
    /\ pc[r] = "r_wait" /\ r \in full.woken
    /\ full' = AfterResume(full, r)
    /\ Goto(r, "r_recheck")
    /\ UNCHANGED <<empty, ring, status, calls>>

\* mutant: no second look after the wait
ReadNoRecheck(r) ==
    /\ pc[r] = "r_recheck"
    /\ Goto(r, "r_fetch")
    /\ UNCHANGED <<empty, full, ring, status, calls>>

ReadRecheck(r) ==
    /\ pc[r] = "r_recheck"
    /\ Goto(r, IF readMakeSense THEN "r_fetch" ELSE "r_eof")
    /\ UNCHANGED <<empty, full, ring, status, calls>>

(* End of data after the wait. The token was taken from full, and it is    *)
(* empty that is released.                                                 *)
ReadEof(r) ==
    /\ pc[r] = "r_eof"
    /\ empty' \in AfterRelease(empty)
    /\ Goto(r, "idle")
    /\ UNCHANGED <<full, ring, status, calls>>

\* size_t arithmetic of fields_count--.
MinusOne(n) == IF n = 0 THEN SIZE_MAX ELSE n - 1

\* Under write_lock.
ReadFetch(r) ==
    /\ pc[r] = "r_fetch"
    /\ read_index' = (read_index + 1) % PIPE_SIZE
    /\ fields_count' = MinusOne(fields_count)
    /\ moved' = [moved EXCEPT ![r] = @ + 1]
    /\ Goto(r, "r_signal")
    /\ UNCHANGED <<empty, full, buffer, write_index, status, asked>>

\* mutant: the reader gives its token back to full instead of freeing a cell
ReadSignalFull(r) ==
    /\ pc[r] = "r_signal"
    /\ full' \in AfterRelease(full)
    /\ Goto(r, IF moved[r] < asked[r] THEN "r_check" ELSE "idle")
    /\ UNCHANGED <<empty, ring, status, calls>>

\* empty.release() and the loop test.
ReadSignal(r) ==
    /\ pc[r] = "r_signal"
    /\ empty' \in AfterRelease(empty)
    /\ Goto(r, IF moved[r] < asked[r] THEN "r_check" ELSE "idle")
    /\ UNCHANGED <<full, ring, status, calls>>
-----------------------------------------------------------------------------
(* close(fdStatus_openRead), under attr_lock: one extra free cell, so that *)
(* a writer asleep on a full pipe wakes up and finds the end closed.       *)
CloseRead ==
    /\ isOpenRead
    /\ OrderlyClose => Idle(Readers)
    /\ empty' \in AfterRelease(empty)
    /\ status' = status \ {"openRead"}
    /\ UNCHANGED <<full, ring, pc, calls>>

(* close(fdStatus_openWrite): one extra stored byte for a sleeping reader. *)
CloseWrite ==
    /\ isOpenWrite
    /\ OrderlyClose => Idle(Writers)
    /\ full' \in AfterRelease(full)
    /\ status' = status \ {"openWrite"}
    /\ UNCHANGED <<empty, ring, pc, calls>>
-----------------------------------------------------------------------------
WriteStep(w) ==
    \/ WriteCheck(w) \/ WriteAcquire(w) \/ WriteResume(w) \/ WriteRecheck(w)
    \/ WriteAbort(w) \/ WriteStore(w) \/ WriteSignal(w)

ReadStep(r) ==
    \/ ReadCheck(r) \/ ReadAcquire(r) \/ ReadResume(r) \/ ReadRecheck(r)
    \/ ReadEof(r) \/ ReadFetch(r) \/ ReadSignal(r)

Next ==
    \/ \E w \in Writers : CallWrite(w) \/ WriteStep(w)
    \/ \E r \in Readers : CallRead(r) \/ ReadStep(r)
    \/ CloseRead \/ CloseWrite

(* A thread inside the pipe keeps running (std::thread under the host's    *)
(* scheduler); nobody is obliged to call or to close.                      *)
Fairness ==
    /\ \A w \in Writers : WF_vars(WriteStep(w))
    /\ \A r \in Readers : WF_vars(ReadStep(r))

Spec == Init /\ [][Next]_vars /\ Fairness
-----------------------------------------------------------------------------
(* Type invariant: in particular fields_count never wraps below 0 and no    *)
(* more cells are in use than there are.                                    *)
TypeOK ==
    /\ empty \in SemaphoreOf(Threads)
    /\ full \in SemaphoreOf(Threads)
    /\ buffer \in [0..PIPE_SIZE-1 -> Bytes \cup {0}]
    /\ read_index \in 0..PIPE_SIZE-1
    /\ write_index \in 0..PIPE_SIZE-1
    /\ fields_count \in 0..PIPE_SIZE
    /\ status \subseteq {"openRead", "openWrite"}
    /\ pc \in [Threads -> WriterLabels \cup ReaderLabels]
    /\ \A w \in Writers : pc[w] \in WriterLabels
    /\ \A r \in Readers : pc[r] \in ReaderLabels
    /\ asked \in [Threads -> 0..MaxChunk]
    /\ moved \in [Threads -> 0..MaxChunk]

\* The free cells of the two semaphores, the bytes in the buffer and the
\* threads between a semaphore and the buffer always add up to PIPE_SIZE.
CellsBalance ==
    /\ fields_count + Cardinality(At(Writers, "w_store")) <= PIPE_SIZE
    /\ isOpenRead /\ isOpenWrite =>
          Tokens(empty)
            + Cardinality(At(Writers, "w_recheck") \cup At(Writers, "w_store"))
            + fields_count
            + Cardinality(At(Readers, "r_signal")) = PIPE_SIZE

\* Every stored byte has its token in full, is about to get one from its
\* writer, or is about to be fetched. A close of the writing end adds one
\* token and, until a reader takes it for the end of the data, it stays.
BytesBalance ==
    isOpenRead =>
        LET tokens == Tokens(full)
                + Cardinality(At(Readers, "r_recheck") \cup At(Readers, "r_fetch"))
                + Cardinality(At(Writers, "w_signal"))
        IN  IF isOpenWrite THEN tokens = fields_count
            ELSE tokens \in {fields_count, fields_count + 1}

(* The tokens of the semaphores empty and full agree with the buffer, over  *)
(* all the places between a semaphore and the buffer where a thread can be  *)
(* (write_in, read_out): no cell is lost or used twice, and no reader       *)
(* sleeps beside data.                                                      *)
TokensBalance == CellsBalance /\ BytesBalance

(* read_out and write_in return fewer bytes than asked for only because of  *)
(* a closed end: a reader has then drained everything that was written      *)
(* before the writing end was closed.                                       *)
ShortCallsMeanClosed ==
    /\ \A r \in Readers : pc[r] = "idle" /\ moved[r] < asked[r] =>
          ~isOpenRead \/ (~isOpenWrite /\ isEmpty)
    /\ \A w \in Writers : pc[w] = "idle" /\ moved[w] < asked[w] =>
          ~isOpenRead \/ ~isOpenWrite

(* The ring buffer is the abstract channel: bytes come out in the order in  *)
(* which they were stored, and a store never overwrites an unread byte.     *)
Channel == INSTANCE PipeChannel
             WITH queue <- [i \in 1..fields_count |->
                              buffer[(read_index + i - 1) % PIPE_SIZE]]

ImplementsChannel == Channel!Spec

(* Closing one end signals the threads blocked at the other (Dokumentace.pdf *)
(* section 3.2.2): every writer inside write_in comes back, and every       *)
(* reader inside read_out: it sees the end of the data, it does not sleep.  *)
ReturnAfterClose ==
    /\ \A w \in Writers : ~isOpenRead /\ pc[w] # "idle" ~> pc[w] = "idle"
    /\ \A r \in Readers : ~isOpenWrite /\ pc[r] # "idle" ~> pc[r] = "idle"
=============================================================================
