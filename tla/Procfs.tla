------------------------------- MODULE Procfs -------------------------------
(***************************************************************************)
(* The process file system, src/src/kernel/filesystem/proc_fs.cpp: a map   *)
(* from pid to the name of the program, which the kernel writes when it    *)
(* creates and removes processes and which ps reads at the same time. ps   *)
(* reads the directory entry by entry, by index, and opens each entry by   *)
(* its pid in a later call; an open creates what is not there. Processes   *)
(* are created and joined by one thread, the shell's.                      *)
(***************************************************************************)
EXTENDS Integers, FiniteSets, Sequences, Functions

CONSTANTS Pids,          \* slots of the process table, but init's
          ProgramNames   \* as sequences of characters

ASSUME ProcfsAssumption ==
    /\ IsFiniteSet(Pids) /\ Pids \subseteq Nat \ {0}
    /\ IsFiniteSet(ProgramNames) /\ ProgramNames \subseteq Seq(STRING) \ {<<>>}

VARIABLES
    registered_processes,  \* pid -> name, for the pids that have an entry
    process_table,         \* pid -> name, or NoProcess
    kernel,                \* [pc, pid]: the process that the kernel is at work on
    ps,                    \* [pc, position, pid, read, line]
    printed,               \* the lines of this run of ps: <<pid, name>>
    steady,                \* the processes running ever since ps opened the root,
                           \* with no entry before theirs made or removed
    crashed                \* an exception has left the kernel

vars == <<registered_processes, process_table, kernel, ps, printed, steady, crashed>>

NoProcess == <<>>
Idle == [pc |-> "idle", pid |-> 0]

Init ==
    /\ registered_processes = <<>>
    /\ process_table = [p \in Pids |-> NoProcess]
    /\ kernel = Idle
    /\ ps = [pc |-> "done", position |-> 0, pid |-> 0, read |-> 0, line |-> <<>>]
    /\ printed = <<>>
    /\ steady = {}
    /\ crashed = FALSE

HasEntry(p) == p \in DOMAIN registered_processes
Running(p) == process_table[p] # NoProcess /\ (kernel.pid # p \/ kernel.pc = "erase")

\* The entry of p comes or goes: those behind it move.
Moves(p) == steady' = {q \in steady : q < p}

\* mutant: the entry is made anew without looking for it
EntryAnew(p) ==
    [q \in DOMAIN registered_processes \cup {p} |->
        IF q = p THEN <<>> ELSE registered_processes[q]]

WithEntry(p) ==
    [q \in DOMAIN registered_processes \cup {p} |->
        IF HasEntry(q) THEN registered_processes[q] ELSE <<>>]

\* openFile for any path but the root's.
openFile(p) ==
    /\ registered_processes' = WithEntry(p)
    /\ IF HasEntry(p) THEN UNCHANGED steady ELSE Moves(p)
-----------------------------------------------------------------------------
(* Clone takes a slot, then addProcessToProcFS opens the entry and writes   *)
(* the name at its beginning.                                               *)
CreateProcess(p, name) ==
    /\ kernel = Idle /\ process_table[p] = NoProcess
    /\ process_table' = [process_table EXCEPT ![p] = name]
    /\ kernel' = [pc |-> "open", pid |-> p]
    /\ UNCHANGED <<registered_processes, ps, printed, steady, crashed>>

AddOpen ==
    /\ kernel.pc = "open"
    /\ openFile(kernel.pid)
    /\ kernel' = [kernel EXCEPT !.pc = "write"]
    /\ UNCHANGED <<process_table, ps, printed, crashed>>

\* writeBytes keeps what is before the position, here nothing.
AddWrite ==
    /\ kernel.pc = "write"
    /\ registered_processes' =
           [registered_processes EXCEPT ![kernel.pid] = process_table[kernel.pid]]
    /\ kernel' = Idle
    /\ UNCHANGED <<process_table, ps, printed, steady, crashed>>

(* cleanProcess removes the entry first and gives the slot back last.       *)
RemoveProcess(p) ==
    /\ kernel = Idle /\ process_table[p] # NoProcess
    /\ kernel' = [pc |-> "erase", pid |-> p]
    /\ UNCHANGED <<registered_processes, process_table, ps, printed, steady, crashed>>

\* mutant: the entry stays in the map
Kept(p) == registered_processes

Erased(p) == Restrict(registered_processes, DOMAIN registered_processes \ {p})

deleteFile ==
    /\ kernel.pc = "erase"
    /\ registered_processes' = Erased(kernel.pid)
    /\ Moves(kernel.pid)
    /\ kernel' = [kernel EXCEPT !.pc = "free"]
    /\ UNCHANGED <<process_table, ps, printed, crashed>>

FreeSlot ==
    /\ kernel.pc = "free"
    /\ process_table' = [process_table EXCEPT ![kernel.pid] = NoProcess]
    /\ kernel' = Idle
    /\ UNCHANGED <<registered_processes, ps, printed, steady, crashed>>

\* A user goes to procfs:/p, which also makes an entry.
EnterByName(p) ==
    /\ openFile(p)
    /\ UNCHANGED <<process_table, kernel, ps, printed, crashed>>
-----------------------------------------------------------------------------
OpenRoot ==
    /\ ps.pc = "done"
    /\ ps' = [ps EXCEPT !.pc = "folder", !.position = 0]
    /\ printed' = <<>>
    /\ steady' = {p \in Pids : Running(p)}
    /\ UNCHANGED <<registered_processes, process_table, kernel, crashed>>

\* The key at that index of the ordered map.
PidAt(index) ==
    CHOOSE p \in DOMAIN registered_processes :
        Cardinality({q \in DOMAIN registered_processes : q < p}) = index

ReadFolder ==
    /\ ps.pc = "folder"
    /\ ps' = IF ps.position < Cardinality(DOMAIN registered_processes)
             THEN [ps EXCEPT !.pc = "open", !.pid = PidAt(ps.position), !.position = @ + 1]
             ELSE [ps EXCEPT !.pc = "done", !.pid = 0, !.read = 0, !.line = <<>>]
    /\ UNCHANGED <<registered_processes, process_table, kernel, printed, steady, crashed>>

\* mutant: the line still holds the name printed before
OpenedOnOldLine == [ps EXCEPT !.pc = "read", !.read = 0]

Opened == [ps EXCEPT !.pc = "read", !.read = 0, !.line = <<>>]

OpenEntry ==
    /\ ps.pc = "open"
    /\ openFile(ps.pid)
    /\ ps' = Opened
    /\ UNCHANGED <<process_table, kernel, printed, crashed>>

Name == registered_processes[ps.pid]

\* mutant: the position in the file stays where it is
ReadWithoutMoving == [ps EXCEPT !.line = Name]

AfterRead ==
    [ps EXCEPT !.line = @ \o SubSeq(Name, ps.read + 1, Len(Name)), !.read = Len(Name)]

(* readFile: a name is shorter than the buffer. The call that fails, since  *)
(* all is read or the entry is gone, ends the line. If the pid belongs to   *)
(* another process by now, the position may lie behind the end of the name: *)
(* substr throws, and nobody catches it.                                    *)
ReadName ==
    /\ ps.pc = "read"
    /\ \/ /\ HasEntry(ps.pid) /\ ps.read < Len(Name)
          /\ ps' = AfterRead
          /\ UNCHANGED <<printed, crashed>>
       \/ /\ HasEntry(ps.pid) => ps.read = Len(Name)
          /\ printed' = Append(printed, <<ps.pid, ps.line>>)
          /\ ps' = [ps EXCEPT !.pc = "folder"]
          /\ UNCHANGED crashed
       \/ /\ HasEntry(ps.pid) /\ ps.read > Len(Name)
          /\ crashed' = TRUE
          /\ UNCHANGED <<ps, printed>>
    /\ UNCHANGED <<registered_processes, process_table, kernel, steady>>

(* The std::map has no lock: where ps and the kernel are in it at the same  *)
(* time anything may happen. The model has the two outcomes that a build    *)
(* shows: one call comes after the other, or the kernel is gone.            *)
MapRace ==
    /\ ps.pc \in {"folder", "open", "read"}
    /\ kernel.pc \in {"open", "write", "erase"}
    /\ crashed' = TRUE
    /\ UNCHANGED <<registered_processes, process_table, kernel, ps, printed, steady>>
-----------------------------------------------------------------------------
PsStep == ~crashed /\ (ReadFolder \/ OpenEntry \/ ReadName)

Next ==
    \/ ~crashed /\ \/ \E p \in Pids, name \in ProgramNames : CreateProcess(p, name)
                   \/ \E p \in Pids : RemoveProcess(p) \/ EnterByName(p)
                   \/ AddOpen \/ AddWrite \/ deleteFile \/ FreeSlot
                   \/ OpenRoot \/ MapRace
    \/ PsStep

(* ps runs on a thread of its own, which the host schedules.                *)
Spec == Init /\ [][Next]_vars /\ WF_vars(PsStep)
-----------------------------------------------------------------------------
(* Type invariant; what ps has read of a file is what it has put on the     *)
(* line.                                                                    *)
TypeOK ==
    /\ DOMAIN registered_processes \subseteq Pids
    /\ \A p \in DOMAIN registered_processes :
          registered_processes[p] \in ProgramNames \cup {<<>>}
    /\ process_table \in [Pids -> ProgramNames \cup {NoProcess}]
    /\ kernel = Idle
       \/ kernel \in [pc : {"open", "write", "erase", "free"}, pid : Pids]
    /\ ps.pc \in {"done", "folder", "open", "read"}
    /\ ps.position \in 0..Cardinality(Pids)
    /\ ps.pc = "read" => ps.read = Len(ps.line)
    /\ steady \subseteq Pids

(* As long as a process runs its entry shows its program, and without one   *)
(* there is at most an entry without a name: ps and users who open entries  *)
(* of processes that are gone, or not yet complete, spoil none of them      *)
(* (openFile, proc_fs.cpp:90-110).                                          *)
EntriesMatch ==
    \A p \in Pids :
        /\ Running(p) => HasEntry(p) /\ registered_processes[p] = process_table[p]
        /\ process_table[p] = NoProcess /\ HasEntry(p) => registered_processes[p] = <<>>

(* ps ("Print all running processes", ps.cpp:109) lists every process that  *)
(* ran all the time exactly once and by its name, provided that no entry    *)
(* before its own came or went: ps counts entries, it has no hold on them.  *)
PsListsLasting ==
    ps.pc = "done" => \A p \in steady :
        \E i \in DOMAIN printed :
            /\ printed[i] = <<p, process_table[p]>>
            /\ \A j \in DOMAIN printed : printed[j][1] = p => j = i

(* ps comes to its end, or down with the kernel, however many processes are *)
(* created and removed beside it: the directory that it counts through and  *)
(* the names that it reads are finite, and it goes back in neither.         *)
PsEnds == ps.pc # "done" ~> ps.pc = "done" \/ crashed
=============================================================================
