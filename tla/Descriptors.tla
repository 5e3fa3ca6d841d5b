---------------------------- MODULE Descriptors ----------------------------
(***************************************************************************)
(* The way from a program's handle to an open file or pipe: the handle     *)
(* table of a process (process.cpp), the table of open descriptors         *)
(* (filesystem/VFS.cpp) and the pipes behind it (filesystem/fs_pipe.cpp),  *)
(* as the calls of io.cpp, clone and the cleaning of a process use them.   *)
(* The threads of the processes interleave between any two accesses to a   *)
(* shared table. Every process has one thread. What a pipe does with its   *)
(* bytes is in module Pipe, what a disk does in module Memtree.            *)
(***************************************************************************)
EXTENDS Integers, FiniteSets, Sequences

CONSTANTS Processes,
          init,           \* the first one
          fdCount,        \* open descriptors
          pipeCapacity,   \* pipes
          StdHandles,     \* standard streams of a process
          MaxHandles,     \* bound of the model: handles a process ever gets
          Liberties       \* what the threads permit themselves

AllLiberties ==
    {"count at the same time",       \* two threads update a counter
     "create pipes at the same time",
     "close both ends at the same time"}

ASSUME DescriptorsAssumption ==
    /\ IsFiniteSet(Processes) /\ init \in Processes
    /\ fdCount \in Nat /\ pipeCapacity \in Nat \ {0}
    /\ StdHandles \in Nat \ {0} /\ StdHandles <= fdCount
    /\ MaxHandles \in Nat /\ StdHandles <= MaxHandles
    /\ Liberties \subseteq AllLiberties

VARIABLES files,        \* fd -> FileDescriptor
          connections,  \* superblock -> its open descriptors
          pipes,        \* index -> the ends that are open, or NoPipe
          io_devices,   \* process -> its handles in the order they were given
          alive,        \* process -> state of its record
          calls,        \* process -> what its thread is doing in the kernel
          lost          \* descriptors that failing calls leave behind

vars == <<files, connections, pipes, io_devices, alive, calls, lost>>

Fds == 0..(fdCount - 1)
Invalid == -1
FsTypes == {"file", "pipe"}      \* every file system but the pipes is "file"
Ends == {"openRead", "openWrite"}
NoPipe == {"no pipe"}
Unseen == -1

Idle == [status |-> "idle", openCounter |-> 0, sb |-> "file", inode |-> 0]
NoCall == [pc |-> "user", fd |-> Invalid, out |-> Invalid, handle |-> 0,
           child |-> init, slot |-> 0, back |-> "user", seen |-> Unseen]

Init ==
    /\ files = [fd \in Fds |->
                  IF fd < StdHandles
                  THEN [Idle EXCEPT !.status = "reserved", !.openCounter = 1]
                  ELSE Idle]
    /\ connections = [sb \in FsTypes |-> IF sb = "file" THEN StdHandles ELSE 0]
    /\ pipes = [i \in 0..(pipeCapacity - 1) |-> NoPipe]
    /\ io_devices = [p \in Processes |->
                       IF p = init THEN [h \in 1..StdHandles |-> h - 1] ELSE <<>>]
    /\ alive = [p \in Processes |-> IF p = init THEN "running" ELSE "none"]
    /\ calls = [p \in Processes |-> NoCall]
    /\ lost = {}
-----------------------------------------------------------------------------
At(p, pc) == calls[p].pc = pc
Goto(p, pc) == calls' = [calls EXCEPT ![p].pc = pc, ![p].seen = Unseen]
Return(p) == calls' = [calls EXCEPT ![p] = NoCall]
MayCall(p) == alive[p] = "running" /\ At(p, "user")

\* cleanProcess holds process_table_lock until it is done.
TableFree == \A p \in Processes : calls[p].back # "reap"

\* Does resolveOpenedFd find fd?
Resolves(fd) ==
    /\ fd # Invalid
    /\ files[fd].openCounter >= 1
    /\ connections[files[fd].sb] >= 1

\* mutant: a reserved descriptor is taken too
AnyUnopened(from) ==
    LET free == {fd \in Fds : fd >= from /\ files[fd].openCounter = 0}
    IN  IF free = {} THEN Invalid
        ELSE CHOOSE fd \in free : \A other \in free : fd <= other

getFreeDescriptorIndex(from) ==
    LET free == {fd \in Fds : fd >= from /\ files[fd].status = "idle"}
    IN  IF free = {} THEN Invalid
        ELSE CHOOSE fd \in free : \A other \in free : fd <= other

(* A counter is read before it is written. Nothing keeps another thread     *)
(* from counting in between; programs that run one command line after the   *)
(* other hardly do.                                                         *)
Counter(p) ==
    CASE calls[p].pc \in {"count", "close"} -> files[calls[p].fd].openCounter
      [] calls[p].pc \in {"connect", "connectPipe", "disconnect"} ->
             connections[files[calls[p].fd].sb]

CountsNow(p) ==
    CASE calls[p].pc = "count" ->
             calls[p].fd # Invalid /\ files[calls[p].fd].openCounter >= 1
      [] calls[p].pc = "close" -> Resolves(calls[p].fd)
      [] OTHER -> calls[p].pc \in {"connect", "connectPipe", "disconnect"}

LoadCounter(p) ==
    /\ calls[p].seen = Unseen /\ CountsNow(p)
    /\ "count at the same time" \notin Liberties =>
           \A q \in Processes : calls[q].seen = Unseen
    /\ calls' = [calls EXCEPT ![p].seen = Counter(p)]
    /\ UNCHANGED <<files, connections, pipes, io_devices, alive, lost>>

Loaded(p) == calls[p].seen # Unseen
-----------------------------------------------------------------------------
(* openFile of the VFS. createFile (back = "install") gives the process a   *)
(* handle; addProcessToProcFS (back = "start") closes the file at once, and *)
(* so does directoryExists, which is left out for that reason.              *)
OpenReserve(p) ==
    LET fd == getFreeDescriptorIndex(0)
    IN  /\ MayCall(p)
        /\ Len(io_devices[p]) < MaxHandles
        /\ fd # Invalid
        /\ files' = [files EXCEPT ![fd].status = "reserved"]
        /\ calls' = [calls EXCEPT ![p].pc = "driver", ![p].fd = fd,
                                  ![p].back = "install"]
        /\ UNCHANGED <<connections, pipes, io_devices, alive, lost>>

\* mutant: the descriptor stays reserved after a failure
OpenDriverKeeps(p) ==
    /\ At(p, "driver")
    /\ \/ /\ files' = [files EXCEPT ![calls[p].fd].openCounter = 1]
          /\ Goto(p, "connect")
       \/ /\ IF calls[p].back = "start" THEN Goto(p, "start") ELSE Return(p)
          /\ UNCHANGED files
    /\ UNCHANGED <<connections, pipes, io_devices, alive, lost>>

\* The driver opens the file, or the descriptor is cleared.
OpenDriver(p) ==
    /\ At(p, "driver")
    /\ \/ /\ files' = [files EXCEPT ![calls[p].fd].openCounter = 1,
                                    ![calls[p].fd].sb = "file"]
          /\ Goto(p, "connect")
       \/ /\ files' = [files EXCEPT ![calls[p].fd] = Idle]
          /\ IF calls[p].back = "start" THEN Goto(p, "start") ELSE Return(p)
    /\ UNCHANGED <<connections, pipes, io_devices, alive, lost>>

OpenConnect(p) ==
    /\ At(p, "connect") /\ Loaded(p)
    /\ connections' = [connections EXCEPT !["file"] = calls[p].seen + 1]
    /\ Goto(p, IF calls[p].back = "install" THEN "install" ELSE "close")
    /\ UNCHANGED <<files, pipes, io_devices, alive, lost>>

\* setNewFD; the process has room for the handle.
OpenInstall(p) ==
    /\ At(p, "install") /\ TableFree
    /\ io_devices' = [io_devices EXCEPT ![p] = Append(@, calls[p].fd)]
    /\ Return(p)
    /\ UNCHANGED <<files, connections, pipes, alive, lost>>
-----------------------------------------------------------------------------
\* createPipe: two descriptors are reserved, the second one behind the first.
PipeReserveIn(p) ==
    LET fd == getFreeDescriptorIndex(0)
    IN  /\ MayCall(p)
        /\ Len(io_devices[p]) + 2 <= MaxHandles
        /\ files' = IF fd = Invalid THEN files
                    ELSE [files EXCEPT ![fd].status = "reserved"]
        /\ calls' = [calls EXCEPT ![p].pc = "reserveOut", ![p].fd = fd]
        /\ UNCHANGED <<connections, pipes, io_devices, alive, lost>>

\* Invalid + 1 is 0. What was reserved for nothing is not given back.
PipeReserveOut(p) ==
    LET fd == getFreeDescriptorIndex(calls[p].fd + 1)
    IN  /\ At(p, "reserveOut")
        /\ files' = IF fd = Invalid THEN files
                    ELSE [files EXCEPT ![fd].status = "reserved"]
        /\ IF Invalid \in {fd, calls[p].fd}
           THEN /\ lost' = lost \cup ({fd, calls[p].fd} \ {Invalid})
                /\ Return(p)
           ELSE /\ calls' = [calls EXCEPT ![p].pc = "scan", ![p].out = fd]
                /\ UNCHANGED lost
        /\ UNCHANGED <<connections, pipes, io_devices, alive>>

FreePipes == {i \in DOMAIN pipes : pipes[i] = NoPipe}

PipeScan(p) ==
    /\ At(p, "scan")
    /\ "create pipes at the same time" \notin Liberties =>
           ~\E q \in Processes : At(q, "claim")
    /\ IF FreePipes = {}
       THEN lost' = lost \cup {calls[p].fd, calls[p].out} /\ Return(p)
       ELSE /\ calls' = [calls EXCEPT ![p].pc = "claim", ![p].slot =
                            CHOOSE i \in FreePipes : \A j \in FreePipes : i <= j]
            /\ UNCHANGED lost
    /\ UNCHANGED <<files, connections, pipes, io_devices, alive>>

PipeEnd(end, i) == [status |-> end, openCounter |-> 1, sb |-> "pipe", inode |-> i]

PipeClaim(p) ==
    LET i == calls[p].slot
    IN  /\ At(p, "claim")
        /\ pipes' = [pipes EXCEPT ![i] = Ends]
        /\ files' = [files EXCEPT ![calls[p].fd] = PipeEnd("openWrite", i),
                                  ![calls[p].out] = PipeEnd("openRead", i)]
        /\ Goto(p, "connectPipe")
        /\ UNCHANGED <<connections, io_devices, alive, lost>>

PipeConnect(p) ==
    /\ At(p, "connectPipe") /\ Loaded(p)
    /\ connections' = [connections EXCEPT !["pipe"] = calls[p].seen + 2]
    /\ Goto(p, "installIn")
    /\ UNCHANGED <<files, pipes, io_devices, alive, lost>>

PipeInstallIn(p) ==
    /\ At(p, "installIn") /\ TableFree
    /\ io_devices' = [io_devices EXCEPT ![p] = Append(@, calls[p].fd)]
    /\ Goto(p, "installOut")
    /\ UNCHANGED <<files, connections, pipes, alive, lost>>

PipeInstallOut(p) ==
    /\ At(p, "installOut") /\ TableFree
    /\ io_devices' = [io_devices EXCEPT ![p] = Append(@, calls[p].out)]
    /\ Return(p)
    /\ UNCHANGED <<files, connections, pipes, alive, lost>>
-----------------------------------------------------------------------------
\* closeHandle: getSystemFD, the close of the VFS, removeProcessFD.
CloseHandle(p, h) ==
    /\ MayCall(p) /\ TableFree
    /\ h \in DOMAIN io_devices[p]
    /\ calls' = [calls EXCEPT ![p].pc = "close", ![p].fd = io_devices[p][h],
                              ![p].handle = h, ![p].back = "remove"]
    /\ UNCHANGED <<files, connections, pipes, io_devices, alive, lost>>

AfterClose(p) ==
    calls' = [calls EXCEPT ![p].pc = calls[p].back, ![p].fd = Invalid,
                           ![p].seen = Unseen]

\* mutant: nobody looks whether other handles are left
CloseAtOnce(p) ==
    LET fd == calls[p].fd
    IN  /\ At(p, "close") /\ (Loaded(p) \/ ~CountsNow(p))
        /\ IF ~Loaded(p) THEN AfterClose(p) /\ UNCHANGED files
           ELSE /\ files' = [files EXCEPT ![fd].openCounter = calls[p].seen - 1]
                /\ Goto(p, "disconnect")
        /\ UNCHANGED <<connections, pipes, io_devices, alive, lost>>

(* The counter is lowered and then tested: the code reads it again for the  *)
(* test (VFS.cpp:337), here the test is of the value just stored. The two   *)
(* differ only when another thread counts in between, which nobody does     *)
(* without the liberty "count at the same time".                            *)
CloseCount(p) ==
    LET fd == calls[p].fd
    IN  /\ At(p, "close") /\ (Loaded(p) \/ ~CountsNow(p))
        /\ IF ~Loaded(p) THEN AfterClose(p) /\ UNCHANGED files
           ELSE /\ files' = [files EXCEPT ![fd].openCounter = calls[p].seen - 1]
                /\ IF calls[p].seen > 1 THEN AfterClose(p) ELSE Goto(p, "disconnect")
        /\ UNCHANGED <<connections, pipes, io_devices, alive, lost>>

CloseDisconnect(p) ==
    LET sb == files[calls[p].fd].sb
    IN  /\ At(p, "disconnect") /\ Loaded(p)
        /\ connections' = [connections EXCEPT ![sb] = calls[p].seen - 1]
        /\ Goto(p, IF sb = "pipe" THEN "cleanup" ELSE "clear")
        /\ UNCHANGED <<files, pipes, io_devices, alive, lost>>

(* closeDescriptor of fs_pipe: the end is closed, then a pipe without an    *)
(* open end is deleted. A pipe that is closed from this end is an error,    *)
(* and the descriptor is then not cleared.                                  *)
CloseEnd(p) ==
    LET fd == files[calls[p].fd]
    IN  /\ At(p, "cleanup")
        /\ "close both ends at the same time" \notin Liberties =>
               ~\E q \in Processes : /\ At(q, "freePipe")
                                     /\ files[calls[q].fd].inode = fd.inode
        /\ IF fd.status \in pipes[fd.inode]
           THEN /\ pipes' = [pipes EXCEPT ![fd.inode] = @ \ {fd.status}]
                /\ Goto(p, "freePipe")
           ELSE AfterClose(p) /\ UNCHANGED pipes
        /\ UNCHANGED <<files, connections, io_devices, alive, lost>>

\* mutant: one closed end suffices
FreeHalfClosed(p) ==
    LET i == files[calls[p].fd].inode
    IN  /\ At(p, "freePipe")
        /\ pipes' = [pipes EXCEPT ![i] = IF @ # Ends THEN NoPipe ELSE @]
        /\ Goto(p, "clear")
        /\ UNCHANGED <<files, connections, io_devices, alive, lost>>

CloseFreePipe(p) ==
    LET i == files[calls[p].fd].inode
    IN  /\ At(p, "freePipe")
        /\ pipes' = [pipes EXCEPT ![i] = IF @ = {} THEN NoPipe ELSE @]
        /\ Goto(p, "clear")
        /\ UNCHANGED <<files, connections, io_devices, alive, lost>>

\* mutant: only the status is reset
ClearStatus(p) ==
    /\ At(p, "clear")
    /\ files' = [files EXCEPT ![calls[p].fd].status = "idle"]
    /\ AfterClose(p)
    /\ UNCHANGED <<connections, pipes, io_devices, alive, lost>>

CloseClear(p) ==
    /\ At(p, "clear")
    /\ files' = [files EXCEPT ![calls[p].fd] = Idle]
    /\ AfterClose(p)
    /\ UNCHANGED <<connections, pipes, io_devices, alive, lost>>

RemoveHandle(p) ==
    /\ At(p, "remove") /\ TableFree
    /\ io_devices' = [io_devices EXCEPT ![p][calls[p].handle] = Invalid]
    /\ Return(p)
    /\ UNCHANGED <<files, connections, pipes, alive, lost>>

CloseStep(p) ==
    CloseCount(p) \/ CloseDisconnect(p) \/ CloseEnd(p) \/ CloseFreePipe(p)
    \/ CloseClear(p) \/ RemoveHandle(p)
-----------------------------------------------------------------------------
\* clone: a record with invalid handles, then the standard ones one by one.
CreateProcess(p, q) ==
    /\ MayCall(p) /\ alive[q] = "none"
    /\ alive' = [alive EXCEPT ![q] = "starting"]
    /\ io_devices' = [io_devices EXCEPT ![q] = [h \in 1..StdHandles |-> Invalid]]
    /\ calls' = [calls EXCEPT ![p].pc = "inherit", ![p].child = q,
                              ![p].handle = 1, ![p].back = "start"]
    /\ UNCHANGED <<files, connections, pipes, lost>>

stdOutput == IF StdHandles = 1 THEN 1 ELSE 2

\* resolveAndDuplicateFD; 0 is the invalid handle, which stands for stdOutput.
InheritResolve(p, h) ==
    /\ At(p, "inherit") /\ TableFree
    /\ h = 0 \/ h \in DOMAIN io_devices[p]
    /\ calls' = [calls EXCEPT ![p].pc = "count",
                              ![p].fd = io_devices[p][IF h = 0 THEN stdOutput ELSE h]]
    /\ UNCHANGED <<files, connections, pipes, io_devices, alive, lost>>

\* mutant: the child gets the descriptor without counting
InheritUncounted(p) ==
    LET fd == calls[p].fd
        q == calls[p].child
        h == calls[p].handle
    IN  /\ At(p, "count") /\ (Loaded(p) \/ ~CountsNow(p))
        /\ io_devices' = [io_devices EXCEPT ![q][h] = fd]
        /\ calls' = [calls EXCEPT ![p].pc = IF h < StdHandles THEN "inherit" ELSE "record",
                                  ![p].handle = IF h < StdHandles THEN h + 1 ELSE h,
                                  ![p].fd = Invalid, ![p].seen = Unseen]
        /\ UNCHANGED <<files, connections, pipes, alive, lost>>

\* increaseFDescOpenCounter; its failure is not looked at.
InheritCount(p) ==
    LET fd == calls[p].fd
        q == calls[p].child
        h == calls[p].handle
    IN  /\ At(p, "count") /\ (Loaded(p) \/ ~CountsNow(p))
        /\ files' = IF Loaded(p)
                    THEN [files EXCEPT ![fd].openCounter = calls[p].seen + 1]
                    ELSE files
        /\ io_devices' = [io_devices EXCEPT ![q][h] = fd]
        /\ calls' = [calls EXCEPT ![p].pc = IF h < StdHandles THEN "inherit" ELSE "record",
                                  ![p].handle = IF h < StdHandles THEN h + 1 ELSE h,
                                  ![p].fd = Invalid, ![p].seen = Unseen]
        /\ UNCHANGED <<connections, pipes, alive, lost>>

\* The program does not exist: the record goes, its handles are not closed.
\* Bound of the model: this happens to a descriptor once.
UnknownProgram(p) ==
    LET q == calls[p].child
        inherited == {io_devices[q][h] : h \in DOMAIN io_devices[q]} \ {Invalid}
    IN  /\ At(p, "record")
        /\ lost \cap inherited = {}
        /\ lost' = lost \cup inherited
        /\ alive' = [alive EXCEPT ![q] = "none"]
        /\ io_devices' = [io_devices EXCEPT ![q] = <<>>]
        /\ Return(p)
        /\ UNCHANGED <<files, connections, pipes>>

\* addProcessToProcFS opens and closes a file; without a descriptor, nothing.
AddToProcFS(p) ==
    LET fd == getFreeDescriptorIndex(0)
    IN  /\ At(p, "record")
        /\ IF fd = Invalid THEN Goto(p, "start") /\ UNCHANGED files
           ELSE /\ files' = [files EXCEPT ![fd].status = "reserved"]
                /\ calls' = [calls EXCEPT ![p].pc = "driver", ![p].fd = fd]
        /\ UNCHANGED <<connections, pipes, io_devices, alive, lost>>

StartProcess(p) ==
    /\ At(p, "start")
    /\ alive' = [alive EXCEPT ![calls[p].child] = "running"]
    /\ Return(p)
    /\ UNCHANGED <<files, connections, pipes, io_devices, lost>>

\* The program has returned; its record waits for somebody to read the result.
Exit(p) ==
    /\ MayCall(p) /\ p # init
    /\ alive' = [alive EXCEPT ![p] = "exited"]
    /\ UNCHANGED <<files, connections, pipes, io_devices, calls, lost>>

\* cleanProcess of q, by the thread that has read the result.
Clean(p, q) ==
    /\ MayCall(p) /\ TableFree /\ alive[q] = "exited"
    /\ alive' = [alive EXCEPT ![q] = "cleaned"]
    /\ calls' = [calls EXCEPT ![p].pc = "reap", ![p].child = q, ![p].back = "reap"]
    /\ UNCHANGED <<files, connections, pipes, io_devices, lost>>

CleanNext(p) ==
    LET q == calls[p].child
        h == calls[p].handle + 1
    IN  /\ At(p, "reap")
        /\ IF h \in DOMAIN io_devices[q]
           THEN /\ calls' = [calls EXCEPT ![p].pc = "close", ![p].handle = h,
                                          ![p].fd = io_devices[q][h]]
                /\ UNCHANGED <<io_devices, alive>>
           ELSE /\ alive' = [alive EXCEPT ![q] = "none"]
                /\ io_devices' = [io_devices EXCEPT ![q] = <<>>]
                /\ Return(p)
        /\ UNCHANGED <<files, connections, pipes, lost>>
-----------------------------------------------------------------------------
\* readFile or writeFile, on the end of a pipe that allows it.
UseHandle(p, h) ==
    /\ MayCall(p) /\ TableFree
    /\ h \in DOMAIN io_devices[p]
    /\ calls' = [calls EXCEPT ![p].pc = "use", ![p].fd = io_devices[p][h]]
    /\ UNCHANGED <<files, connections, pipes, io_devices, alive, lost>>

EnterPipe(p) ==
    /\ At(p, "use")
    /\ IF Resolves(calls[p].fd) /\ files[calls[p].fd].sb = "pipe"
       THEN Goto(p, "inside") ELSE Return(p)
    /\ UNCHANGED <<files, connections, pipes, io_devices, alive, lost>>

LeavePipe(p) ==
    /\ At(p, "inside")
    /\ Return(p)
    /\ UNCHANGED <<files, connections, pipes, io_devices, alive, lost>>

ThreadStep(p) ==
    \/ OpenReserve(p) \/ OpenDriver(p) \/ OpenConnect(p) \/ OpenInstall(p)
    \/ PipeReserveIn(p) \/ PipeReserveOut(p) \/ PipeScan(p) \/ PipeClaim(p)
    \/ PipeConnect(p) \/ PipeInstallIn(p) \/ PipeInstallOut(p)
    \/ \E h \in 0..MaxHandles : CloseHandle(p, h) \/ InheritResolve(p, h) \/ UseHandle(p, h)
    \/ CloseStep(p) \/ LoadCounter(p)
    \/ \E q \in Processes : CreateProcess(p, q) \/ Clean(p, q)
    \/ InheritCount(p) \/ UnknownProgram(p) \/ AddToProcFS(p) \/ StartProcess(p)
    \/ Exit(p) \/ CleanNext(p) \/ EnterPipe(p) \/ LeavePipe(p)

Next == \E p \in Processes : ThreadStep(p)

Spec == Init /\ [][Next]_vars
-----------------------------------------------------------------------------
Status == {"idle", "reserved"} \cup Ends
Labels == {"user", "driver", "connect", "install", "reserveOut", "scan", "claim",
           "connectPipe", "installIn", "installOut", "close", "disconnect",
           "cleanup", "freePipe", "clear", "remove", "inherit", "count", "record",
           "start", "reap", "use", "inside"}

(* Type invariant. Counters do not go below 0, and a descriptor that can be *)
(* taken is all zeros.                                                      *)
TypeOK ==
    /\ files \in [Fds -> [status : Status, openCounter : Nat, sb : FsTypes,
                          inode : DOMAIN pipes]]
    /\ \A fd \in Fds : files[fd].status = "idle" => files[fd] = Idle
    /\ connections \in [FsTypes -> Nat]
    /\ pipes \in [0..(pipeCapacity - 1) -> (SUBSET Ends) \cup {NoPipe}]
    /\ \A p \in Processes :
          /\ Len(io_devices[p]) <= MaxHandles
          /\ \A h \in DOMAIN io_devices[p] : io_devices[p][h] \in Fds \cup {Invalid}
          /\ calls[p].pc \in Labels
    /\ alive \in [Processes -> {"none", "starting", "running", "exited", "cleaned"}]
    /\ lost \subseteq Fds

Closing == {"disconnect", "cleanup", "freePipe", "clear"}

\* Handle h of p is still in the table, but its close has counted.
Dropped(p, h) ==
    \E t \in Processes :
        \/ /\ t = p /\ calls[t].back = "remove" /\ calls[t].handle = h
           /\ calls[t].pc \in Closing \cup {"remove"}
        \/ /\ calls[t].back = "reap" /\ calls[t].child = p
           /\ \/ h < calls[t].handle
              \/ h = calls[t].handle /\ ~At(t, "close")

Handles(fd) ==
    {ph \in Processes \X (1..MaxHandles) :
        /\ ph[2] \in DOMAIN io_devices[ph[1]]
        /\ io_devices[ph[1]][ph[2]] = fd
        /\ ~Dropped(ph[1], ph[2])}

\* The threads that have opened fd and not yet handed it over.
Openers(fd) ==
    {p \in Processes :
        \/ calls[p].pc \in {"connect", "install", "connectPipe", "installIn"}
             /\ calls[p].fd = fd
        \/ At(p, "close") /\ calls[p].back = "start" /\ calls[p].fd = fd
        \/ calls[p].pc \in {"connectPipe", "installIn", "installOut"}
             /\ calls[p].out = fd}

\* The counter of a descriptor is the number of the handles that lead to it.
\* Only what a failing clone has inherited stays counted (process.cpp:192).
OpeningsMatch ==
    \A fd \in Fds :
        LET users == Cardinality(Handles(fd)) + Cardinality(Openers(fd))
        IN  IF fd \in lost THEN files[fd].openCounter >= users
            ELSE files[fd].openCounter = users

\* The connections of a superblock are its open descriptors.
ConnectionsMatch ==
    \A sb \in FsTypes :
        LET unconnected == UNION {{calls[p].fd, calls[p].out} : p \in
                               {p \in Processes : calls[p].pc \in {"connect", "connectPipe"}}}
            open == {fd \in Fds : files[fd].sb = sb /\ files[fd].openCounter >= 1}
            leaving == {p \in Processes : At(p, "disconnect") /\ files[calls[p].fd].sb = sb}
        IN  connections[sb] = Cardinality(open \ unconnected) + Cardinality(leaving)

(* What is counted is what is there (VFS.cpp openFile, close,               *)
(* increaseFDescOpenCounter): a descriptor is closed with the last handle   *)
(* that leads to it, in whatever process, neither before nor never; and     *)
(* resolveOpenedFd refuses no descriptor that is open for want of a         *)
(* connection.                                                              *)
CountersMatch == OpeningsMatch /\ ConnectionsMatch

\* The descriptors of that end of pipe i, up to the moment it is closed.
OnEnd(end, i) ==
    {fd \in Fds :
        /\ files[fd].status = end /\ files[fd].inode = i
        /\ \/ files[fd].openCounter >= 1
           \/ \E p \in Processes :
                 calls[p].fd = fd /\ calls[p].pc \in {"disconnect", "cleanup"}}

(* An end of a pipe is open as long as one descriptor is on it, a pipe      *)
(* exists as long as one of its ends is open, and no other pipe takes its   *)
(* place meanwhile (fs_pipe.cpp createPipe, closeDescriptor).               *)
PipesMatch ==
    \A i \in DOMAIN pipes :
        LET freeing == {p \in Processes :
                          At(p, "freePipe") /\ files[calls[p].fd].inode = i}
        IN  /\ \A end \in Ends :
                  /\ Cardinality(OnEnd(end, i)) <= 1
                  /\ (end \in pipes[i]) = (OnEnd(end, i) # {})
            /\ pipes[i] = {} => freeing # {}
            /\ freeing # {} => pipes[i] # NoPipe

(* While a thread reads or writes a pipe, its end is open: no descriptor is *)
(* closed under a thread (module Pipe relies on it).                        *)
ThreadsInsideOpen ==
    \A p \in Processes : At(p, "inside") =>
        /\ files[calls[p].fd].status \in pipes[files[calls[p].fd].inode]
        /\ files[calls[p].fd].openCounter >= 1

(* A descriptor that is not idle is open or a thread is at work on it; only *)
(* an openPipe that fails forgets what it reserved (VFS.cpp:360).           *)
NothingLost ==
    \A fd \in Fds : files[fd].status # "idle" =>
        \/ files[fd].openCounter >= 1
        \/ \E p \in Processes : ~At(p, "user") /\ fd \in {calls[p].fd, calls[p].out}
        \/ fd \in lost

(* As long as a process has a handle, what it leads to stays the same: its  *)
(* descriptor is not given to another file or pipe.                         *)
HandlesStable ==
    [][\A p \in Processes, h \in 1..MaxHandles :
          /\ h \in DOMAIN io_devices[p] /\ h \in DOMAIN io_devices'[p]
          /\ io_devices[p][h] # Invalid /\ io_devices[p][h] = io_devices'[p][h]
          /\ ~Dropped(p, h) /\ ~Dropped(p, h)'
          => /\ files[io_devices[p][h]].sb = files'[io_devices[p][h]].sb
             /\ files[io_devices[p][h]].inode = files'[io_devices[p][h]].inode
             /\ files[io_devices[p][h]].status = files'[io_devices[p][h]].status]_vars
=============================================================================
