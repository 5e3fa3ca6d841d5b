------------------------------- MODULE Shell -------------------------------
(***************************************************************************)
(* Command lines: the shell's executor (src/src/user/shell_executor.cpp),  *)
(* the programs it starts and the pipes between them. A pipe is what       *)
(* PipeChannel promises, reduced to how many cells are full; an end is     *)
(* open as long as somebody holds it, as Descriptors shows; a process      *)
(* keeps what it holds until it has been awaited, as in Process, whose     *)
(* lost wake-up is left out here.                                          *)
(***************************************************************************)
EXTENDS ShellParser, FiniteSets

CONSTANTS Lines,       \* lines the user may type, as sequences of tokens
          Pipes,       \* the table of pipes
          Pids,        \* the table of processes, without init
          PIPE_SIZE,   \* cells of a pipe
          MaxOutput,   \* bound of the model: cells a writer or filter writes
          MaxLeft,     \* bound of the model: processes and ends of pipes left
                       \* over from earlier lines when another line is typed
          Liberties    \* what lines permit themselves

AllLiberties == {"unread pipes",    \* the program behind a pipe does not read it
                 "dangling pipes"}  \* no command, or a file, is behind a pipe

ASSUME ShellAssumption ==
    /\ Lines \subseteq Seq(Tokens)
    /\ IsFiniteSet(Pipes) /\ IsFiniteSet(Pids)
    /\ (Pipes \cup Pids) \cap {"none", "console", "file", "invalid", "failed"} = {}
    /\ PIPE_SIZE \in Nat \ {0} /\ MaxOutput \in Nat /\ MaxLeft \in Nat
    /\ Liberties \subseteq AllLiberties

VARIABLES line,         \* the commands of the line
          step, at,     \* where executeCommands and runCommands are
          pipeHandles,  \* the pipe created last
          toExecute,    \* streams and process of the commands prepared
          held,         \* ends of pipes that the shell has open
          procs,        \* pid -> process
          cells         \* pipe -> full cells

executor == <<line, step, at, pipeHandles, toExecute>>
vars == <<executor, held, procs, cells>>

Ends == Pipes \X {"openRead", "openWrite"}
NoProcess == [kind |-> "none", in |-> "none", out |-> "none", state |-> "none", left |-> 0]

Using(p) == {<<procs[p].in, "openRead">>, <<procs[p].out, "openWrite">>} \cap Ends
Open == held \cup UNION {Using(p) : p \in Pids}
FreePipes == {k \in Pipes : ({k} \X {"openRead", "openWrite"}) \cap Open = {}}
FreePids == {p \in Pids : procs[p] = NoProcess}
Any(S) == CHOOSE x \in S : TRUE   \* which slot of a table is of no account here

Init ==
    /\ line = <<>> /\ step = "prompt" /\ at = 1
    /\ pipeHandles = "none" /\ toExecute = <<>>
    /\ held = {}
    /\ procs = [p \in Pids |-> NoProcess]
    /\ cells = [k \in Pipes |-> 0]
-----------------------------------------------------------------------------
\* What the user takes care of.
Careful(commands) ==
    /\ "unread pipes" \notin Liberties =>
          \A c \in DOMAIN commands :
              commands[c].in = "pipe" => commands[c].name \in {"filter", "rgen"}
    /\ "dangling pipes" \notin Liberties =>
          \A c \in DOMAIN commands : commands[c].out = "pipe" =>
              c < Len(commands) /\ commands[c + 1].in = "pipe"

Typed == {commands \in {splitToCommands(tokens) : tokens \in Lines} : Careful(commands)}

Left == Cardinality(held) + Cardinality(Pids \ FreePids)

\* The prompt and the line that the user types at it.
ReadLine ==
    /\ step = "prompt" /\ Left <= MaxLeft
    /\ \E commands \in Typed :
          /\ line' = commands
          /\ step' = IF commands = <<>> THEN "prompt" ELSE "prepare"
    /\ at' = 1 /\ pipeHandles' = "none" /\ toExecute' = <<>>
    /\ UNCHANGED <<held, procs, cells>>

\* The end of the user's input, or a failing system call.
LeaveShell ==
    /\ step = "prompt" /\ step' = "over"
    /\ UNCHANGED <<line, at, pipeHandles, toExecute, held, procs, cells>>

(* checkName and "exit". Without parameters there is no parameters[0] to    *)
(* put into the message.                                                    *)
RejectCommand ==
    /\ step = "prepare"
    /\ \/ line[at].name = "exit" /\ step' = "over"
       \/ line[at].name = "" /\ line[at].params /\ step' = "prompt"
       \/ line[at].name = "" /\ ~line[at].params /\ step' = "crashed"
    /\ UNCHANGED <<line, at, pipeHandles, toExecute, held, procs, cells>>

\* The file, if there is a name, and a handle for it, if it can be opened.
Opened(stream, command) ==
    IF stream \notin command.files THEN {"failed"}
    ELSE {"file", "invalid"}

setStdIn(command) ==
    CASE command.in = "standard" -> {"console"}
      [] command.in = "pipe" -> {IF pipeHandles = "none" THEN "failed" ELSE pipeHandles}
      [] command.in = "file" -> Opened("in", command)

setStdOut(command) ==
    CASE command.out = "standard" -> {"console"}
      [] command.out = "pipe" -> {IF FreePipes = {} THEN "failed" ELSE Any(FreePipes)}
      [] command.out = "file" -> Opened("out", command)

(* One turn of executeCommands' loop. When a stream fails the line is given *)
(* up, and with it the handles of the commands before.                      *)
PrepareCommand ==
    /\ step = "prepare" /\ line[at].name \in Names \ {"exit"}
    /\ \E in \in setStdIn(line[at]), out \in setStdOut(line[at]) :
          \/ /\ "failed" \in {in, out}
             /\ step' = "prompt"
             /\ UNCHANGED <<at, pipeHandles, toExecute, held, cells>>
          \/ /\ "failed" \notin {in, out}
             /\ toExecute' = Append(toExecute, [in |-> in, out |-> out, handle |-> "none"])
             /\ IF out \in Pipes
                THEN /\ held' = held \cup ({out} \X {"openRead", "openWrite"})
                     /\ cells' = [cells EXCEPT ![out] = 0]
                     /\ pipeHandles' = out
                ELSE UNCHANGED <<held, cells, pipeHandles>>
             /\ IF at < Len(line) THEN step' = "prepare" /\ at' = at + 1
                ELSE step' = "create" /\ at' = 1
    /\ UNCHANGED <<line, procs>>
-----------------------------------------------------------------------------
\* The child's duplicate of the shell's handle; for an invalid one it is the
\* shell's output, the console.
Inherited(stream) == IF stream = "invalid" THEN "console" ELSE stream

Process(kind, in, out) ==
    {[kind |-> kind, in |-> in, out |-> out, left |-> left,
      state |-> IF kind = "writer" THEN "done" ELSE "reading"] :
        left \in IF kind = "writer" THEN 0..MaxOutput ELSE {0}}

CreateProcess ==
    /\ step = "create" /\ line[at].name \in ProgramNames /\ FreePids # {}
    /\ \E p \in {Any(FreePids)} :
          /\ \E process \in Process(line[at].name, Inherited(toExecute[at].in),
                                    Inherited(toExecute[at].out)) :
                procs' = [procs EXCEPT ![p] = process]
          /\ toExecute' = [toExecute EXCEPT ![at].handle = p]
    /\ step' = "close"
    /\ UNCHANGED <<line, at, pipeHandles, held, cells>>

ChangeDirectory ==
    /\ step = "create" /\ line[at].name = "cd"
    /\ step' = "close"
    /\ UNCHANGED <<line, at, pipeHandles, toExecute, held, procs, cells>>

(* A failing cd: runCommands gives up, the handles of this command and of   *)
(* those behind it stay open, nobody awaits the programs started. A Clone   *)
(* with a full table leaves the table's bounds, see Process; it fails in no *)
(* other way, as the parser knows only programs that user.dll exports.      *)
FailCommand ==
    /\ step = "create"
    /\ \/ line[at].name = "cd" /\ step' = "prompt"
       \/ line[at].name \in ProgramNames /\ FreePids = {} /\ step' = "crashed"
    /\ UNCHANGED <<line, at, pipeHandles, toExecute, held, procs, cells>>

(* Close_File of a handle that was never given throws out of the kernel     *)
(* (process.cpp:974).                                                       *)
Close(ends) ==
    /\ step = "close"
    /\ IF "invalid" \in {toExecute[at].in, toExecute[at].out}
       THEN step' = "crashed" /\ UNCHANGED <<at, held>>
       ELSE /\ held' = held \ ends
            /\ IF at < Len(toExecute) THEN step' = "create" /\ at' = at + 1
               ELSE step' = "wait" /\ at' = 1
    /\ UNCHANGED <<line, pipeHandles, toExecute, procs, cells>>

ReadEnd == <<toExecute[at].in, "openRead">>
WriteEnd == <<toExecute[at].out, "openWrite">>

\* mutants: one of the handles is forgotten
ClosesOutput == Close({WriteEnd})
ClosesInput == Close({ReadEnd})

CloseHandles == Close({ReadEnd, WriteEnd})

(* One turn of waitForCommands: the join, which reaps the process and so    *)
(* closes what it has open; a cd has no process.                            *)
WaitForCommand ==
    LET h == toExecute[at].handle
    IN  /\ step = "wait"
        /\ \/ h = "none" /\ UNCHANGED procs
           \/ /\ h \in Pids /\ procs[h].state = "ended"
              /\ procs' = [procs EXCEPT ![h] = NoProcess]
        /\ IF at < Len(toExecute) THEN at' = at + 1 /\ UNCHANGED step
           ELSE step' = "prompt" /\ UNCHANGED at
        /\ UNCHANGED <<line, pipeHandles, toExecute, held, cells>>
-----------------------------------------------------------------------------
Change(p, state, left) == procs' = [procs EXCEPT ![p].state = state, ![p].left = left]

Reads(p) == procs[p].state = "reading"
ReadCell(p) ==
    /\ Reads(p) /\ procs[p].in \in Pipes /\ cells[procs[p].in] > 0
    /\ cells' = [cells EXCEPT ![procs[p].in] = @ - 1]
    /\ UNCHANGED <<executor, held, procs>>

\* A filter writes when it has read everything, rgen stops its other thread.
SeeEnd(p) ==
    /\ \E left \in IF procs[p].kind = "filter" THEN 0..MaxOutput ELSE {procs[p].left} :
          Change(p, "done", left)
    /\ UNCHANGED <<executor, held, cells>>

\* mutant: an empty pipe is taken for the end
EndWhenEmpty(p) ==
    /\ Reads(p)
    /\ \/ procs[p].in = "file"
       \/ procs[p].in \in Pipes /\ cells[procs[p].in] = 0
    /\ SeeEnd(p)

EndOfInput(p) ==
    /\ Reads(p)
    /\ \/ procs[p].in = "file"
       \/ /\ procs[p].in \in Pipes
          /\ cells[procs[p].in] = 0 /\ <<procs[p].in, "openWrite">> \notin Open
    /\ SeeEnd(p)

EndOfConsole(p) == Reads(p) /\ procs[p].in = "console" /\ SeeEnd(p)

\* generateNumbers begins the next number.
Generate(p) ==
    /\ Reads(p) /\ procs[p].kind = "rgen" /\ procs[p].left = 0
    /\ Change(p, "reading", 1)
    /\ UNCHANGED <<executor, held, cells>>

\* mutant: nobody waits for a free cell
WriteAnyway(p) ==
    /\ procs[p].left > 0
    /\ Change(p, procs[p].state, procs[p].left - 1)
    /\ cells' = [k \in Pipes |-> IF k = procs[p].out THEN cells[k] + 1 ELSE cells[k]]
    /\ UNCHANGED <<executor, held>>

(* A write into a pipe waits for a free cell, or is abandoned if nobody can *)
(* read it any more; programs do not look at the result.                    *)
WriteCell(p) ==
    LET k == procs[p].out
        abandoned == k \notin Pipes \/ <<k, "openRead">> \notin Open
    IN  /\ procs[p].left > 0
        /\ Change(p, procs[p].state, procs[p].left - 1)
        /\ \/ abandoned /\ UNCHANGED cells
           \/ ~abandoned /\ cells[k] < PIPE_SIZE /\ cells' = [cells EXCEPT ![k] = @ + 1]
        /\ UNCHANGED <<executor, held>>

EndProgram(p) ==
    /\ procs[p].state = "done" /\ procs[p].left = 0
    /\ Change(p, "ended", 0)
    /\ UNCHANGED <<executor, held, cells>>

RunLine == \/ RejectCommand \/ PrepareCommand \/ CreateProcess \/ ChangeDirectory
           \/ FailCommand \/ CloseHandles \/ WaitForCommand
Main(p) == ReadCell(p) \/ EndOfInput(p) \/ EndProgram(p)
Writer(p) == Generate(p) \/ WriteCell(p)
Stopped == (step \in {"over", "crashed"} \/ Left > MaxLeft) /\ UNCHANGED vars

Next == \/ ReadLine \/ LeaveShell \/ RunLine \/ Stopped
        \/ \E p \in Pids : Main(p) \/ Writer(p) \/ EndOfConsole(p)

(* The shell, and each thread of a program, keeps running (std::thread under *)
(* the host's scheduler). The user need not type anything or end his input.  *)
Spec == /\ Init /\ [][Next]_vars
        /\ WF_vars(RunLine)
        /\ \A p \in Pids : WF_vars(Main(p)) /\ WF_vars(Writer(p))
-----------------------------------------------------------------------------
Streams == {"console", "file", "invalid"} \cup Pipes

(* Type invariant; a pipe is never fuller than it can be.                   *)
TypeOK ==
    /\ line \in Seq(Command) /\ at \in 1..Len(line) + 1
    /\ step \in {"prompt", "prepare", "create", "close", "wait",
                "over", "crashed"}
    /\ toExecute \in Seq([in : Streams, out : Streams, handle : Pids \cup {"none"}])
    /\ pipeHandles \in Pipes \cup {"none"}
    /\ held \subseteq Ends
    /\ procs \in [Pids -> {NoProcess} \cup
          [kind : ProgramNames, in : Streams \ {"invalid"}, out : Streams \ {"invalid"},
           state : {"reading", "done", "ended"}, left : 0..MaxOutput + 1]]
    /\ cells \in [Pipes -> 0..PIPE_SIZE]

Executing == step \in {"prepare", "create", "close", "wait"}

Started == {toExecute[c].handle : c \in DOMAIN toExecute} \cap Pids

(* Every line ends: the prompt comes back, unless a program of the line     *)
(* waits for the user to type (Dokumentace.pdf, section 3.3: the shell      *)
(* tells the user how the processes get on or that they have finished).     *)
LinesEnd ==
    Executing ~> ~Executing \/ \E p \in Started : Reads(p) /\ procs[p].in = "console"

(* A line that has been run leaves nothing behind at the prompt: each of    *)
(* its processes has been awaited, each end of its pipes is closed          *)
(* (Dokumentace.pdf, section 3.3.2: the descriptors are closed so that the  *)
(* count of openings stays right). A line given up on the way may leave     *)
(* some of them.                                                            *)
NothingLeftBehind ==
    [][step = "wait" /\ step' = "prompt" =>
           /\ \A p \in Started : procs'[p] = NoProcess
           /\ \A c \in DOMAIN toExecute :
                 ({toExecute[c].in, toExecute[c].out} \X {"openRead", "openWrite"})
                     \cap Open' = {}]_vars

(* A program sees the end of its input only when the command before it has  *)
(* ended and all that it wrote into the pipe has been read.                 *)
EndOfInputIsTrue ==
    Executing => \A c \in 2..Len(toExecute) :
        LET reader == toExecute[c].handle
            writer == toExecute[c - 1].handle
            reaped(i) == step = "wait" /\ at > i
        IN  /\ line[c].in = "pipe" /\ reader \in Pids /\ ~reaped(c)
            /\ procs[reader].kind # "writer" /\ procs[reader].state # "reading"
            => /\ procs[reader].in = toExecute[c - 1].out
               /\ cells[procs[reader].in] = 0
               /\ reaped(c - 1) \/ writer = "none" \/ procs[writer].state = "ended"
=============================================================================
