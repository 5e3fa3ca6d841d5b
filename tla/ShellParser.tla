---------------------------- MODULE ShellParser ----------------------------
(***************************************************************************)
(* The shell's parser, src/src/user/shell_parser.cpp: from the tokens of a *)
(* line to commands with the kinds of their streams. A token is the name   *)
(* of a program (reduced to how the program treats its streams), one of    *)
(* the operators, or a "word". The error stream is left out: it is handled *)
(* like the output and no program blocks on it.                            *)
(***************************************************************************)
EXTENDS Naturals, Sequences

(* Two programs have no kind here: shell, which would run the lines that it *)
(* reads as this module's reader does, and rd, which may read one answer.   *)
ProgramNames ==
    {"writer",   \* echo, dir, ps, type with a file: never reads its input
     "filter",   \* sort, wc, freq, type alone: reads it to the end, then writes
     "rgen"}     \* one thread writes, the other one reads to the end
Names == ProgramNames \cup {"cd", "exit"}
Tokens == Names \cup {"|", ">", "<", "word"}

Command == [name : Names \cup {""}, params : BOOLEAN, files : SUBSET {"in", "out"},
            in : {"standard", "pipe", "file"}, out : {"standard", "pipe", "file"}]

FirstCommand == [name |-> "", params |-> FALSE, files |-> {},
                 in |-> "standard", out |-> "standard"]

\* createCommand leaves the streams of the next command behind, the caller
\* clears the parameters and the file names.
FollowedBy(command, name) ==
    [FirstCommand EXCEPT
        !.name = name,
        !.in = IF command.out = "pipe" THEN "pipe" ELSE "standard"]

\* The state of splitToCommands between two tokens: filename is the stream
\* that the next token is a file name for, if there is one.
Begin == [done |-> <<>>, command |-> FirstCommand, filename |-> "none", first |-> TRUE]

Token(s, token) ==
    LET seen == [s EXCEPT !.first = FALSE, !.filename = "none"]
    IN  CASE s.filename # "none" -> [seen EXCEPT !.command.files = @ \cup {s.filename}]
          [] s.filename = "none" /\ token \in Names ->
                [seen EXCEPT !.done = IF s.first THEN @ ELSE Append(@, s.command),
                             !.command = FollowedBy(s.command, token)]
          [] s.filename = "none" /\ token = "|" -> [seen EXCEPT !.command.out = "pipe"]
          [] s.filename = "none" /\ token = ">" ->
                [seen EXCEPT !.command.out = "file", !.filename = "out"]
          [] s.filename = "none" /\ token = "<" ->
                [seen EXCEPT !.command.in = "file", !.filename = "in"]
          [] s.filename = "none" /\ token = "word" -> [seen EXCEPT !.command.params = TRUE]

splitToCommands(tokens) ==
    LET after[n \in 0..Len(tokens)] ==
            IF n = 0 THEN Begin ELSE Token(after[n - 1], tokens[n])
        end == after[Len(tokens)]
    IN  IF tokens = <<>> THEN <<>> ELSE Append(end.done, end.command)
=============================================================================
