---------------------------- MODULE Shell_proofs ----------------------------
(***************************************************************************)
(* Theorems about Shell for every set of lines, every size of the tables   *)
(* of pipes and processes, and every size of a pipe.                       *)
(***************************************************************************)
EXTENDS Shell, SequenceTheorems, WellFoundedInduction, TLAPS

-----------------------------------------------------------------------------
(* A recursive function over positions.                                     *)

LEMMA LeastExists ==
  ASSUME NEW S \in SUBSET Nat, S # {}
  PROVE  \E x \in S : \A y \in S : x <= y
  <1>1. PICK x \in S : \A y \in S : ~(<<y, x>> \in OpToRel(<, Nat))
    BY NatLessThanWellFounded, WFMin
  <1>2. ASSUME NEW y \in S PROVE x <= y
    <2>1. <<y, x>> \in Nat \X Nat OBVIOUS
    <2>2. ~(y < x) BY <1>1, <2>1 DEF OpToRel
    <2> QED BY <2>2
  <1> QED BY <1>2

\* w follows g from base over the positions 1..n.
Follows(w, g, base, n) == w[0] = base /\ \A k \in 1..n : w[k] = g[<<w[k - 1], k>>]

LEMMA FollowerExists ==
  ASSUME NEW N \in Nat, NEW V, NEW base \in V, NEW g \in [V \X (1..N) -> V]
  PROVE  \E w \in [0..N -> V] : Follows(w, g, base, N)
  <1> DEFINE Fine(n) == \E w \in [0..n -> V] : Follows(w, g, base, n)
             Bad == {n \in Nat : n <= N /\ ~Fine(n)}
  <1>1. Fine(0)
    <2> DEFINE w == [k \in 0..0 |-> base]
    <2>1. w \in [0..0 -> V] /\ w[0] = base /\ 1..0 = {} OBVIOUS
    <2> HIDE DEF w
    <2> QED BY <2>1 DEF Follows
  <1>2. ASSUME NEW n \in Nat, n # 0, n <= N, Fine(n - 1) PROVE Fine(n)
    <2>1. PICK f \in [0..(n - 1) -> V] : Follows(f, g, base, n - 1)
      BY <1>2
    <2> DEFINE w == [k \in 0..n |-> IF k = n THEN g[<<f[n - 1], n>>] ELSE f[k]]
    <2>2. n \in 1..N /\ n - 1 \in 0..(n - 1) BY <1>2
    <2>3. \A k \in 0..n : k # n => k \in 0..(n - 1) BY <1>2
    <2>4. w \in [0..n -> V]
      <3>1. g[<<f[n - 1], n>>] \in V BY <2>2
      <3>2. \A k \in 0..n : k # n => f[k] \in V BY <2>3
      <3> QED BY <3>1, <3>2
    <2>5. w[0] = base
      <3>1. 0 \in 0..n /\ 0 # n BY <1>2
      <3> QED BY <2>1, <3>1 DEF Follows
    <2>6. ASSUME NEW k \in 1..n PROVE w[k] = g[<<w[k - 1], k>>]
      <3>1. k \in 0..n /\ k - 1 \in 0..n /\ k - 1 # n BY <1>2
      <3>2. w[k - 1] = f[k - 1] BY <3>1
      <3>3. CASE k = n BY <3>1, <3>2, <3>3
      <3>4. CASE k # n
        <4>1. k \in 1..(n - 1) BY <1>2, <3>4
        <4>2. f[k] = g[<<f[k - 1], k>>] BY <2>1, <4>1 DEF Follows
        <4>3. w[k] = f[k] BY <3>1, <3>4
        <4> QED BY <3>2, <4>2, <4>3
      <3> QED BY <3>3, <3>4
    <2> HIDE DEF w
    <2> QED BY <2>4, <2>5, <2>6 DEF Follows
  <1>3. ASSUME Bad # {} PROVE FALSE
    <2>1. PICK x \in Bad : \A y \in Bad : x <= y
      <3>1. Bad \in SUBSET Nat OBVIOUS
      <3> HIDE DEF Bad
      <3> QED BY <1>3, <3>1, LeastExists
    <2>2. x \in Nat /\ x <= N /\ ~Fine(x) OBVIOUS
    <2> HIDE DEF Fine
    <2>3. x # 0 BY <1>1, <2>2
    <2>4. x - 1 \in Nat /\ x - 1 <= N /\ ~(x <= x - 1) BY <2>2, <2>3
    <2>5. Fine(x - 1) BY <2>1, <2>4
    <2> QED BY <1>2, <2>2, <2>3, <2>5
  <1>4. Fine(N)
    <2> HIDE DEF Fine
    <2> QED BY <1>3
  <1> QED BY <1>4
-----------------------------------------------------------------------------
(* The parser. Only the second of two commands with a pipe in between reads *)
(* from a pipe.                                                             *)

Linked(commands) ==
    \A c \in DOMAIN commands :
        commands[c].in = "pipe" => c - 1 \in DOMAIN commands /\ commands[c - 1].out = "pipe"

LEMMA LinkedAppend ==
  ASSUME NEW done \in Seq(Command), NEW command \in Command, Linked(done),
         command.in = "pipe" => done # <<>> /\ done[Len(done)].out = "pipe"
  PROVE  Append(done, command) \in Seq(Command) /\ Linked(Append(done, command))
  <1> DEFINE all == Append(done, command)
  <1>1. PICK n \in Nat : n = Len(done) BY LenProperties
  <1>2. all \in Seq(Command) /\ Len(all) = n + 1 /\ all[n + 1] = command
        /\ \A c \in 1..n : all[c] = done[c]
    BY <1>1, AppendProperties
  <1>3. DOMAIN all = 1..(n + 1) /\ DOMAIN done = 1..n
    BY <1>1, <1>2, LenProperties
  <1> HIDE DEF all
  <1>4. ASSUME NEW c \in DOMAIN all, all[c].in = "pipe"
        PROVE  c - 1 \in DOMAIN all /\ all[c - 1].out = "pipe"
    <2>1. CASE c = n + 1
      <3>1. done # <<>> /\ done[n].out = "pipe" BY <1>1, <1>2, <1>4, <2>1
      <3>2. n # 0 BY <1>1, <3>1, EmptySeq
      <3>3. n \in 1..n /\ n \in 1..(n + 1) /\ c - 1 = n BY <2>1, <3>2
      <3> QED BY <1>2, <1>3, <3>1, <3>3
    <2>2. CASE c # n + 1
      <3>1. c \in 1..n BY <1>3, <2>2
      <3>2. all[c] = done[c] BY <1>2, <3>1
      <3>3. c - 1 \in 1..n /\ done[c - 1].out = "pipe"
        BY <1>3, <1>4, <3>1, <3>2 DEF Linked
      <3> QED BY <1>2, <1>3, <3>3
    <2> QED BY <2>1, <2>2
  <1>5. Linked(all) BY <1>4 DEF Linked
  <1> QED BY <1>2, <1>5 DEF all

\* What splitToCommands has between two tokens.
ParserState ==
    {s \in [done : Seq(Command), command : Command,
            filename : {"none", "in", "out"}, first : BOOLEAN] :
        /\ s.first => s.command.out = "standard"
        /\ Linked(s.done)
        /\ s.command.in = "pipe" => s.done # <<>> /\ s.done[Len(s.done)].out = "pipe"}

LEMMA BeginIsState == Begin \in ParserState
  <1>1. FirstCommand \in Command BY DEF FirstCommand, Command
  <1>2. <<>> \in Seq(Command) /\ Linked(<<>>) BY DEF Linked
  <1> QED BY <1>1, <1>2 DEF Begin, ParserState, FirstCommand

LEMMA TokenKeepsState ==
  ASSUME NEW s \in ParserState, NEW token \in Tokens
  PROVE  Token(s, token) \in ParserState
  <1> DEFINE seen == [s EXCEPT !.first = FALSE, !.filename = "none"]
             r == Token(s, token)
             Fields == [done : Seq(Command), command : Command,
                        filename : {"none", "in", "out"}, first : BOOLEAN]
  <1>1. s \in Fields /\ s.done \in Seq(Command) /\ s.command \in Command
        /\ s.filename \in {"none", "in", "out"} /\ s.first \in BOOLEAN
    BY DEF ParserState
  <1>2. /\ s.first => s.command.out = "standard"
        /\ Linked(s.done)
        /\ s.command.in = "pipe" => s.done # <<>> /\ s.done[Len(s.done)].out = "pipe"
    BY DEF ParserState
  <1>3. seen \in Fields /\ seen.done = s.done /\ seen.command = s.command
        /\ seen.first = FALSE /\ seen.filename = "none"
    BY <1>1
  <1>4. ASSUME NEW command \in Command,
               command.in \in {s.command.in, "file"},
               NEW filename \in {"none", "in", "out"},
               r = [done |-> s.done, command |-> command, filename |-> filename,
                    first |-> FALSE]
        PROVE  Token(s, token) \in ParserState
    <2> DEFINE q == [done |-> s.done, command |-> command, filename |-> filename,
                     first |-> FALSE]
    <2>1. q \in Fields /\ q.done = s.done /\ q.command = command /\ q.first = FALSE
      BY <1>1
    <2>2. command.in = "pipe" => s.command.in = "pipe" BY <1>4
    <2>3. r = q BY <1>4
    <2> HIDE DEF q
    <2>4. q \in ParserState BY <1>2, <2>1, <2>2 DEF ParserState
    <2> QED BY <2>3, <2>4
  <1>5. CASE s.filename # "none"
    <2> DEFINE command == [s.command EXCEPT !.files = @ \cup {s.filename}]
    <2>1. command \in Command /\ command.in = s.command.in
      BY <1>1, <1>5 DEF Command
    <2>2. r = [seen EXCEPT !.command.files = @ \cup {s.filename}]
      BY <1>5 DEF Token
    <2>3. r = [done |-> s.done, command |-> command, filename |-> "none", first |-> FALSE]
      BY <1>1, <2>2
    <2> HIDE DEF command
    <2> QED BY <1>4, <2>1, <2>3
  <1>6. CASE s.filename = "none" /\ token \in Names
    <2> DEFINE done == IF s.first THEN s.done ELSE Append(s.done, s.command)
               command == FollowedBy(s.command, token)
    <2>1. command \in Command
          /\ command.in = IF s.command.out = "pipe" THEN "pipe" ELSE "standard"
      BY <1>1, <1>6 DEF FollowedBy, FirstCommand, Command
    <2>2. r = [done |-> done, command |-> command, filename |-> "none", first |-> FALSE]
      <3>1. CASE s.first
        <4>1. r = [seen EXCEPT !.done = @, !.command = FollowedBy(s.command, token)]
          BY <1>1, <1>6, <3>1 DEF Token, Names, ProgramNames
        <4> QED BY <1>1, <3>1, <4>1
      <3>2. CASE ~s.first
        <4>1. r = [seen EXCEPT !.done = Append(@, s.command),
                               !.command = FollowedBy(s.command, token)]
          BY <1>1, <1>6, <3>2 DEF Token, Names, ProgramNames
        <4> QED BY <1>1, <3>2, <4>1
      <3> QED BY <1>1, <3>1, <3>2
    <2>3. done \in Seq(Command) /\ Linked(done)
      BY <1>1, <1>2, LinkedAppend
    <2>4. ASSUME command.in = "pipe" PROVE done # <<>> /\ done[Len(done)].out = "pipe"
      <3>1. s.command.out = "pipe" /\ ~s.first BY <1>2, <2>1, <2>4
      <3>2. done = Append(s.done, s.command) BY <3>1
      <3>3. Len(Append(s.done, s.command)) = Len(s.done) + 1
            /\ Append(s.done, s.command)[Len(s.done) + 1] = s.command
            /\ Append(s.done, s.command) # <<>>
        <4>1. s.done \in Seq(Command) /\ s.command \in Command BY <1>1
        <4> HIDE DEF done, command, seen, r, Fields
        <4> QED BY <4>1, AppendProperties
      <3> QED BY <3>1, <3>2, <3>3
    <2> DEFINE q == [done |-> done, command |-> command, filename |-> "none", first |-> FALSE]
    <2> HIDE DEF done, command
    <2>5. q \in Fields /\ q.done = done /\ q.command = command /\ q.first = FALSE
      BY <2>1, <2>3
    <2> HIDE DEF q
    <2>6. q \in ParserState BY <2>3, <2>4, <2>5 DEF ParserState
    <2> QED BY <2>2, <2>6 DEF q
  <1>7. CASE s.filename = "none" /\ token = "|"
    <2> DEFINE command == [s.command EXCEPT !.out = "pipe"]
    <2>1. command \in Command /\ command.in = s.command.in
      BY <1>1 DEF Command
    <2>2. token \notin Names BY <1>7 DEF Names, ProgramNames
    <2>3. r = [seen EXCEPT !.command.out = "pipe"] BY <1>7, <2>2 DEF Token
    <2>4. r = [done |-> s.done, command |-> command, filename |-> "none", first |-> FALSE]
      BY <1>1, <2>3
    <2> HIDE DEF command
    <2> QED BY <1>4, <2>1, <2>4
  <1>8. CASE s.filename = "none" /\ token = ">"
    <2> DEFINE command == [s.command EXCEPT !.out = "file"]
    <2>1. command \in Command /\ command.in = s.command.in
      BY <1>1 DEF Command
    <2>2. token \notin Names BY <1>8 DEF Names, ProgramNames
    <2>3. r = [seen EXCEPT !.command.out = "file", !.filename = "out"]
      BY <1>8, <2>2 DEF Token
    <2>4. r = [done |-> s.done, command |-> command, filename |-> "out", first |-> FALSE]
      BY <1>1, <2>3
    <2> HIDE DEF command
    <2> QED BY <1>4, <2>1, <2>4
  <1>9. CASE s.filename = "none" /\ token = "<"
    <2> DEFINE command == [s.command EXCEPT !.in = "file"]
    <2>1. command \in Command /\ command.in = "file"
      BY <1>1 DEF Command
    <2>2. token \notin Names BY <1>9 DEF Names, ProgramNames
    <2>3. r = [seen EXCEPT !.command.in = "file", !.filename = "in"]
      BY <1>9, <2>2 DEF Token
    <2>4. r = [done |-> s.done, command |-> command, filename |-> "in", first |-> FALSE]
      BY <1>1, <2>3
    <2> HIDE DEF command
    <2> QED BY <1>4, <2>1, <2>4
  <1>10. CASE s.filename = "none" /\ token = "word"
    <2> DEFINE command == [s.command EXCEPT !.params = TRUE]
    <2>1. command \in Command /\ command.in = s.command.in
      BY <1>1 DEF Command
    <2>2. token \notin Names BY <1>10 DEF Names, ProgramNames
    <2>3. r = [seen EXCEPT !.command.params = TRUE] BY <1>10, <2>2 DEF Token
    <2>4. r = [done |-> s.done, command |-> command, filename |-> "none", first |-> FALSE]
      BY <1>1, <2>3
    <2> HIDE DEF command
    <2> QED BY <1>4, <2>1, <2>4
  <1> QED BY <1>5, <1>6, <1>7, <1>8, <1>9, <1>10 DEF Tokens

(* splitToCommands: every line of tokens is split into commands, and what a *)
(* command reads from is a pipe only behind one that writes into a pipe.    *)
LEMMA LinesAreLinked ==
  ASSUME NEW tokens \in Seq(Tokens)
  PROVE  splitToCommands(tokens) \in Seq(Command) /\ Linked(splitToCommands(tokens))
  <1> DEFINE N == Len(tokens)
             V == ParserState
             g == [p \in V \X (1..N) |-> Token(p[1], tokens[p[2]])]
             Eq(after) == after = [n \in 0..N |->
                                      IF n = 0 THEN Begin ELSE Token(after[n - 1], tokens[n])]
             after == CHOOSE after : Eq(after)
             end == after[N]
  <1>1. N \in Nat /\ \A i \in 1..N : tokens[i] \in Tokens
    BY LenProperties, ElementOfSeq
  <1>2. g \in [V \X (1..N) -> V]
    <2>1. \A p \in V \X (1..N) : Token(p[1], tokens[p[2]]) \in V
      BY <1>1, TokenKeepsState
    <2> QED BY <2>1
  <1>3. \E f \in [0..N -> V] : Eq(f)
    <2>1. \A v \in V, i \in 1..N : g[<<v, i>>] = Token(v, tokens[i]) OBVIOUS
    <2>2. Begin \in V BY BeginIsState
    <2> HIDE DEF g, V, N
    <2>3. PICK f \in [0..N -> V] : Follows(f, g, Begin, N)
      BY <1>1, <1>2, <2>2, FollowerExists
    <2>4. ASSUME NEW n \in 0..N
          PROVE  f[n] = IF n = 0 THEN Begin ELSE Token(f[n - 1], tokens[n])
      <3>1. CASE n = 0 BY <2>3, <3>1 DEF Follows
      <3>2. CASE n # 0
        <4>1. n \in 1..N /\ n - 1 \in 0..N BY <1>1, <3>2
        <4>2. f[n] = g[<<f[n - 1], n>>] BY <2>3, <4>1 DEF Follows
        <4>3. f[n - 1] \in V BY <4>1
        <4> QED BY <2>1, <3>2, <4>1, <4>2, <4>3
      <3> QED BY <3>1, <3>2
    <2>5. f = [n \in 0..N |-> f[n]] BY <2>3
    <2>6. Eq(f) BY <2>4, <2>5
    <2> QED BY <2>6
  <1>4. Eq(after)
    <2> HIDE DEF Eq
    <2> QED BY <1>3
  <1>5. splitToCommands(tokens) =
            IF tokens = <<>> THEN <<>> ELSE Append(end.done, end.command)
    BY DEF splitToCommands
  <1>6. end \in V
    <2> DEFINE Bad == {n \in 0..N : after[n] \notin V}
    <2>1. ASSUME Bad # {} PROVE FALSE
      <3>1. PICK n \in Bad : \A m \in Bad : n <= m
        <4>1. Bad \in SUBSET Nat OBVIOUS
        <4> HIDE DEF Bad
        <4> QED BY <2>1, <4>1, LeastExists
      <3>2. n \in 0..N /\ after[n] \notin V OBVIOUS
      <3> HIDE DEF after
      <3>3. after[n] = IF n = 0 THEN Begin ELSE Token(after[n - 1], tokens[n])
        BY <1>4, <3>2
      <3>4. n # 0 BY <3>2, <3>3, BeginIsState
      <3>5. n - 1 \in 0..N /\ n \in 1..N /\ ~(n <= n - 1) BY <1>1, <3>2, <3>4
      <3>6. after[n - 1] \in V BY <3>1, <3>5
      <3> QED BY <1>1, <3>2, <3>3, <3>4, <3>5, <3>6, TokenKeepsState
    <2>2. N \in 0..N BY <1>1
    <2> QED BY <2>1, <2>2
  <1>7. /\ end.done \in Seq(Command) /\ end.command \in Command /\ Linked(end.done)
        /\ end.command.in = "pipe" => end.done # <<>> /\ end.done[Len(end.done)].out = "pipe"
    BY <1>6 DEF ParserState
  <1>8. <<>> \in Seq(Command) /\ Linked(<<>>) BY DEF Linked
  <1>9. Append(end.done, end.command) \in Seq(Command)
        /\ Linked(Append(end.done, end.command))
    <2> HIDE DEF end
    <2> QED BY <1>7, LinkedAppend
  <1> QED BY <1>5, <1>8, <1>9
-----------------------------------------------------------------------------
(* The inductive invariant.                                                 *)

Program == [kind : ProgramNames, in : Streams \ {"invalid"}, out : Streams \ {"invalid"},
            state : {"reading", "done", "ended"}, left : 0..MaxOutput + 1]
Streamed == [in : Streams, out : Streams, handle : Pids \cup {"none"}]

\* The handles of command c are closed, its program is started, it is awaited.
Closed(c) == step = "wait" \/ (step \in {"create", "close"} /\ c < at)
Made(c) == Closed(c) \/ (step = "close" /\ c = at)
Reaped(c) == step = "wait" /\ c < at

LineInv == Linked(line) /\ Careful(line)

(* The loops of executeCommands, runCommands and waitForCommands stay       *)
(* within what the line has.                                                *)
AtInv ==
    /\ at \in 1..Len(line)
    /\ Len(toExecute) = IF step = "prepare" THEN at - 1 ELSE Len(line)

\* Each pipe of the line was made for one command, and the next one reads it.
StreamsInv ==
    /\ \A c \in DOMAIN toExecute :
          /\ line[c].out = "pipe" <=> toExecute[c].out \in Pipes
          /\ line[c].in = "pipe" <=> toExecute[c].in \in Pipes
          /\ line[c].in = "pipe" =>
                c - 1 \in DOMAIN toExecute /\ toExecute[c].in = toExecute[c - 1].out
          /\ \A d \in DOMAIN toExecute :
                toExecute[c].out \in Pipes /\ toExecute[d].out = toExecute[c].out => d = c
    /\ step = "prepare" /\ at > 1 /\ line[at - 1].out = "pipe" =>
          pipeHandles = toExecute[at - 1].out

\* Each program of the line has a process of its own until it is awaited.
HandlesInv ==
    \A c \in DOMAIN toExecute :
        /\ ~Made(c) => toExecute[c].handle = "none"
        /\ toExecute[c].handle \in Pids =>
              /\ \A d \in DOMAIN toExecute : toExecute[d].handle = toExecute[c].handle => d = c
              /\ IF Reaped(c) THEN procs[toExecute[c].handle] = NoProcess
                 ELSE /\ procs[toExecute[c].handle] \in Program
                      /\ procs[toExecute[c].handle].in = Inherited(toExecute[c].in)
                      /\ procs[toExecute[c].handle].out = Inherited(toExecute[c].out)

\* Who holds the ends of a pipe of the line: the shell until it closes them,
\* and the programs on its two sides.
PipesInv ==
    \A c \in DOMAIN toExecute : toExecute[c].out \in Pipes =>
        /\ \A p \in Pids : procs[p].out = toExecute[c].out => p = toExecute[c].handle
        /\ \A p \in Pids : procs[p].in = toExecute[c].out =>
              c + 1 \in DOMAIN toExecute /\ p = toExecute[c + 1].handle
        /\ <<toExecute[c].out, "openWrite">> \in held <=> ~Closed(c)
        /\ c + 1 \in DOMAIN toExecute /\ toExecute[c + 1].in = toExecute[c].out /\ Closed(c + 1)
              => <<toExecute[c].out, "openRead">> \notin held

\* The program of command c has seen the end of the pipe it reads.
SawEnd(c) ==
    /\ line[c].in = "pipe" /\ toExecute[c].handle \in Pids /\ ~Reaped(c)
    /\ procs[toExecute[c].handle].kind # "writer"
    /\ procs[toExecute[c].handle].state # "reading"

EndsInv ==
    \A c \in DOMAIN toExecute : SawEnd(c) =>
        /\ cells[toExecute[c - 1].out] = 0
        /\ Closed(c - 1)
        /\ toExecute[c - 1].handle \in Pids => Reaped(c - 1)

RunInv == AtInv /\ StreamsInv /\ HandlesInv /\ PipesInv /\ EndsInv

IInv == TypeOK /\ LineInv /\ (Executing => RunInv)
-----------------------------------------------------------------------------
(* What is read off the types.                                              *)

Symbols == {"none", "console", "file", "invalid", "failed"}

LEMMA NoSymbols ==
  /\ \A k \in Pipes : k \notin Symbols
  /\ \A p \in Pids : p \notin Symbols
  BY ShellAssumption DEF Symbols

LEMMA Types ==
  ASSUME TypeOK
  PROVE  /\ line \in Seq(Command) /\ toExecute \in Seq(Streamed)
         /\ DOMAIN line = 1..Len(line) /\ DOMAIN toExecute = 1..Len(toExecute)
         /\ Len(line) \in Nat /\ Len(toExecute) \in Nat /\ at \in Nat /\ at >= 1
         /\ \A c \in DOMAIN line : line[c] \in Command
         /\ \A c \in DOMAIN toExecute : toExecute[c] \in Streamed
         /\ procs \in [Pids -> {NoProcess} \cup Program]
         /\ held \subseteq Ends /\ cells \in [Pipes -> 0..PIPE_SIZE]
  <1>1. line \in Seq(Command) /\ toExecute \in Seq(Streamed) /\ at \in 1..Len(line) + 1
        /\ procs \in [Pids -> {NoProcess} \cup Program]
        /\ held \subseteq Ends /\ cells \in [Pipes -> 0..PIPE_SIZE]
    BY DEF TypeOK, Program, Streamed
  <1>2. DOMAIN line = 1..Len(line) /\ Len(line) \in Nat
        /\ \A c \in DOMAIN line : line[c] \in Command
    BY <1>1, LenProperties, ElementOfSeq
  <1>3. DOMAIN toExecute = 1..Len(toExecute) /\ Len(toExecute) \in Nat
        /\ \A c \in DOMAIN toExecute : toExecute[c] \in Streamed
    <2>1. toExecute \in Seq(Streamed) BY <1>1
    <2>2. DOMAIN toExecute = 1..Len(toExecute) /\ Len(toExecute) \in Nat
      BY <2>1, LenProperties
    <2>3. \A c \in 1..Len(toExecute) : toExecute[c] \in Streamed BY <2>1, ElementOfSeq
    <2> QED BY <2>2, <2>3
  <1>4. PICK n \in Nat : n = Len(line) BY <1>2
  <1>5. at \in Nat /\ at >= 1 BY <1>1, <1>4
  <1> QED BY <1>1, <1>2, <1>3, <1>5

LEMMA RunningIsProgram ==
  ASSUME TypeOK, NEW p \in Pids
  PROVE  /\ procs[p] \in Program \/ procs[p] = NoProcess
         /\ NoProcess \notin Program
         /\ NoProcess.in \notin Pipes /\ NoProcess.out \notin Pipes
         /\ procs[p].state \in {"reading", "done", "ended"} => procs[p] \in Program
         /\ procs[p].left > 0 => procs[p] \in Program
  <1>1. procs[p] \in Program \/ procs[p] = NoProcess BY Types
  <1>2. NoProcess.state = "none" /\ NoProcess.left = 0 /\ NoProcess.kind = "none"
        /\ NoProcess.in = "none" /\ NoProcess.out = "none"
    BY DEF NoProcess
  <1>3. NoProcess \notin Program BY <1>2 DEF Program, ProgramNames
  <1> QED BY <1>1, <1>2, <1>3, NoSymbols DEF Symbols

\* An end that a process uses is open.
LEMMA UsedIsOpen ==
  ASSUME NEW p \in Pids, NEW k \in Pipes
  PROVE  /\ procs[p].in = k => <<k, "openRead">> \in Open
         /\ procs[p].out = k => <<k, "openWrite">> \in Open
         /\ held \subseteq Open
  BY DEF Open, Using, Ends

LEMMA InheritedPipe ==
  ASSUME NEW stream, NEW k \in Pipes
  PROVE  Inherited(stream) = k <=> stream = k
  BY NoSymbols DEF Inherited, Symbols

LEMMA TypedLines ==
  ASSUME NEW commands \in Typed
  PROVE  commands \in Seq(Command) /\ Linked(commands) /\ Careful(commands)
  <1>1. PICK tokens \in Lines : commands = splitToCommands(tokens) BY DEF Typed
  <1>2. tokens \in Seq(Tokens) BY ShellAssumption
  <1> QED BY <1>1, <1>2, LinesAreLinked DEF Typed
-----------------------------------------------------------------------------
(* The shell's steps.                                                       *)

LEMMA InitHolds == Init => IInv
  <1> SUFFICES ASSUME Init PROVE IInv OBVIOUS
  <1>1. line = <<>> /\ toExecute = <<>> /\ at = 1 /\ step = "prompt"
        /\ pipeHandles = "none" /\ held = {}
        /\ procs = [p \in Pids |-> NoProcess] /\ cells = [k \in Pipes |-> 0]
    BY DEF Init
  <1>2. <<>> \in Seq(Command) /\ Len(<<>>) = 0 /\ DOMAIN <<>> = {}
        /\ <<>> \in Seq([in : Streams, out : Streams, handle : Pids \cup {"none"}])
    OBVIOUS
  <1>3. TypeOK
    <2>1. at \in 1..Len(line) + 1 BY <1>1, <1>2
    <2>2. 0 \in 0..PIPE_SIZE BY ShellAssumption
    <2> QED BY <1>1, <1>2, <2>1, <2>2 DEF TypeOK
  <1>4. LineInv BY <1>1, <1>2 DEF LineInv, Linked, Careful
  <1> QED BY <1>1, <1>3, <1>4 DEF IInv, Executing

(* Where the shell goes back to its prompt, ends or crashes, nothing is     *)
(* said of the line any more.                                               *)
LEMMA GivesUp ==
  ASSUME IInv, step' \in {"prompt", "over", "crashed"},
         UNCHANGED <<line, at, pipeHandles, toExecute, held, procs, cells>>
  PROVE  IInv'
  <1>1. TypeOK' BY DEF IInv, TypeOK
  <1>2. LineInv' BY DEF IInv, LineInv, Careful
  <1>3. ~Executing' BY DEF Executing
  <1> QED BY <1>1, <1>2, <1>3 DEF IInv

LEMMA ReadLineKeeps ==
  ASSUME IInv, ReadLine
  PROVE  IInv'
  <1>1. /\ line' \in Typed /\ at' = 1 /\ toExecute' = <<>>
        /\ pipeHandles' = "none" /\ UNCHANGED <<held, procs, cells>>
        /\ step' = IF line' = <<>> THEN "prompt" ELSE "prepare"
    BY DEF ReadLine
  <1>2. line' \in Seq(Command) /\ LineInv'
    BY <1>1, TypedLines DEF LineInv, Careful
  <1>3. Len(line') \in Nat /\ (line' # <<>> => Len(line') # 0)
    BY <1>2, EmptySeq, LenProperties
  <1>4. <<>> \in Seq([in : Streams, out : Streams, handle : Pids \cup {"none"}])
        /\ Len(<<>>) = 0 /\ DOMAIN <<>> = {}
    OBVIOUS
  <1>5. TypeOK'
    <2>1. PICK n \in Nat : n = Len(line') BY <1>3
    <2>2. 1 \in 1..n + 1 BY <2>1
    <2> QED BY <1>1, <1>2, <1>4, <2>1, <2>2 DEF IInv, TypeOK
  <1>6. ASSUME Executing' PROVE RunInv'
    <2>1. step' = "prepare" /\ line' # <<>> BY <1>1, <1>6 DEF Executing
    <2>2. AtInv'
      <3>1. PICK n \in Nat : n = Len(line') BY <1>3
      <3>2. 1 \in 1..n BY <1>3, <2>1, <3>1
      <3> QED BY <1>1, <1>4, <2>1, <3>1, <3>2 DEF AtInv
    <2>3. DOMAIN toExecute' = {} BY <1>1, <1>4
    <2>4. StreamsInv' BY <1>1, <2>3 DEF StreamsInv
    <2>5. HandlesInv' /\ PipesInv' /\ EndsInv'
      BY <2>3 DEF HandlesInv, PipesInv, EndsInv
    <2> QED BY <2>2, <2>4, <2>5 DEF RunInv
  <1> QED BY <1>2, <1>5, <1>6 DEF IInv

(* What the streams of a command are, when it can be prepared.              *)
LEMMA StreamsPrepared ==
  ASSUME TypeOK, NEW command \in Command,
         NEW in \in setStdIn(command), NEW out \in setStdOut(command),
         "failed" \notin {in, out}
  PROVE  /\ in \in Streams /\ out \in Streams
         /\ command.in = "pipe" => in = pipeHandles /\ in \in Pipes
         /\ in \in Pipes => command.in = "pipe"
         /\ command.out = "pipe" => out \in FreePipes
         /\ out \in Pipes => command.out = "pipe"
         /\ FreePipes \subseteq Pipes
  <1>1. command.in \in {"standard", "pipe", "file"}
        /\ command.out \in {"standard", "pipe", "file"}
    BY DEF Command
  <1>2. FreePipes \subseteq Pipes BY DEF FreePipes
  <1>3. pipeHandles \in Pipes \cup {"none"} BY DEF TypeOK
  <1>4. in \in Streams /\ (command.in = "pipe" => in = pipeHandles /\ in \in Pipes)
        /\ (in \in Pipes => command.in = "pipe")
    <2>1. CASE command.in = "standard"
      <3>1. in = "console" BY <2>1 DEF setStdIn
      <3> QED BY <2>1, <3>1, NoSymbols DEF Symbols, Streams
    <2>2. CASE command.in = "pipe"
      <3>1. in = IF pipeHandles = "none" THEN "failed" ELSE pipeHandles
        BY <2>2 DEF setStdIn
      <3> QED BY <1>3, <2>2, <3>1 DEF Streams
    <2>3. CASE command.in = "file"
      <3>1. in \in Opened("in", command) BY <2>3 DEF setStdIn
      <3>2. in \in {"file", "invalid"} BY <3>1 DEF Opened
      <3> QED BY <2>3, <3>2, NoSymbols DEF Symbols, Streams
    <2> QED BY <1>1, <2>1, <2>2, <2>3
  <1>5. out \in Streams /\ (command.out = "pipe" => out \in FreePipes)
        /\ (out \in Pipes => command.out = "pipe")
    <2>1. CASE command.out = "standard"
      <3>1. out = "console" BY <2>1 DEF setStdOut
      <3> QED BY <2>1, <3>1, NoSymbols DEF Symbols, Streams
    <2>2. CASE command.out = "pipe"
      <3>1. out = IF FreePipes = {} THEN "failed" ELSE Any(FreePipes)
        BY <2>2 DEF setStdOut
      <3>2. out \in FreePipes BY <3>1 DEF Any
      <3> QED BY <1>2, <2>2, <3>2 DEF Streams
    <2>3. CASE command.out = "file"
      <3>1. out \in Opened("out", command) BY <2>3 DEF setStdOut
      <3>2. out \in {"file", "invalid"} BY <3>1 DEF Opened
      <3> QED BY <2>3, <3>2, NoSymbols DEF Symbols, Streams
    <2> QED BY <1>1, <2>1, <2>2, <2>3
  <1> QED BY <1>2, <1>4, <1>5

(* A pipe that is made is nobody's, neither a command's before nor a        *)
(* process's.                                                               *)
LEMMA FreePipeIsNew ==
  ASSUME TypeOK, NEW k \in FreePipes
  PROVE  /\ <<k, "openRead">> \notin Open /\ <<k, "openWrite">> \notin Open
         /\ \A p \in Pids : procs[p].in # k /\ procs[p].out # k
  <1>1. k \in Pipes /\ <<k, "openRead">> \notin Open /\ <<k, "openWrite">> \notin Open
    <2>1. k \in Pipes /\ ({k} \X {"openRead", "openWrite"}) \cap Open = {}
      BY DEF FreePipes
    <2>2. <<k, "openRead">> \in {k} \X {"openRead", "openWrite"}
          /\ <<k, "openWrite">> \in {k} \X {"openRead", "openWrite"}
      OBVIOUS
    <2> QED BY <2>1, <2>2
  <1> QED BY <1>1, UsedIsOpen

LEMMA PrepareKeeps ==
  ASSUME IInv, PrepareCommand
  PROVE  IInv'
  <1> DEFINE n == Len(toExecute)
  <1>1. step = "prepare" /\ UNCHANGED <<line, procs>> BY DEF PrepareCommand
  <1>2. TypeOK /\ LineInv /\ RunInv BY <1>1 DEF IInv, Executing
  <1>3. at \in 1..Len(line) /\ n = at - 1 /\ n \in Nat /\ at = n + 1
        /\ DOMAIN line = 1..Len(line) /\ DOMAIN toExecute = 1..n /\ Len(line) \in Nat
        /\ line[at] \in Command /\ toExecute \in Seq(Streamed)
    BY <1>1, <1>2, Types DEF RunInv, AtInv
  <1>4. PICK in \in setStdIn(line[at]), out \in setStdOut(line[at]) :
          \/ /\ "failed" \in {in, out}
             /\ step' = "prompt"
             /\ UNCHANGED <<at, pipeHandles, toExecute, held, cells>>
          \/ /\ "failed" \notin {in, out}
             /\ toExecute' = Append(toExecute, [in |-> in, out |-> out, handle |-> "none"])
             /\ IF out \in Pipes
                THEN /\ held' = held \cup ({out} \X {"openRead", "openWrite"})
                     /\ cells' = [cells EXCEPT ![out] = 0]
                     /\ pipeHandles' = out
                ELSE UNCHANGED <<held, cells, pipeHandles>>
             /\ IF at < Len(line) THEN step' = "prepare" /\ at' = at + 1
                ELSE step' = "create" /\ at' = 1
    BY DEF PrepareCommand
  <1>5. CASE "failed" \in {in, out} /\ step' = "prompt"
             /\ UNCHANGED <<at, pipeHandles, toExecute, held, cells>>
    BY <1>1, <1>5, GivesUp
  <1>6. CASE "failed" \notin {in, out}
             /\ toExecute' = Append(toExecute, [in |-> in, out |-> out, handle |-> "none"])
             /\ (IF out \in Pipes
                 THEN /\ held' = held \cup ({out} \X {"openRead", "openWrite"})
                      /\ cells' = [cells EXCEPT ![out] = 0]
                      /\ pipeHandles' = out
                 ELSE UNCHANGED <<held, cells, pipeHandles>>)
             /\ (IF at < Len(line) THEN step' = "prepare" /\ at' = at + 1
                 ELSE step' = "create" /\ at' = 1)
    <2> DEFINE new == [in |-> in, out |-> out, handle |-> "none"]
    <2>1. /\ in \in Streams /\ out \in Streams
          /\ line[at].in = "pipe" => in = pipeHandles /\ in \in Pipes
          /\ in \in Pipes => line[at].in = "pipe"
          /\ line[at].out = "pipe" => out \in FreePipes
          /\ out \in Pipes => line[at].out = "pipe"
          /\ FreePipes \subseteq Pipes
      BY <1>2, <1>3, <1>4, <1>6, StreamsPrepared
    <2>2. new \in Streamed BY <2>1 DEF Streamed
    <2>3. /\ toExecute' \in Seq(Streamed) /\ Len(toExecute') = n + 1
          /\ toExecute'[at] = new /\ \A c \in 1..n : toExecute'[c] = toExecute[c]
          /\ DOMAIN toExecute' = 1..(n + 1)
      <3>1. toExecute' = Append(toExecute, new) BY <1>6
      <3> HIDE DEF new
      <3>2. toExecute' \in Seq(Streamed) /\ Len(toExecute') = n + 1
            /\ toExecute'[n + 1] = new /\ \A c \in 1..n : toExecute'[c] = toExecute[c]
        <4>1. toExecute \in Seq(Streamed) BY <1>3
        <4>2. /\ Append(toExecute, new) \in Seq(Streamed)
              /\ Len(Append(toExecute, new)) = n + 1 /\ Append(toExecute, new)[n + 1] = new
              /\ \A c \in 1..n : Append(toExecute, new)[c] = toExecute[c]
          BY <2>2, <4>1, AppendProperties
        <4> QED BY <3>1, <4>2
      <3> QED BY <1>3, <3>2, LenProperties
    <2>4. step' \in {"prepare", "create"} /\ at' \in 1..Len(line)
          /\ (step' = "prepare" => at' = n + 2) /\ (step' = "create" => n + 1 = Len(line))
      <3>1. PICK m \in Nat : m = Len(line) BY <1>3
      <3> HIDE DEF n
      <3>2. CASE at < Len(line)
        <4>1. step' = "prepare" /\ at' = at + 1 BY <1>6, <3>2
        <4> QED BY <1>3, <3>1, <3>2, <4>1
      <3>3. CASE ~(at < Len(line))
        <4>1. step' = "create" /\ at' = 1 BY <1>6, <3>3
        <4>2. at \in 1..m /\ ~(at < m) /\ at = n + 1 BY <1>3, <3>1, <3>3
        <4>3. n + 1 = m /\ 1 \in 1..m BY <4>2
        <4> QED BY <3>1, <4>1, <4>3
      <3> QED BY <3>2, <3>3
    <2>5. held \subseteq held' /\ held' \subseteq Ends /\ cells' \in [Pipes -> 0..PIPE_SIZE]
          /\ pipeHandles' \in Pipes \cup {"none"}
      <3>1. 0 \in 0..PIPE_SIZE BY ShellAssumption
      <3>2. /\ held \subseteq Ends /\ cells \in [Pipes -> 0..PIPE_SIZE]
            /\ pipeHandles \in Pipes \cup {"none"}
        BY <1>2 DEF TypeOK
      <3>3. CASE out \in Pipes
        <4>1. /\ held' = held \cup ({out} \X {"openRead", "openWrite"})
              /\ cells' = [cells EXCEPT ![out] = 0] /\ pipeHandles' = out
          BY <1>6, <3>3
        <4>2. {out} \X {"openRead", "openWrite"} \subseteq Ends BY <3>3 DEF Ends
        <4> QED BY <3>1, <3>2, <3>3, <4>1, <4>2
      <3>4. CASE out \notin Pipes
        <4>1. UNCHANGED <<held, cells, pipeHandles>> BY <1>6, <3>4
        <4> QED BY <3>2, <4>1
      <3> QED BY <3>3, <3>4
    <2>6. TypeOK'
      <3>1. PICK m \in Nat : m = Len(line) BY <1>3
      <3>2. at' \in 1..m + 1 BY <2>4, <3>1
      <3> QED BY <1>1, <1>2, <2>3, <2>4, <2>5, <3>1, <3>2 DEF TypeOK, Streamed
    <2>7. LineInv' BY <1>1, <1>2 DEF LineInv, Careful
    <2>8. AtInv'
      <3> HIDE DEF n
      <3>1. step' = "prepare" => n + 1 = at' - 1 BY <1>3, <2>4
      <3> QED BY <1>1, <2>3, <2>4, <3>1 DEF AtInv
    <2>9. \A c \in DOMAIN toExecute : toExecute[c].out \in Pipes =>
              <<toExecute[c].out, "openWrite">> \in held /\ toExecute[c].out # out
      <3> SUFFICES ASSUME NEW c \in DOMAIN toExecute, toExecute[c].out \in Pipes
          PROVE  <<toExecute[c].out, "openWrite">> \in held /\ toExecute[c].out # out
        OBVIOUS
      <3>1. ~Closed(c) BY <1>1 DEF Closed
      <3>2. <<toExecute[c].out, "openWrite">> \in held
        BY <1>2, <3>1 DEF RunInv, PipesInv
      <3>3. out \in FreePipes => <<out, "openWrite">> \notin held
        BY <1>2, FreePipeIsNew DEF Open
      <3> QED BY <2>1, <3>2, <3>3
    <2>10. StreamsInv'
      <3>1. ASSUME NEW c \in DOMAIN toExecute'
            PROVE  /\ line'[c].out = "pipe" <=> toExecute'[c].out \in Pipes
                   /\ line'[c].in = "pipe" <=> toExecute'[c].in \in Pipes
                   /\ line'[c].in = "pipe" =>
                         c - 1 \in DOMAIN toExecute' /\ toExecute'[c].in = toExecute'[c - 1].out
                   /\ \A d \in DOMAIN toExecute' :
                        toExecute'[c].out \in Pipes /\ toExecute'[d].out = toExecute'[c].out
                            => d = c
        <4>1. CASE c \in 1..n
          <5>1. toExecute'[c] = toExecute[c] /\ c \in DOMAIN toExecute BY <1>3, <2>3, <4>1
          <5>2. /\ line[c].out = "pipe" <=> toExecute[c].out \in Pipes
                /\ line[c].in = "pipe" <=> toExecute[c].in \in Pipes
                /\ line[c].in = "pipe" =>
                      c - 1 \in DOMAIN toExecute /\ toExecute[c].in = toExecute[c - 1].out
                /\ \A d \in DOMAIN toExecute :
                      toExecute[c].out \in Pipes /\ toExecute[d].out = toExecute[c].out => d = c
            BY <1>2, <5>1 DEF RunInv, StreamsInv
          <5>3. \A d \in DOMAIN toExecute' : d \in DOMAIN toExecute \/ d = at
            BY <1>3, <2>3
          <5>4. c - 1 \in DOMAIN toExecute =>
                    c - 1 \in DOMAIN toExecute' /\ toExecute'[c - 1] = toExecute[c - 1]
            BY <1>3, <2>3
          <5>5. \A d \in DOMAIN toExecute : toExecute'[d] = toExecute[d] BY <1>3, <2>3
          <5>6. toExecute'[at].out = out BY <2>3
          <5>7. \A d \in DOMAIN toExecute' :
                    toExecute'[c].out \in Pipes /\ toExecute'[d].out = toExecute'[c].out => d = c
            BY <2>9, <5>1, <5>2, <5>3, <5>5, <5>6
          <5> QED BY <1>1, <5>1, <5>2, <5>4, <5>7
        <4>2. CASE c = at
          <5>1. toExecute'[c].in = in /\ toExecute'[c].out = out BY <2>3, <4>2
          <5>2. line[c].out = "pipe" <=> out \in Pipes BY <2>1, <4>2
          <5>3. line[c].in = "pipe" <=> in \in Pipes BY <2>1, <4>2
          <5>4. ASSUME line[c].in = "pipe"
                PROVE  c - 1 \in DOMAIN toExecute' /\ in = toExecute'[c - 1].out
            <6>1. c - 1 \in DOMAIN line /\ line[c - 1].out = "pipe"
              BY <1>2, <1>3, <4>2, <5>4 DEF LineInv, Linked
            <6>2. at > 1 /\ c - 1 \in 1..n BY <1>3, <4>2, <6>1
            <6>3. pipeHandles = toExecute[c - 1].out
              BY <1>1, <1>2, <4>2, <6>1, <6>2 DEF RunInv, StreamsInv
            <6>4. in = pipeHandles BY <2>1, <4>2, <5>4
            <6> QED BY <1>3, <2>3, <6>2, <6>3, <6>4
          <5>5. \A d \in DOMAIN toExecute' : out \in Pipes /\ toExecute'[d].out = out => d = c
            <6> SUFFICES ASSUME NEW d \in DOMAIN toExecute', out \in Pipes,
                                toExecute'[d].out = out, d # c
                PROVE  FALSE
              OBVIOUS
            <6>1. d \in 1..n BY <1>3, <2>3, <4>2
            <6>2. toExecute[d].out = out /\ d \in DOMAIN toExecute BY <1>3, <2>3, <6>1
            <6> QED BY <2>9, <6>2
          <5> QED BY <1>1, <5>1, <5>2, <5>3, <5>4, <5>5
        <4> QED BY <1>3, <2>3, <4>1, <4>2
      <3>2. ASSUME step' = "prepare", at' > 1, line'[at' - 1].out = "pipe"
            PROVE  pipeHandles' = toExecute'[at' - 1].out
        <4>1. at' - 1 = at BY <1>3, <2>4, <3>2
        <4>2. out \in Pipes BY <1>1, <2>1, <3>2, <4>1
        <4>3. pipeHandles' = out BY <1>6, <4>2
        <4> QED BY <2>3, <4>1, <4>3
      <3> QED BY <3>1, <3>2 DEF StreamsInv
    <2>11. \A c \in DOMAIN toExecute' : toExecute'[c].handle = "none" /\ ~Closed(c)' /\ ~Made(c)'
      <3> SUFFICES ASSUME NEW c \in DOMAIN toExecute'
          PROVE  toExecute'[c].handle = "none" /\ ~Closed(c)' /\ ~Made(c)'
        OBVIOUS
      <3>1. c >= 1 /\ c \in Nat BY <1>3, <2>3
      <3>2. ~Closed(c)' /\ ~Made(c)'
        <4>1. at' = 1 \/ step' = "prepare" BY <1>6
        <4> QED BY <2>4, <3>1, <4>1 DEF Closed, Made
      <3>3. CASE c = at BY <2>3, <3>2, <3>3
      <3>4. CASE c # at
        <4>1. c \in 1..n BY <1>3, <2>3, <3>4
        <4>2. ~Made(c) /\ c \in DOMAIN toExecute
          BY <1>1, <1>3, <4>1 DEF Made, Closed
        <4>3. toExecute[c].handle = "none" BY <1>2, <4>2 DEF RunInv, HandlesInv
        <4> QED BY <2>3, <3>2, <4>1, <4>3
      <3> QED BY <3>3, <3>4
    <2>12. HandlesInv' BY <2>11, NoSymbols DEF HandlesInv, Symbols
    <2>13. EndsInv' BY <2>11, NoSymbols DEF EndsInv, SawEnd, Symbols
    <2>14. PipesInv'
      <3> SUFFICES ASSUME NEW c \in DOMAIN toExecute', toExecute'[c].out \in Pipes
          PROVE  /\ \A p \in Pids : procs'[p].out # toExecute'[c].out
                 /\ \A p \in Pids : procs'[p].in # toExecute'[c].out
                 /\ <<toExecute'[c].out, "openWrite">> \in held'
        BY <2>11, Zenon DEF PipesInv
      <3>1. CASE c = at
        <4>1. toExecute'[c].out = out BY <2>3, <3>1
        <4>2. out \in FreePipes BY <2>1, <4>1
        <4>3. \A p \in Pids : procs[p].in # out /\ procs[p].out # out
          BY <1>2, <4>2, FreePipeIsNew
        <4>4. <<out, "openWrite">> \in held' BY <1>6, <4>1
        <4> QED BY <1>1, <4>1, <4>3, <4>4
      <3>2. CASE c # at
        <4>1. c \in 1..n BY <1>3, <2>3, <3>2
        <4>2. toExecute'[c] = toExecute[c] /\ c \in DOMAIN toExecute BY <1>3, <2>3, <4>1
        <4>3. \A d \in DOMAIN toExecute : toExecute[d].handle = "none"
          <5> SUFFICES ASSUME NEW d \in DOMAIN toExecute PROVE toExecute[d].handle = "none"
            OBVIOUS
          <5>1. ~Made(d) BY <1>1 DEF Made, Closed
          <5> QED BY <1>2, <5>1 DEF RunInv, HandlesInv
        <4>4. \A p \in Pids : procs[p].out = toExecute[c].out => p = toExecute[c].handle
          BY <1>2, <4>2 DEF RunInv, PipesInv
        <4>5. \A p \in Pids : procs[p].in = toExecute[c].out =>
                  c + 1 \in DOMAIN toExecute /\ p = toExecute[c + 1].handle
          BY <1>2, <4>2 DEF RunInv, PipesInv
        <4>6. \A p \in Pids : p # "none" BY NoSymbols DEF Symbols
        <4>7. <<toExecute[c].out, "openWrite">> \in held' BY <2>5, <2>9, <4>2
        <4> QED BY <1>1, <4>2, <4>3, <4>4, <4>5, <4>6, <4>7
      <3> QED BY <3>1, <3>2
    <2> QED BY <2>6, <2>7, <2>8, <2>10, <2>12, <2>13, <2>14 DEF IInv, RunInv
  <1> QED BY <1>4, <1>5, <1>6

LEMMA CreateKeeps ==
  ASSUME IInv, CreateProcess
  PROVE  IInv'
  <1> DEFINE p == Any(FreePids)
             n == Len(toExecute)
  <1>1. step = "create" /\ step' = "close" /\ line[at].name \in ProgramNames /\ FreePids # {}
        /\ UNCHANGED <<line, at, pipeHandles, held, cells>>
    BY DEF CreateProcess
  <1>2. TypeOK /\ LineInv /\ RunInv BY <1>1 DEF IInv, Executing
  <1>3. PICK process \in Process(line[at].name, Inherited(toExecute[at].in),
                                 Inherited(toExecute[at].out)) :
            procs' = [procs EXCEPT ![p] = process]
    BY DEF CreateProcess
  <1>4. toExecute' = [toExecute EXCEPT ![at].handle = p] BY DEF CreateProcess
  <1>5. p \in Pids /\ procs[p] = NoProcess BY <1>1 DEF Any, FreePids
  <1>6. /\ toExecute \in Seq(Streamed) /\ at \in Nat /\ n \in Nat /\ at \in DOMAIN toExecute
        /\ DOMAIN toExecute = 1..n /\ \A c \in DOMAIN toExecute : toExecute[c] \in Streamed
        /\ procs \in [Pids -> {NoProcess} \cup Program]
    BY <1>1, <1>2, Types DEF RunInv, AtInv
  <1>7. /\ toExecute' \in Seq(Streamed) /\ Len(toExecute') = n /\ DOMAIN toExecute' = 1..n
        /\ \A c \in DOMAIN toExecute :
              /\ toExecute'[c].in = toExecute[c].in /\ toExecute'[c].out = toExecute[c].out
              /\ toExecute'[c].handle = IF c = at THEN p ELSE toExecute[c].handle
    <2> DEFINE e == [toExecute[at] EXCEPT !.handle = p]
    <2>1. e \in Streamed /\ e.in = toExecute[at].in /\ e.out = toExecute[at].out
          /\ e.handle = p
      BY <1>5, <1>6 DEF Streamed
    <2>2. toExecute' = [toExecute EXCEPT ![at] = e] BY <1>4
    <2> HIDE DEF e
    <2>3. /\ toExecute' \in Seq(Streamed) /\ Len(toExecute') = n
          /\ \A c \in 1..n : toExecute'[c] = IF c = at THEN e ELSE toExecute[c]
      BY <1>6, <2>1, <2>2, ExceptSeq
    <2>4. DOMAIN toExecute' = 1..n BY <2>3, LenProperties
    <2> HIDE DEF p
    <2> QED BY <1>6, <2>1, <2>3, <2>4
  <1>8. /\ process \in Program
        /\ process.in = Inherited(toExecute[at].in)
        /\ process.out = Inherited(toExecute[at].out)
        /\ process.state # "reading" => process.kind = "writer"
    <2> DEFINE kind == line[at].name
               in == Inherited(toExecute[at].in)
               out == Inherited(toExecute[at].out)
    <2>1. toExecute[at].in \in Streams /\ toExecute[at].out \in Streams
      BY <1>6 DEF Streamed
    <2>2. in \in Streams \ {"invalid"} /\ out \in Streams \ {"invalid"}
      BY <2>1 DEF Inherited, Streams
    <2>3. kind \in ProgramNames BY <1>1
    <2> HIDE DEF kind, in, out
    <2>4. process \in Process(kind, in, out) BY <1>3 DEF kind, in, out
    <2>5. PICK left \in IF kind = "writer" THEN 0..MaxOutput ELSE {0} :
              process = [kind |-> kind, in |-> in, out |-> out, left |-> left,
                         state |-> IF kind = "writer" THEN "done" ELSE "reading"]
      BY <2>4 DEF Process
    <2>6. left \in 0..MaxOutput + 1 BY <2>5, ShellAssumption
    <2>7. process \in Program BY <2>2, <2>3, <2>5, <2>6 DEF Program
    <2>8. process.in = in /\ process.out = out
          /\ (process.state # "reading" => process.kind = "writer")
      BY <2>5
    <2> QED BY <2>7, <2>8 DEF in, out
  <1>9. procs'[p] = process /\ \A q \in Pids : q # p => procs'[q] = procs[q]
    BY <1>3, <1>5, <1>6
  <1>10. procs' \in [Pids -> {NoProcess} \cup Program]
    BY <1>3, <1>5, <1>6, <1>8
  <1> HIDE DEF p
  <1>11. TypeOK'
    BY <1>1, <1>2, <1>7, <1>10 DEF TypeOK, Streamed, Program
  <1>12. LineInv' BY <1>1, <1>2 DEF LineInv, Careful
  <1>13. AtInv' BY <1>1, <1>2, <1>7 DEF RunInv, AtInv
  <1>14. StreamsInv'
    BY <1>1, <1>2, <1>6, <1>7 DEF RunInv, StreamsInv
  <1>15. /\ \A c : Closed(c)' <=> Closed(c)
         /\ \A c : Made(c)' <=> Made(c) \/ c = at
         /\ \A c : ~Reaped(c) /\ ~Reaped(c)'
         /\ ~Made(at)
    BY <1>1, <1>6 DEF Closed, Made, Reaped
  <1>16. toExecute[at].handle = "none" /\ "none" \notin Pids
    BY <1>2, <1>6, <1>15, NoSymbols DEF RunInv, HandlesInv, Symbols
  <1>17. \A c \in DOMAIN toExecute : toExecute[c].handle # p
    <2> SUFFICES ASSUME NEW c \in DOMAIN toExecute, toExecute[c].handle = p PROVE FALSE
      OBVIOUS
    <2>1. procs[p] \in Program BY <1>2, <1>5, <1>15 DEF RunInv, HandlesInv
    <2> QED BY <1>2, <1>5, <2>1, RunningIsProgram
  <1>18. HandlesInv'
    <2> SUFFICES ASSUME NEW c \in DOMAIN toExecute'
        PROVE  /\ ~Made(c)' => toExecute'[c].handle = "none"
               /\ toExecute'[c].handle \in Pids =>
                    /\ \A d \in DOMAIN toExecute' :
                          toExecute'[d].handle = toExecute'[c].handle => d = c
                    /\ procs'[toExecute'[c].handle] \in Program
                    /\ procs'[toExecute'[c].handle].in = Inherited(toExecute'[c].in)
                    /\ procs'[toExecute'[c].handle].out = Inherited(toExecute'[c].out)
      BY <1>15, Zenon DEF HandlesInv
    <2>1. c \in DOMAIN toExecute BY <1>6, <1>7
    <2>2. CASE c = at
      <3>1. toExecute'[c].handle = p BY <1>7, <2>1, <2>2
      <3>2. \A d \in DOMAIN toExecute' : toExecute'[d].handle = p => d = c
        BY <1>6, <1>7, <1>17, <2>2
      <3> QED BY <1>7, <1>8, <1>9, <1>15, <2>1, <2>2, <3>1, <3>2
    <2>3. CASE c # at
      <3>1. toExecute'[c].handle = toExecute[c].handle BY <1>7, <2>1, <2>3
      <3>2. /\ ~Made(c) => toExecute[c].handle = "none"
            /\ toExecute[c].handle \in Pids =>
                 /\ \A d \in DOMAIN toExecute :
                       toExecute[d].handle = toExecute[c].handle => d = c
                 /\ procs[toExecute[c].handle] \in Program
                 /\ procs[toExecute[c].handle].in = Inherited(toExecute[c].in)
                 /\ procs[toExecute[c].handle].out = Inherited(toExecute[c].out)
        BY <1>2, <1>15, <2>1 DEF RunInv, HandlesInv
      <3>3. toExecute[c].handle # p BY <1>17, <2>1
      <3>4. \A d \in DOMAIN toExecute' :
                toExecute'[d].handle = toExecute[c].handle => d # at
        BY <1>6, <1>7, <3>3
      <3>5. \A d \in DOMAIN toExecute' : d # at => toExecute'[d].handle = toExecute[d].handle
        BY <1>6, <1>7
      <3>6. toExecute[c].handle \in Pids =>
                procs'[toExecute[c].handle] = procs[toExecute[c].handle]
        BY <1>9, <3>3
      <3> QED BY <1>6, <1>7, <1>15, <2>1, <2>3, <3>1, <3>2, <3>4, <3>5, <3>6
    <2> QED BY <2>2, <2>3
  <1>19. PipesInv'
    <2> SUFFICES ASSUME NEW c \in DOMAIN toExecute', toExecute'[c].out \in Pipes
        PROVE  /\ \A q \in Pids : procs'[q].out = toExecute'[c].out => q = toExecute'[c].handle
               /\ \A q \in Pids : procs'[q].in = toExecute'[c].out =>
                     c + 1 \in DOMAIN toExecute' /\ q = toExecute'[c + 1].handle
               /\ <<toExecute'[c].out, "openWrite">> \in held' <=> ~Closed(c)'
               /\ c + 1 \in DOMAIN toExecute' /\ toExecute'[c + 1].in = toExecute'[c].out
                    /\ Closed(c + 1)' => <<toExecute'[c].out, "openRead">> \notin held'
      BY Zenon DEF PipesInv
    <2> DEFINE k == toExecute[c].out
    <2>0. c \in DOMAIN toExecute /\ toExecute'[c].out = k /\ k \in Pipes
          /\ DOMAIN toExecute' = DOMAIN toExecute
      BY <1>6, <1>7
    <2>1. /\ \A q \in Pids : procs[q].out = k => q = toExecute[c].handle
          /\ \A q \in Pids : procs[q].in = k =>
                c + 1 \in DOMAIN toExecute /\ q = toExecute[c + 1].handle
          /\ <<k, "openWrite">> \in held <=> ~Closed(c)
          /\ c + 1 \in DOMAIN toExecute /\ toExecute[c + 1].in = k
               /\ Closed(c + 1) => <<k, "openRead">> \notin held
      BY <1>2, <2>0 DEF RunInv, PipesInv
    <2>2. ASSUME NEW q \in Pids, procs'[q].out = k PROVE q = toExecute'[c].handle
      <3>1. CASE q = p
        <4>1. toExecute[at].out = k BY <1>8, <1>9, <2>0, <2>2, <3>1, InheritedPipe
        <4>2. c = at BY <1>2, <1>6, <2>0, <4>1 DEF RunInv, StreamsInv
        <4> QED BY <1>6, <1>7, <2>0, <3>1, <4>2
      <3>2. CASE q # p
        <4>1. q = toExecute[c].handle BY <1>9, <2>1, <2>2, <3>2
        <4> QED BY <1>7, <1>16, <2>0, <4>1
      <3> QED BY <3>1, <3>2
    <2>3. ASSUME NEW q \in Pids, procs'[q].in = k
          PROVE  c + 1 \in DOMAIN toExecute /\ q = toExecute'[c + 1].handle
      <3>1. CASE q = p
        <4>1. toExecute[at].in = k BY <1>8, <1>9, <2>0, <2>3, <3>1, InheritedPipe
        <4>2. at - 1 \in DOMAIN toExecute /\ k = toExecute[at - 1].out
          BY <1>2, <1>6, <2>0, <4>1 DEF RunInv, StreamsInv
        <4>3. c = at - 1 BY <1>2, <2>0, <4>2 DEF RunInv, StreamsInv
        <4>4. c + 1 = at BY <1>6, <2>0, <4>3
        <4> QED BY <1>6, <1>7, <3>1, <4>4
      <3>2. CASE q # p
        <4>1. c + 1 \in DOMAIN toExecute /\ q = toExecute[c + 1].handle
          BY <1>9, <2>1, <2>3, <3>2
        <4> QED BY <1>7, <1>16, <2>0, <4>1
      <3> QED BY <3>1, <3>2
    <2>4. ASSUME c + 1 \in DOMAIN toExecute', toExecute'[c + 1].in = k, Closed(c + 1)'
          PROVE  <<k, "openRead">> \notin held'
      BY <1>1, <1>7, <1>15, <2>0, <2>1, <2>4
    <2>5. <<k, "openWrite">> \in held' <=> ~Closed(c)' BY <1>1, <1>15, <2>1
    <2> HIDE DEF k
    <2> QED BY <2>0, <2>2, <2>3, <2>4, <2>5
  <1>20. EndsInv'
    <2> SUFFICES ASSUME NEW c \in DOMAIN toExecute', SawEnd(c)'
        PROVE  /\ cells[toExecute'[c - 1].out] = 0
               /\ Closed(c - 1)
               /\ toExecute'[c - 1].handle \notin Pids
      BY <1>1, <1>15 DEF EndsInv
    <2>1. c \in DOMAIN toExecute /\ c \in Nat BY <1>6, <1>7
    <2>2. CASE c = at
      BY <1>7, <1>8, <1>9, <2>1, <2>2 DEF SawEnd
    <2>3. CASE c # at
      <3>1. toExecute'[c].handle = toExecute[c].handle /\ toExecute[c].handle # p
        BY <1>7, <1>17, <2>1, <2>3
      <3>2. SawEnd(c) BY <1>1, <1>9, <1>15, <3>1 DEF SawEnd
      <3>3. cells[toExecute[c - 1].out] = 0 /\ Closed(c - 1)
            /\ toExecute[c - 1].handle \notin Pids
        BY <1>2, <1>15, <2>1, <3>2 DEF RunInv, EndsInv
      <3>4. c - 1 \in DOMAIN toExecute
        BY <1>2, <2>1, <3>2 DEF SawEnd, RunInv, StreamsInv
      <3>5. c - 1 # at BY <1>1, <1>6, <2>1, <3>3 DEF Closed
      <3> QED BY <1>7, <3>3, <3>4, <3>5
    <2> QED BY <2>2, <2>3
  <1> QED BY <1>11, <1>12, <1>13, <1>14, <1>18, <1>19, <1>20 DEF IInv, RunInv

\* A cd is done in the shell itself.
LEMMA ChangeDirectoryKeeps ==
  ASSUME IInv, ChangeDirectory
  PROVE  IInv'
  <1>1. step = "create" /\ step' = "close"
        /\ UNCHANGED <<line, at, pipeHandles, toExecute, held, procs, cells>>
    BY DEF ChangeDirectory
  <1>2. TypeOK /\ LineInv /\ RunInv BY <1>1 DEF IInv, Executing
  <1>3. TypeOK' BY <1>1, <1>2 DEF TypeOK
  <1>4. LineInv' BY <1>1, <1>2 DEF LineInv, Careful
  <1>5. /\ \A c : Closed(c)' <=> Closed(c)
        /\ \A c : Made(c) => Made(c)'
        /\ \A c : ~Reaped(c) /\ ~Reaped(c)'
    BY <1>1 DEF Closed, Made, Reaped
  <1>6. AtInv' BY <1>1, <1>2 DEF RunInv, AtInv
  <1>7. StreamsInv' BY <1>1, <1>2 DEF RunInv, StreamsInv
  <1>8. HandlesInv' BY <1>1, <1>2, <1>5, Zenon DEF RunInv, HandlesInv
  <1>9. PipesInv' BY <1>1, <1>2, <1>5 DEF RunInv, PipesInv
  <1>10. EndsInv' BY <1>1, <1>2, <1>5 DEF RunInv, EndsInv, SawEnd
  <1> QED BY <1>3, <1>4, <1>6, <1>7, <1>8, <1>9, <1>10 DEF IInv, RunInv

LEMMA CloseKeeps ==
  ASSUME IInv, CloseHandles
  PROVE  IInv'
  <1> DEFINE n == Len(toExecute)
  <1>1. step = "close" /\ UNCHANGED <<line, pipeHandles, toExecute, procs, cells>>
        /\ IF "invalid" \in {toExecute[at].in, toExecute[at].out}
           THEN step' = "crashed" /\ UNCHANGED <<at, held>>
           ELSE /\ held' = held \ {ReadEnd, WriteEnd}
                /\ IF at < n THEN step' = "create" /\ at' = at + 1
                   ELSE step' = "wait" /\ at' = 1
    BY DEF CloseHandles, Close
  <1>2. TypeOK /\ LineInv /\ RunInv BY <1>1 DEF IInv, Executing
  <1>3. CASE step' = "crashed" /\ UNCHANGED <<at, held>>
    BY <1>1, <1>3, GivesUp
  <1>4. CASE /\ held' = held \ {ReadEnd, WriteEnd}
             /\ IF at < n THEN step' = "create" /\ at' = at + 1
                ELSE step' = "wait" /\ at' = 1
    <2>1. /\ DOMAIN toExecute = 1..n /\ n \in Nat /\ n = Len(line)
          /\ at \in 1..n /\ at \in DOMAIN toExecute
      BY <1>1, <1>2, Types DEF RunInv, AtInv
    <2> HIDE DEF n
    <2>2. /\ step' \in {"create", "wait"} /\ at' \in 1..n
          /\ step' = "create" => at' = at + 1
          /\ step' = "wait" => at' = 1 /\ at = n
      <3>1. CASE at < n BY <1>4, <2>1, <3>1
      <3>2. CASE ~(at < n) BY <1>4, <2>1, <3>2
      <3> QED BY <3>1, <3>2
    <2>3. held' \subseteq held BY <1>4
    <2>4. TypeOK'
      <3>1. at' \in 1..n + 1 BY <2>1, <2>2
      <3> QED BY <1>1, <1>2, <2>1, <2>2, <2>3, <3>1 DEF TypeOK
    <2>5. LineInv' BY <1>1, <1>2 DEF LineInv, Careful
    <2>6. AtInv'
      BY <1>1, <2>1, <2>2 DEF AtInv, n
    <2>7. StreamsInv' BY <1>1, <1>2, <2>2 DEF RunInv, StreamsInv
    <2>8. \A c \in DOMAIN toExecute :
              /\ Closed(c)' <=> Closed(c) \/ c = at
              /\ Made(c)' <=> Made(c)
              /\ ~Reaped(c) /\ ~Reaped(c)'
      <3> SUFFICES ASSUME NEW c \in DOMAIN toExecute
          PROVE  /\ Closed(c)' <=> Closed(c) \/ c = at
                 /\ Made(c)' <=> Made(c)
                 /\ ~Reaped(c) /\ ~Reaped(c)'
        OBVIOUS
      <3>1. c \in Nat /\ c >= 1 /\ c <= n BY <2>1
      <3>2. CASE step' = "create"
        BY <1>1, <2>1, <2>2, <3>1, <3>2 DEF Closed, Made, Reaped
      <3>3. CASE step' = "wait"
        BY <1>1, <2>1, <2>2, <3>1, <3>3 DEF Closed, Made, Reaped
      <3> QED BY <2>2, <3>2, <3>3
    <2>9. HandlesInv'
      <3> SUFFICES ASSUME NEW c \in DOMAIN toExecute
          PROVE  /\ ~Made(c)' => toExecute[c].handle = "none"
                 /\ toExecute[c].handle \in Pids =>
                      /\ \A d \in DOMAIN toExecute :
                            toExecute[d].handle = toExecute[c].handle => d = c
                      /\ IF Reaped(c)' THEN procs[toExecute[c].handle] = NoProcess
                         ELSE /\ procs[toExecute[c].handle] \in Program
                              /\ procs[toExecute[c].handle].in = Inherited(toExecute[c].in)
                              /\ procs[toExecute[c].handle].out = Inherited(toExecute[c].out)
        BY <1>1, Zenon DEF HandlesInv
      <3> QED BY <1>2, <2>8 DEF RunInv, HandlesInv
    <2>10. PipesInv'
      <3> SUFFICES ASSUME NEW c \in DOMAIN toExecute, toExecute[c].out \in Pipes
          PROVE  /\ <<toExecute[c].out, "openWrite">> \in held' <=> ~Closed(c)'
                 /\ c + 1 \in DOMAIN toExecute /\ toExecute[c + 1].in = toExecute[c].out
                      /\ Closed(c + 1)' => <<toExecute[c].out, "openRead">> \notin held'
        BY <1>1, <1>2 DEF RunInv, PipesInv
      <3> DEFINE k == toExecute[c].out
      <3>1. /\ <<k, "openWrite">> \in held <=> ~Closed(c)
            /\ c + 1 \in DOMAIN toExecute /\ toExecute[c + 1].in = k
                 /\ Closed(c + 1) => <<k, "openRead">> \notin held
        BY <1>2 DEF RunInv, PipesInv
      <3>2. <<k, "openWrite">> \in {ReadEnd, WriteEnd} <=> c = at
        <4>1. toExecute[at].out = k => c = at BY <1>2, <2>1 DEF RunInv, StreamsInv
        <4> QED BY <4>1 DEF ReadEnd, WriteEnd
      <3>3. <<k, "openWrite">> \in held' <=> ~Closed(c)' BY <1>4, <2>8, <3>1, <3>2
      <3>4. ASSUME c + 1 \in DOMAIN toExecute, toExecute[c + 1].in = k, Closed(c + 1)'
            PROVE  <<k, "openRead">> \notin held'
        <4>1. CASE c + 1 = at
          <5>1. <<k, "openRead">> \in {ReadEnd, WriteEnd} BY <3>4, <4>1 DEF ReadEnd
          <5> QED BY <1>4, <5>1
        <4>2. CASE c + 1 # at BY <2>3, <2>8, <3>1, <3>4, <4>2
        <4> QED BY <4>1, <4>2
      <3> QED BY <3>3, <3>4
    <2>11. EndsInv'
      <3> SUFFICES ASSUME NEW c \in DOMAIN toExecute, SawEnd(c)'
          PROVE  /\ cells[toExecute[c - 1].out] = 0
                 /\ Closed(c - 1)'
                 /\ toExecute[c - 1].handle \in Pids => Reaped(c - 1)'
        BY <1>1 DEF EndsInv
      <3>1. SawEnd(c) BY <1>1, <2>8 DEF SawEnd
      <3>2. cells[toExecute[c - 1].out] = 0 /\ Closed(c - 1)
            /\ (toExecute[c - 1].handle \in Pids => Reaped(c - 1))
        BY <1>2, <3>1 DEF RunInv, EndsInv
      <3>3. c - 1 \in DOMAIN toExecute BY <1>2, <3>1 DEF SawEnd, RunInv, StreamsInv
      <3> QED BY <2>8, <3>2, <3>3
    <2> QED BY <2>4, <2>5, <2>6, <2>7, <2>9, <2>10, <2>11 DEF IInv, RunInv
  <1> QED BY <1>1, <1>3, <1>4

LEMMA WaitKeeps ==
  ASSUME IInv, WaitForCommand
  PROVE  IInv'
  <1> DEFINE n == Len(toExecute)
             h == toExecute[at].handle
  <1>1. /\ step = "wait" /\ UNCHANGED <<line, pipeHandles, toExecute, held, cells>>
        /\ \/ h = "none" /\ UNCHANGED procs
           \/ h \in Pids /\ procs' = [procs EXCEPT ![h] = NoProcess]
        /\ IF at < n THEN at' = at + 1 /\ UNCHANGED step
           ELSE step' = "prompt" /\ UNCHANGED at
    BY DEF WaitForCommand
  <1>2. TypeOK /\ LineInv /\ RunInv BY <1>1 DEF IInv, Executing
  <1>3. /\ DOMAIN toExecute = 1..n /\ n \in Nat /\ n = Len(line)
        /\ at \in 1..n /\ at \in DOMAIN toExecute
        /\ procs \in [Pids -> {NoProcess} \cup Program]
    BY <1>1, <1>2, Types DEF RunInv, AtInv
  <1>4. /\ procs' \in [Pids -> {NoProcess} \cup Program]
        /\ \A p \in Pids : procs'[p] = IF p = h THEN NoProcess ELSE procs[p]
    <2>1. CASE h = "none" /\ UNCHANGED procs BY <1>3, <2>1, NoSymbols DEF Symbols
    <2>2. CASE h \in Pids /\ procs' = [procs EXCEPT ![h] = NoProcess] BY <1>3, <2>2
    <2> QED BY <1>1, <2>1, <2>2
  <1> HIDE DEF n, h
  <1>5. at' \in 1..n /\ step' \in {"wait", "prompt"}
        /\ (step' = "wait" => at' = at + 1)
    <2>1. CASE at < n BY <1>1, <1>3, <2>1
    <2>2. CASE ~(at < n) BY <1>1, <1>3, <2>2
    <2> QED BY <2>1, <2>2
  <1>6. TypeOK'
    <2>1. at' \in 1..n + 1 BY <1>3, <1>5
    <2> QED BY <1>1, <1>2, <1>3, <1>4, <1>5, <2>1 DEF TypeOK, Program
  <1>7. LineInv' BY <1>1, <1>2 DEF LineInv, Careful
  <1>8. CASE step' # "wait"
    <2>1. ~Executing' BY <1>5, <1>8 DEF Executing
    <2> QED BY <1>6, <1>7, <2>1 DEF IInv
  <1>9. CASE step' = "wait"
    <2>1. AtInv' BY <1>1, <1>3, <1>5, <1>9 DEF AtInv, n
    <2>2. StreamsInv' BY <1>1, <1>2, <1>9 DEF RunInv, StreamsInv
    <2>3. /\ \A c : Closed(c) /\ Closed(c)' /\ Made(c) /\ Made(c)'
          /\ \A c \in DOMAIN toExecute : Reaped(c)' <=> Reaped(c) \/ c = at
      BY <1>1, <1>3, <1>5, <1>9 DEF Closed, Made, Reaped
    <2>4. HandlesInv'
      <3> SUFFICES ASSUME NEW c \in DOMAIN toExecute, toExecute[c].handle \in Pids
          PROVE  /\ \A d \in DOMAIN toExecute :
                       toExecute[d].handle = toExecute[c].handle => d = c
                 /\ IF Reaped(c)' THEN procs'[toExecute[c].handle] = NoProcess
                    ELSE /\ procs'[toExecute[c].handle] \in Program
                         /\ procs'[toExecute[c].handle].in = Inherited(toExecute[c].in)
                         /\ procs'[toExecute[c].handle].out = Inherited(toExecute[c].out)
        BY <1>1, <2>3, Zenon DEF HandlesInv
      <3>1. /\ \A d \in DOMAIN toExecute :
                  toExecute[d].handle = toExecute[c].handle => d = c
            /\ IF Reaped(c) THEN procs[toExecute[c].handle] = NoProcess
               ELSE /\ procs[toExecute[c].handle] \in Program
                    /\ procs[toExecute[c].handle].in = Inherited(toExecute[c].in)
                    /\ procs[toExecute[c].handle].out = Inherited(toExecute[c].out)
        BY <1>2 DEF RunInv, HandlesInv
      <3>2. CASE c = at
        <4>1. procs'[toExecute[c].handle] = NoProcess BY <1>4, <3>2 DEF h
        <4> QED BY <2>3, <3>1, <3>2, <4>1
      <3>3. CASE c # at
        <4>1. toExecute[c].handle # h BY <1>3, <3>1, <3>3 DEF h
        <4>2. procs'[toExecute[c].handle] = procs[toExecute[c].handle] BY <1>4, <4>1
        <4> QED BY <2>3, <3>1, <3>3, <4>2
      <3> QED BY <3>2, <3>3
    <2>5. PipesInv'
      <3>1. \A p \in Pids, k \in Pipes :
                /\ procs'[p].in = k => procs[p].in = k
                /\ procs'[p].out = k => procs[p].out = k
        BY <1>2, <1>4, RunningIsProgram
      <3> QED BY <1>1, <1>2, <2>3, <3>1 DEF RunInv, PipesInv
    <2>6. EndsInv'
      <3> SUFFICES ASSUME NEW c \in DOMAIN toExecute, SawEnd(c)'
          PROVE  /\ cells[toExecute[c - 1].out] = 0
                 /\ toExecute[c - 1].handle \in Pids => Reaped(c - 1)'
        BY <1>1, <2>3 DEF EndsInv
      <3>1. c # at /\ ~Reaped(c) /\ toExecute[c].handle \in Pids
        BY <1>1, <2>3 DEF SawEnd
      <3>2. toExecute[c].handle # h
        BY <1>2, <1>3, <3>1 DEF RunInv, HandlesInv, h
      <3>3. procs'[toExecute[c].handle] = procs[toExecute[c].handle] BY <1>4, <3>1, <3>2
      <3>4. SawEnd(c) BY <1>1, <3>1, <3>3 DEF SawEnd
      <3>5. cells[toExecute[c - 1].out] = 0
            /\ (toExecute[c - 1].handle \in Pids => Reaped(c - 1))
        BY <1>2, <3>4 DEF RunInv, EndsInv
      <3>6. c - 1 \in DOMAIN toExecute BY <1>2, <3>4 DEF SawEnd, RunInv, StreamsInv
      <3> QED BY <2>3, <3>5, <3>6
    <2> QED BY <1>6, <1>7, <2>1, <2>2, <2>4, <2>5, <2>6 DEF IInv, RunInv
  <1> QED BY <1>8, <1>9
-----------------------------------------------------------------------------
(* The programs' steps.                                                     *)

(* A program that goes on, or the cells of a pipe that change, disturb      *)
(* nothing of what the shell knows but what is said of the ends of pipes.   *)
LEMMA ProgramGoesOn ==
  ASSUME IInv, UNCHANGED <<executor, held>>,
         cells' \in [Pipes -> 0..PIPE_SIZE],
         procs' \in [Pids -> {NoProcess} \cup Program],
         \A q \in Pids : /\ procs'[q].in = procs[q].in /\ procs'[q].out = procs[q].out
                         /\ procs[q] \in Program => procs'[q] \in Program
                         /\ procs[q] = NoProcess => procs'[q] = NoProcess,
         Executing /\ RunInv => EndsInv'
  PROVE  IInv'
  <1>1. UNCHANGED <<line, step, at, pipeHandles, toExecute>> BY DEF executor
  <1>2. TypeOK' BY <1>1 DEF IInv, TypeOK, Program
  <1>3. LineInv' BY <1>1 DEF IInv, LineInv, Careful
  <1>4. ASSUME Executing' PROVE RunInv'
    <2>1. Executing /\ RunInv BY <1>1, <1>4 DEF Executing, IInv
    <2>2. \A c : /\ Closed(c)' <=> Closed(c)
                 /\ Made(c)' <=> Made(c)
                 /\ Reaped(c)' <=> Reaped(c)
      BY <1>1 DEF Closed, Made, Reaped
    <2>3. AtInv' BY <1>1, <2>1 DEF RunInv, AtInv
    <2>4. StreamsInv' BY <1>1, <2>1 DEF RunInv, StreamsInv
    <2>5. HandlesInv' BY <1>1, <2>1, <2>2 DEF RunInv, HandlesInv
    <2>6. PipesInv' BY <1>1, <2>1, <2>2 DEF RunInv, PipesInv
    <2> QED BY <2>1, <2>3, <2>4, <2>5, <2>6 DEF RunInv
  <1> QED BY <1>2, <1>3, <1>4 DEF IInv

\* What Change does to a program.
LEMMA ChangeEffect ==
  ASSUME TypeOK, NEW p \in Pids, procs[p] \in Program,
         NEW state \in {"reading", "done", "ended"}, NEW left \in 0..MaxOutput + 1,
         Change(p, state, left)
  PROVE  /\ procs' \in [Pids -> {NoProcess} \cup Program]
         /\ \A q \in Pids : /\ procs'[q].in = procs[q].in /\ procs'[q].out = procs[q].out
                            /\ procs'[q].kind = procs[q].kind
                            /\ procs[q] \in Program => procs'[q] \in Program
                            /\ procs[q] = NoProcess => procs'[q] = NoProcess
                            /\ q # p => procs'[q] = procs[q]
         /\ procs'[p].state = state
  <1> DEFINE r == [procs[p] EXCEPT !.state = state, !.left = left]
  <1>1. procs \in [Pids -> {NoProcess} \cup Program] BY Types
  <1>2. procs' = [procs EXCEPT ![p] = r] BY <1>1 DEF Change
  <1>3. r \in Program /\ r.in = procs[p].in /\ r.out = procs[p].out
        /\ r.kind = procs[p].kind /\ r.state = state
    BY DEF Program
  <1> HIDE DEF r
  <1>4. procs[p] # NoProcess BY RunningIsProgram
  <1> QED BY <1>1, <1>2, <1>3, <1>4

LEMMA ReadKeeps ==
  ASSUME IInv, NEW p \in Pids, ReadCell(p)
  PROVE  IInv'
  <1> DEFINE k == procs[p].in
  <1>1. /\ k \in Pipes /\ cells[k] > 0 /\ cells' = [cells EXCEPT ![k] = @ - 1]
        /\ UNCHANGED <<executor, held, procs>>
    BY DEF ReadCell
  <1>2. procs \in [Pids -> {NoProcess} \cup Program] /\ cells \in [Pipes -> 0..PIPE_SIZE]
    BY Types DEF IInv
  <1>3. cells' \in [Pipes -> 0..PIPE_SIZE]
    <2>1. cells[k] - 1 \in 0..PIPE_SIZE BY <1>1, <1>2, ShellAssumption
    <2> QED BY <1>1, <1>2, <2>1
  <1>4. ASSUME Executing, RunInv PROVE EndsInv'
    <2> SUFFICES ASSUME NEW c \in DOMAIN toExecute, SawEnd(c)
        PROVE  cells'[toExecute[c - 1].out] = 0
      BY <1>1, <1>4 DEF RunInv, EndsInv, SawEnd, Closed, Reaped, executor
    <2>1. cells[toExecute[c - 1].out] = 0 BY <1>4 DEF RunInv, EndsInv
    <2>2. toExecute[c - 1].out \in Pipes BY <1>4 DEF RunInv, StreamsInv, SawEnd
    <2> QED BY <1>1, <1>2, <2>1, <2>2
  <1> QED BY <1>1, <1>2, <1>3, <1>4, ProgramGoesOn

(* The program that has seen the end of a pipe is the one behind a command  *)
(* that has been awaited, or that has no process, since a process keeps its *)
(* ends open until it is awaited.                                           *)
LEMMA EndIsSeen ==
  ASSUME IInv, Executing, RunInv, NEW p \in Pids,
         \/ procs[p].in \in {"file", "console"}
         \/ /\ procs[p].in \in Pipes
            /\ cells[procs[p].in] = 0 /\ <<procs[p].in, "openWrite">> \notin Open,
         NEW c \in DOMAIN toExecute, toExecute[c].handle = p,
         line[c].in = "pipe", ~Reaped(c)
  PROVE  /\ cells[toExecute[c - 1].out] = 0
         /\ Closed(c - 1)
         /\ toExecute[c - 1].handle \in Pids => Reaped(c - 1)
  <1> DEFINE k == toExecute[c - 1].out
  <1>1. c - 1 \in DOMAIN toExecute /\ toExecute[c].in = k /\ k \in Pipes
    BY DEF RunInv, StreamsInv
  <1>2. procs[p].in = k BY <1>1, InheritedPipe DEF RunInv, HandlesInv
  <1>3. cells[k] = 0 /\ <<k, "openWrite">> \notin Open
    BY <1>1, <1>2, NoSymbols DEF Symbols
  <1>4. Closed(c - 1)
    BY <1>1, <1>3 DEF RunInv, PipesInv, Open
  <1>5. ASSUME toExecute[c - 1].handle \in Pids, ~Reaped(c - 1) PROVE FALSE
    <2>1. procs[toExecute[c - 1].handle].out = k
      BY <1>1, <1>5, InheritedPipe DEF RunInv, HandlesInv
    <2> QED BY <1>1, <1>3, <1>5, <2>1, UsedIsOpen
  <1> QED BY <1>3, <1>4, <1>5

LEMMA SeeEndKeeps ==
  ASSUME IInv, NEW p \in Pids, Reads(p), SeeEnd(p),
         \/ procs[p].in \in {"file", "console"}
         \/ /\ procs[p].in \in Pipes
            /\ cells[procs[p].in] = 0 /\ <<procs[p].in, "openWrite">> \notin Open
  PROVE  IInv'
  <1>1. TypeOK /\ procs[p] \in Program BY RunningIsProgram DEF IInv, Reads
  <1>2. PICK left \in IF procs[p].kind = "filter" THEN 0..MaxOutput ELSE {procs[p].left} :
            Change(p, "done", left)
    BY DEF SeeEnd
  <1>3. UNCHANGED <<executor, held, cells>> BY DEF SeeEnd
  <1>4. left \in 0..MaxOutput + 1
    <2>1. procs[p].left \in 0..MaxOutput + 1 BY <1>1 DEF Program
    <2> QED BY <1>2, <2>1, ShellAssumption
  <1>5. /\ procs' \in [Pids -> {NoProcess} \cup Program]
        /\ \A q \in Pids : /\ procs'[q].in = procs[q].in /\ procs'[q].out = procs[q].out
                           /\ procs'[q].kind = procs[q].kind
                           /\ procs[q] \in Program => procs'[q] \in Program
                           /\ procs[q] = NoProcess => procs'[q] = NoProcess
                           /\ q # p => procs'[q] = procs[q]
    BY <1>1, <1>2, <1>4, ChangeEffect
  <1>6. ASSUME Executing, RunInv PROVE EndsInv'
    <2> SUFFICES ASSUME NEW c \in DOMAIN toExecute, SawEnd(c)'
        PROVE  /\ cells[toExecute[c - 1].out] = 0
               /\ Closed(c - 1)
               /\ toExecute[c - 1].handle \in Pids => Reaped(c - 1)
      BY <1>3 DEF EndsInv, Closed, Reaped, executor
    <2>1. line[c].in = "pipe" /\ toExecute[c].handle \in Pids /\ ~Reaped(c)
          /\ procs'[toExecute[c].handle].kind # "writer"
          /\ procs'[toExecute[c].handle].state # "reading"
      BY <1>3 DEF SawEnd, Reaped, executor
    <2>2. CASE toExecute[c].handle = p BY <1>6, <2>1, <2>2, EndIsSeen
    <2>3. CASE toExecute[c].handle # p
      <3>1. SawEnd(c) BY <1>5, <2>1, <2>3 DEF SawEnd
      <3> QED BY <1>6, <3>1 DEF RunInv, EndsInv
    <2> QED BY <2>2, <2>3
  <1>7. cells' \in [Pipes -> 0..PIPE_SIZE] BY <1>1, <1>3, Types
  <1> QED BY <1>3, <1>5, <1>6, <1>7, ProgramGoesOn

LEMMA GenerateKeeps ==
  ASSUME IInv, NEW p \in Pids, Generate(p)
  PROVE  IInv'
  <1>1. TypeOK /\ procs[p] \in Program /\ procs[p].state = "reading"
    BY RunningIsProgram DEF IInv, Generate, Reads
  <1>2. Change(p, "reading", 1) /\ UNCHANGED <<executor, held, cells>> BY DEF Generate
  <1>3. 1 \in 0..MaxOutput + 1 BY ShellAssumption
  <1>4. /\ procs' \in [Pids -> {NoProcess} \cup Program]
        /\ \A q \in Pids : /\ procs'[q].in = procs[q].in /\ procs'[q].out = procs[q].out
                           /\ procs'[q].kind = procs[q].kind
                           /\ procs[q] \in Program => procs'[q] \in Program
                           /\ procs[q] = NoProcess => procs'[q] = NoProcess
                           /\ q # p => procs'[q] = procs[q]
        /\ procs'[p].state = "reading"
    BY <1>1, <1>2, <1>3, ChangeEffect
  <1>5. ASSUME Executing, RunInv PROVE EndsInv'
    <2>1. \A c \in DOMAIN toExecute : SawEnd(c)' => SawEnd(c)
      BY <1>2, <1>4 DEF SawEnd, Reaped, executor
    <2> QED BY <1>2, <1>5, <2>1 DEF RunInv, EndsInv, Closed, Reaped, executor
  <1>6. cells' \in [Pipes -> 0..PIPE_SIZE] BY <1>1, <1>2, Types
  <1> QED BY <1>2, <1>4, <1>5, <1>6, ProgramGoesOn

LEMMA EndProgramKeeps ==
  ASSUME IInv, NEW p \in Pids, EndProgram(p)
  PROVE  IInv'
  <1>1. TypeOK /\ procs[p] \in Program /\ procs[p].state = "done"
    BY RunningIsProgram DEF IInv, EndProgram
  <1>2. Change(p, "ended", 0) /\ UNCHANGED <<executor, held, cells>> BY DEF EndProgram
  <1>3. 0 \in 0..MaxOutput + 1 BY ShellAssumption
  <1>4. /\ procs' \in [Pids -> {NoProcess} \cup Program]
        /\ \A q \in Pids : /\ procs'[q].in = procs[q].in /\ procs'[q].out = procs[q].out
                           /\ procs'[q].kind = procs[q].kind
                           /\ procs[q] \in Program => procs'[q] \in Program
                           /\ procs[q] = NoProcess => procs'[q] = NoProcess
                           /\ q # p => procs'[q] = procs[q]
        /\ procs'[p].state = "ended"
    BY <1>1, <1>2, <1>3, ChangeEffect
  <1>5. ASSUME Executing, RunInv PROVE EndsInv'
    <2>1. \A c \in DOMAIN toExecute : SawEnd(c)' => SawEnd(c)
      BY <1>1, <1>2, <1>4 DEF SawEnd, Reaped, executor
    <2> QED BY <1>2, <1>5, <2>1 DEF RunInv, EndsInv, Closed, Reaped, executor
  <1>6. cells' \in [Pipes -> 0..PIPE_SIZE] BY <1>1, <1>2, Types
  <1> QED BY <1>2, <1>4, <1>5, <1>6, ProgramGoesOn

(* Nobody writes into a pipe whose end has been seen: the only process that *)
(* could is gone.                                                           *)
LEMMA WriteKeeps ==
  ASSUME IInv, NEW p \in Pids, WriteCell(p)
  PROVE  IInv'
  <1> DEFINE k == procs[p].out
             abandoned == k \notin Pipes \/ <<k, "openRead">> \notin Open
  <1>1. /\ procs[p].left > 0 /\ Change(p, procs[p].state, procs[p].left - 1)
        /\ UNCHANGED <<executor, held>>
        /\ \/ abandoned /\ UNCHANGED cells
           \/ ~abandoned /\ cells[k] < PIPE_SIZE /\ cells' = [cells EXCEPT ![k] = @ + 1]
    BY DEF WriteCell
  <1>2. TypeOK /\ procs[p] \in Program BY <1>1, RunningIsProgram DEF IInv
  <1>3. procs[p].state \in {"reading", "done", "ended"}
        /\ procs[p].left - 1 \in 0..MaxOutput + 1
    <2>1. procs[p].state \in {"reading", "done", "ended"}
          /\ procs[p].left \in 0..MaxOutput + 1
      BY <1>2 DEF Program
    <2>2. MaxOutput \in Nat BY ShellAssumption
    <2> QED BY <1>1, <2>1, <2>2
  <1>4. /\ procs' \in [Pids -> {NoProcess} \cup Program]
        /\ \A q \in Pids : /\ procs'[q].in = procs[q].in /\ procs'[q].out = procs[q].out
                           /\ procs'[q].kind = procs[q].kind
                           /\ procs[q] \in Program => procs'[q] \in Program
                           /\ procs[q] = NoProcess => procs'[q] = NoProcess
                           /\ q # p => procs'[q] = procs[q]
        /\ procs'[p].state = procs[p].state
    BY <1>1, <1>2, <1>3, ChangeEffect
  <1>5. cells \in [Pipes -> 0..PIPE_SIZE] BY <1>2, Types
  <1>6. cells' \in [Pipes -> 0..PIPE_SIZE]
        /\ \A j \in Pipes : j # k => cells'[j] = cells[j]
    <2>1. CASE UNCHANGED cells BY <1>5, <2>1
    <2>2. CASE ~abandoned /\ cells[k] < PIPE_SIZE /\ cells' = [cells EXCEPT ![k] = @ + 1]
      <3>1. k \in Pipes BY <2>2
      <3>2. cells[k] + 1 \in 0..PIPE_SIZE BY <1>5, <2>2, <3>1, ShellAssumption
      <3> QED BY <1>5, <2>2, <3>1, <3>2
    <2> QED BY <1>1, <2>1, <2>2
  <1>7. ASSUME Executing, RunInv PROVE EndsInv'
    <2>1. ASSUME NEW c \in DOMAIN toExecute, SawEnd(c)'
          PROVE  SawEnd(c)
      BY <1>1, <1>4, <2>1 DEF SawEnd, Reaped, executor
    <2>2. ASSUME NEW c \in DOMAIN toExecute, SawEnd(c)
          PROVE  cells'[toExecute[c - 1].out] = cells[toExecute[c - 1].out]
      <3>1. toExecute[c - 1].out \in Pipes /\ c - 1 \in DOMAIN toExecute
        BY <1>7, <2>2 DEF RunInv, StreamsInv, SawEnd
      <3>2. toExecute[c - 1].out # k
        <4> SUFFICES ASSUME toExecute[c - 1].out = k PROVE FALSE OBVIOUS
        <4>1. p = toExecute[c - 1].handle BY <1>7, <3>1 DEF RunInv, PipesInv
        <4>2. Reaped(c - 1) BY <1>7, <2>2, <4>1 DEF RunInv, EndsInv
        <4>3. procs[p] = NoProcess BY <1>7, <3>1, <4>1, <4>2 DEF RunInv, HandlesInv
        <4> QED BY <1>2, <4>3, RunningIsProgram
      <3> QED BY <1>6, <3>1, <3>2
    <2> QED BY <1>1, <1>7, <2>1, <2>2 DEF RunInv, EndsInv, Closed, Reaped, executor
  <1> QED BY <1>1, <1>4, <1>6, <1>7, ProgramGoesOn
-----------------------------------------------------------------------------
LEMMA StepKeeps ==
  ASSUME IInv, [Next]_vars
  PROVE  IInv'
  <1>1. CASE UNCHANGED vars
    <2>1. UNCHANGED <<executor, held, procs, cells>> BY <1>1 DEF vars
    <2>2. UNCHANGED <<line, step, at, pipeHandles, toExecute>> BY <2>1 DEF executor
    <2>3. TypeOK' /\ LineInv' BY <2>1, <2>2 DEF IInv, TypeOK, LineInv, Careful
    <2>4. Executing' => Executing BY <2>2 DEF Executing
    <2>5. /\ \A c : Closed(c)' <=> Closed(c)
          /\ \A c : Made(c)' <=> Made(c)
          /\ \A c : Reaped(c)' <=> Reaped(c)
      BY <2>2 DEF Closed, Made, Reaped
    <2>6. RunInv => AtInv' /\ StreamsInv'
      BY <2>2 DEF RunInv, AtInv, StreamsInv
    <2>7. RunInv => HandlesInv' BY <2>1, <2>2, <2>5, Zenon DEF RunInv, HandlesInv
    <2>8. RunInv => PipesInv' BY <2>1, <2>2, <2>5 DEF RunInv, PipesInv
    <2>9. RunInv => EndsInv' BY <2>1, <2>2, <2>5 DEF RunInv, EndsInv, SawEnd
    <2> QED BY <2>3, <2>4, <2>6, <2>7, <2>8, <2>9 DEF IInv, RunInv
  <1>2. CASE ReadLine BY <1>2, ReadLineKeeps
  <1>3. CASE LeaveShell BY <1>3, GivesUp DEF LeaveShell
  <1>4. CASE RunLine
    <2>1. CASE RejectCommand BY <2>1, GivesUp DEF RejectCommand
    <2>2. CASE FailCommand BY <2>2, GivesUp DEF FailCommand
    <2> QED
      BY <1>4, <2>1, <2>2, PrepareKeeps, CreateKeeps, ChangeDirectoryKeeps, CloseKeeps,
         WaitKeeps
      DEF RunLine
  <1>5. CASE Stopped BY <1>1, <1>5 DEF Stopped
  <1>6. ASSUME NEW p \in Pids, Main(p) \/ Writer(p) \/ EndOfConsole(p) PROVE IInv'
    <2>1. CASE ReadCell(p) BY <2>1, ReadKeeps
    <2>2. CASE EndOfInput(p) BY <2>2, SeeEndKeeps DEF EndOfInput
    <2>3. CASE EndOfConsole(p) BY <2>3, SeeEndKeeps DEF EndOfConsole
    <2>4. CASE EndProgram(p) BY <2>4, EndProgramKeeps
    <2>5. CASE Generate(p) BY <2>5, GenerateKeeps
    <2>6. CASE WriteCell(p) BY <2>6, WriteKeeps
    <2> QED BY <1>6, <2>1, <2>2, <2>3, <2>4, <2>5, <2>6 DEF Main, Writer
  <1> QED BY <1>1, <1>2, <1>3, <1>4, <1>5, <1>6 DEF Next

(* shell_executor.cpp, shell_parser.cpp: whatever the lines, the loops over  *)
(* the commands stay within the line, a command has its streams and at most *)
(* one process, and no pipe is fuller than it can be.                       *)
THEOREM ShellTypeCorrect == Spec => []TypeOK
  <1>1. IInv => TypeOK BY DEF IInv
  <1> QED BY <1>1, InitHolds, StepKeeps, PTL DEF Spec

(* shell_executor.cpp:167, process.cpp:698: whatever the lines, a program   *)
(* sees the end of the pipe in front of it only when the program before it  *)
(* has ended and the pipe is empty, and nothing is written into it later.   *)
THEOREM EndsOfInputAreTrue == Spec => []EndOfInputIsTrue
  <1>1. ASSUME IInv PROVE EndOfInputIsTrue
    <2> SUFFICES ASSUME Executing, NEW c \in 2..Len(toExecute),
                        line[c].in = "pipe", toExecute[c].handle \in Pids,
                        ~(step = "wait" /\ at > c),
                        procs[toExecute[c].handle].kind # "writer",
                        procs[toExecute[c].handle].state # "reading"
        PROVE  /\ procs[toExecute[c].handle].in = toExecute[c - 1].out
               /\ cells[procs[toExecute[c].handle].in] = 0
               /\ \/ step = "wait" /\ at > c - 1
                  \/ toExecute[c - 1].handle = "none"
                  \/ procs[toExecute[c - 1].handle].state = "ended"
      BY DEF EndOfInputIsTrue
    <2>1. TypeOK /\ RunInv BY <1>1 DEF IInv
    <2>2. /\ c \in DOMAIN toExecute /\ c \in Nat /\ at \in Nat
          /\ \A d \in DOMAIN toExecute : toExecute[d] \in Streamed
      BY <2>1, Types
    <2>3. ~Reaped(c) BY <2>2 DEF Reaped
    <2>4. SawEnd(c) BY <2>3 DEF SawEnd
    <2>5. /\ c - 1 \in DOMAIN toExecute /\ toExecute[c].in = toExecute[c - 1].out
          /\ toExecute[c].in \in Pipes
      BY <2>1, <2>2 DEF RunInv, StreamsInv
    <2>6. procs[toExecute[c].handle].in = toExecute[c - 1].out
      BY <2>1, <2>2, <2>3, <2>5, InheritedPipe DEF RunInv, HandlesInv
    <2>7. cells[toExecute[c - 1].out] = 0
          /\ (toExecute[c - 1].handle \in Pids => Reaped(c - 1))
      BY <2>1, <2>2, <2>4 DEF RunInv, EndsInv
    <2>8. toExecute[c - 1].handle \in Pids \/ toExecute[c - 1].handle = "none"
      BY <2>2, <2>5 DEF Streamed
    <2> QED BY <2>2, <2>6, <2>7, <2>8 DEF Reaped
  <1> QED BY <1>1, InitHolds, StepKeeps, PTL DEF Spec

(* The hypothesis of the last theorem, and of the run of Shell.cfg that     *)
(* checks its property: what is piped is piped into a command.              *)
PipesLeadSomewhere == "dangling pipes" \notin Liberties

(* shell_executor.cpp:138, 155: if what is piped is piped into a command,   *)
(* a line that has been run to its end has awaited each process it started  *)
(* and leaves no end of its pipes open.                                     *)
THEOREM LinesLeaveNothing == PipesLeadSomewhere => (Spec => NothingLeftBehind)
  <1> SUFFICES ASSUME PipesLeadSomewhere PROVE Spec => NothingLeftBehind OBVIOUS
  <1>1. ASSUME IInv, [Next]_vars, step = "wait", step' = "prompt"
        PROVE  /\ \A p \in Started : procs'[p] = NoProcess
               /\ \A c \in DOMAIN toExecute :
                     ({toExecute[c].in, toExecute[c].out} \X {"openRead", "openWrite"})
                         \cap Open' = {}
    <2>1. TypeOK /\ LineInv /\ RunInv BY <1>1 DEF IInv, Executing
    <2>2. WaitForCommand
      <3>1. ~(UNCHANGED step) BY <1>1
      <3>2. \A p \in Pids : Main(p) \/ Writer(p) \/ EndOfConsole(p) => UNCHANGED step
        BY DEF Main, Writer, EndOfConsole, ReadCell, EndOfInput, EndProgram, Generate,
               WriteCell, SeeEnd, executor
      <3>3. ~ReadLine /\ ~LeaveShell /\ ~Stopped
        BY <1>1, <3>1 DEF ReadLine, LeaveShell, Stopped, vars, executor
      <3>4. /\ ~RejectCommand /\ ~PrepareCommand /\ ~CreateProcess /\ ~ChangeDirectory
            /\ ~FailCommand /\ ~CloseHandles
        BY <1>1 DEF RejectCommand, PrepareCommand, CreateProcess, ChangeDirectory,
                    FailCommand, CloseHandles, Close
      <3>5. Next BY <1>1, <3>1 DEF vars, executor
      <3> QED BY <3>1, <3>2, <3>3, <3>4, <3>5 DEF Next, RunLine
    <2> DEFINE n == Len(toExecute)
               h == toExecute[at].handle
    <2>3. /\ DOMAIN toExecute = 1..n /\ n \in Nat /\ n = Len(line) /\ at \in 1..n
          /\ DOMAIN line = 1..n
          /\ procs \in [Pids -> {NoProcess} \cup Program] /\ held \subseteq Ends
      BY <1>1, <2>1, Types DEF RunInv, AtInv
    <2>4. UNCHANGED <<line, toExecute, held>> /\ ~(at < n)
          /\ \/ h = "none" /\ UNCHANGED procs
             \/ h \in Pids /\ procs' = [procs EXCEPT ![h] = NoProcess]
      BY <1>1, <2>2 DEF WaitForCommand
    <2> HIDE DEF n, h
    <2>5. /\ at = n
          /\ \A p \in Pids : procs'[p] = IF p = h THEN NoProcess ELSE procs[p]
      <3>1. PICK m \in Nat : m = n BY <2>3
      <3>2. at \in 1..m /\ ~(at < m) BY <2>3, <2>4, <3>1
      <3>3. at = n BY <3>1, <3>2
      <3>4. CASE h = "none" /\ UNCHANGED procs BY <3>3, <3>4, NoSymbols DEF Symbols
      <3>5. CASE h \in Pids /\ procs' = [procs EXCEPT ![h] = NoProcess]
        BY <2>3, <3>3, <3>5
      <3> QED BY <2>4, <3>4, <3>5
    <2>6. ASSUME NEW c \in DOMAIN toExecute, toExecute[c].handle \in Pids
          PROVE  procs'[toExecute[c].handle] = NoProcess
      <3>1. CASE c = at BY <2>5, <2>6, <3>1 DEF h
      <3>2. CASE c # at
        <4>0. PICK m \in Nat : m = n BY <2>3
        <4>1. c < at
          <5>1. c \in 1..m /\ at = m BY <2>3, <2>5, <4>0
          <5> QED BY <3>2, <5>1
        <4>2. Reaped(c) BY <1>1, <4>1 DEF Reaped
        <4>3. procs[toExecute[c].handle] = NoProcess
          BY <2>1, <2>6, <4>2 DEF RunInv, HandlesInv
        <4> QED BY <2>5, <2>6, <4>3
      <3> QED BY <3>1, <3>2
    <2>7. \A p \in Started : procs'[p] = NoProcess BY <2>6 DEF Started
    <2>8. Open' \subseteq Ends BY <2>3, <2>4 DEF Open, Using
    <2>9. ASSUME NEW p \in Pids, procs'[p] # NoProcess,
                 NEW c \in DOMAIN toExecute, toExecute[c].out \in Pipes
          PROVE  procs'[p].in # toExecute[c].out /\ procs'[p].out # toExecute[c].out
      <3>1. procs'[p] = procs[p] BY <2>5, <2>9
      <3>2. \A d \in DOMAIN toExecute : p # toExecute[d].handle BY <2>6, <2>9
      <3>3. /\ procs[p].out = toExecute[c].out => p = toExecute[c].handle
            /\ procs[p].in = toExecute[c].out =>
                  c + 1 \in DOMAIN toExecute /\ p = toExecute[c + 1].handle
        BY <2>1, <2>9 DEF RunInv, PipesInv
      <3> QED BY <2>9, <3>1, <3>2, <3>3
    <2>10. ASSUME NEW c \in DOMAIN toExecute, toExecute[c].out \in Pipes
           PROVE  <<toExecute[c].out, "openRead">> \notin Open'
                  /\ <<toExecute[c].out, "openWrite">> \notin Open'
      <3> DEFINE k == toExecute[c].out
      <3>1. <<k, "openWrite">> \notin held
        BY <1>1, <2>1, <2>10 DEF RunInv, PipesInv, Closed
      <3>2. <<k, "openRead">> \notin held
        <4>1. line[c].out = "pipe" BY <2>1, <2>10 DEF RunInv, StreamsInv
        <4>2. c < Len(line) /\ line[c + 1].in = "pipe"
          BY <2>1, <2>3, <4>1 DEF LineInv, Careful, PipesLeadSomewhere
        <4>3. PICK d : d = c + 1 OBVIOUS
        <4>4. d \in DOMAIN toExecute /\ d - 1 = c
          <5>1. PICK m \in Nat : m = n BY <2>3
          <5>2. c \in 1..m /\ c < m BY <2>3, <4>2, <5>1
          <5>3. d \in 1..m /\ d - 1 = c BY <4>3, <5>2
          <5> QED BY <2>3, <5>1, <5>3
        <4>5. toExecute[d].in = toExecute[d - 1].out
          BY <2>1, <4>2, <4>3, <4>4 DEF RunInv, StreamsInv
        <4>6. toExecute[d].in = k BY <4>4, <4>5
        <4> QED BY <1>1, <2>1, <2>10, <4>3, <4>4, <4>6 DEF RunInv, PipesInv, Closed
      <3>3. ASSUME NEW p \in Pids PROVE procs'[p].in # k /\ procs'[p].out # k
        <4>1. CASE procs'[p] = NoProcess
          BY <2>1, <2>10, <4>1, RunningIsProgram
        <4>2. CASE procs'[p] # NoProcess BY <2>9, <2>10, <4>2
        <4> QED BY <4>1, <4>2
      <3> HIDE DEF k
      <3>4. \A p \in Pids : <<k, "openRead">> \notin Using(p)'
                            /\ <<k, "openWrite">> \notin Using(p)'
        BY <3>3 DEF Using
      <3>5. Open' = held \cup UNION {Using(p)' : p \in Pids} BY <2>4 DEF Open
      <3> QED BY <3>1, <3>2, <3>4, <3>5 DEF k
    <2>11. ASSUME NEW c \in DOMAIN toExecute, NEW k \in {toExecute[c].in, toExecute[c].out}
           PROVE  <<k, "openRead">> \notin Open' /\ <<k, "openWrite">> \notin Open'
      <3>1. CASE k \notin Pipes BY <2>8, <3>1 DEF Ends
      <3>2. CASE k = toExecute[c].out /\ k \in Pipes BY <2>10, <3>2
      <3>3. CASE k = toExecute[c].in /\ k \in Pipes
        <4>1. c - 1 \in DOMAIN toExecute /\ k = toExecute[c - 1].out
          BY <2>1, <3>3 DEF RunInv, StreamsInv
        <4> QED BY <2>10, <3>3, <4>1
      <3> QED BY <3>1, <3>2, <3>3
    <2>12. \A c \in DOMAIN toExecute :
              ({toExecute[c].in, toExecute[c].out} \X {"openRead", "openWrite"})
                  \cap Open' = {}
      <3> SUFFICES ASSUME NEW c \in DOMAIN toExecute
          PROVE  ({toExecute[c].in, toExecute[c].out} \X {"openRead", "openWrite"})
                     \cap Open' = {}
        OBVIOUS
      <3> DEFINE S == {toExecute[c].in, toExecute[c].out}
      <3>1. \A k \in S : <<k, "openRead">> \notin Open' /\ <<k, "openWrite">> \notin Open'
        BY <2>11
      <3> HIDE DEF S
      <3>2. ASSUME NEW e \in S \X {"openRead", "openWrite"} PROVE e \notin Open'
        <4>1. PICK k \in S, mode \in {"openRead", "openWrite"} : e = <<k, mode>> OBVIOUS
        <4> QED BY <3>1, <4>1
      <3>3. (S \X {"openRead", "openWrite"}) \cap Open' = {}
        <4> DEFINE T == S \X {"openRead", "openWrite"}
        <4>1. \A e \in T : e \notin Open' BY <3>2
        <4> HIDE DEF T
        <4>2. T \cap Open' = {} BY <4>1
        <4> QED BY <4>2 DEF T
      <3> QED BY <3>3 DEF S
    <2> QED BY <2>7, <2>12
  <1> QED BY <1>1, InitHolds, StepKeeps, PTL DEF Spec, NothingLeftBehind
=============================================================================
