-------------------------- MODULE Descriptors_proofs --------------------------
(***************************************************************************)
(* Theorems about Descriptors for every number of processes, descriptors,  *)
(* pipes and handles. What concerns counters and handles holds as long as  *)
(* no two threads are in the middle of counting (CountsAlone); what        *)
(* concerns the pipes, when also no two are in the middle of creating one  *)
(* or of closing its two ends (no Liberties).                              *)
(***************************************************************************)
EXTENDS Descriptors, FiniteSetTheorems, SequenceTheorems, WellFoundedInduction, TLAPS

Fd == Fds \cup {Invalid}
Slots == 0..(pipeCapacity - 1)
Call == [pc : Labels, fd : Fd, out : Fd, handle : 0..MaxHandles, child : Processes,
         slot : Slots, back : {"user", "install", "start", "remove", "reap"},
         seen : Nat \cup {Unseen}]
File == [status : Status, openCounter : Nat, sb : FsTypes, inode : Slots]
Reserved == [Idle EXCEPT !.status = "reserved"]
-----------------------------------------------------------------------------
(* Who has which descriptor. A handle leads to a descriptor until its close *)
(* has counted; a thread has opened one until it hands it over; and a       *)
(* thread alone works at one that is not open yet, or no longer.            *)

DroppedBy(t, p, h) ==
    \/ /\ t = p /\ calls[t].back = "remove" /\ calls[t].handle = h
       /\ calls[t].pc \in Closing \cup {"remove"}
    \/ /\ calls[t].back = "reap" /\ calls[t].child = p
       /\ \/ h < calls[t].handle
          \/ h = calls[t].handle /\ calls[t].pc # "close"

Held(p, h) ==
    IF h \in DOMAIN io_devices[p] /\ ~Dropped(p, h) THEN io_devices[p][h] ELSE Invalid

OpenedBy(c) ==
    IF c.pc \in {"connect", "install"} \/ (c.pc = "close" /\ c.back = "start")
    THEN {c.fd}
    ELSE IF c.pc \in {"connectPipe", "installIn"} THEN {c.fd, c.out}
    ELSE IF c.pc = "installOut" THEN {c.out}
    ELSE {}

Opened(p) == OpenedBy(calls[p])

Reserving == {"driver", "reserveOut", "scan", "claim"}

WorkedAt(c) ==
    (IF c.pc \in Reserving \cup Closing THEN {c.fd} ELSE {})
        \cup (IF c.pc \in {"scan", "claim"} THEN {c.out} ELSE {})

Works(p) == WorkedAt(calls[p]) \ {Invalid}
-----------------------------------------------------------------------------
(* The inductive invariant, by parts.                                       *)

TypeInv ==
    /\ files \in [Fds -> File]
    /\ connections \in [FsTypes -> Nat]
    /\ pipes \in [Slots -> (SUBSET Ends) \cup {NoPipe}]
    /\ io_devices \in [Processes -> Seq(Fd)]
    /\ alive \in [Processes -> {"none", "starting", "running", "exited", "cleaned"}]
    /\ calls \in [Processes -> Call]
    /\ lost \subseteq Fds

\* What is behind a call at this label.
BackOf(pc) ==
    CASE pc \in {"driver", "connect"} -> {"install", "start"}
      [] pc = "install" -> {"install"}
      [] pc \in {"close", "disconnect", "clear"} -> {"start", "remove", "reap"}
      [] pc \in {"cleanup", "freePipe"} -> {"remove", "reap"}
      [] pc \in {"remove", "reap"} -> {pc}
      [] pc \in {"inherit", "count", "record", "start"} -> {"start"}
      [] OTHER -> {"user"}

\* Handles the call is about to give.
Wanted(c) ==
    IF c.back = "install" \/ c.pc = "installOut" THEN 1
    ELSE IF c.pc \in {"reserveOut", "scan", "claim", "connectPipe", "installIn"} THEN 2
    ELSE 0

CallInv(p) ==
    LET c == calls[p]
    IN  /\ c.pc = "user" => c = NoCall
        /\ c.pc # "user" => alive[p] = "running"
        /\ c.back \in BackOf(c.pc)
        /\ Len(io_devices[p]) + Wanted(c) <= MaxHandles
        /\ c.pc \in {"use", "count", "inside"} /\ c.fd # Invalid =>
               \E h \in DOMAIN io_devices[p] : io_devices[p][h] = c.fd
        /\ c.pc = "inside" => c.fd # Invalid /\ files[c.fd].sb = "pipe"
        /\ c.pc \notin {"scan", "claim", "connectPipe", "installIn", "installOut"}
               => c.out = Invalid
        /\ c.back = "remove" =>
               /\ c.handle \in DOMAIN io_devices[p]
               /\ c.pc = "close" => io_devices[p][c.handle] = c.fd

ChildInv(p) ==
    LET c == calls[p]
    IN  /\ c.back = "start" =>
               /\ alive[c.child] = "starting"
               /\ Len(io_devices[c.child]) = StdHandles
               /\ c.pc \in {"inherit", "count"} =>
                      /\ c.handle \in 1..StdHandles
                      /\ \A h \in c.handle..StdHandles : io_devices[c.child][h] = Invalid
        /\ c.back = "reap" =>
               /\ alive[c.child] = "cleaned"
               /\ c.pc = "close" => /\ c.handle \in DOMAIN io_devices[c.child]
                                    /\ io_devices[c.child][c.handle] = c.fd

\* No process is created, or removed, by two threads.
ChildrenApart ==
    \A p, q \in Processes :
        /\ calls[p].back = "start" /\ calls[q].back = "start"
             /\ calls[p].child = calls[q].child => p = q
        /\ calls[p].back = "reap" /\ calls[q].back = "reap" => p = q

\* A process without a record has no handles, any other the standard ones.
RecordInv ==
    \A p \in Processes : IF alive[p] = "none" THEN io_devices[p] = <<>>
                         ELSE Len(io_devices[p]) >= StdHandles

\* A descriptor that can be taken is all zeros, and the pipes' are those with
\* an end.
FilesInv ==
    \A fd \in Fds : /\ files[fd].status = "idle" => files[fd] = Idle
                    /\ (files[fd].sb = "pipe") <=> (files[fd].status \in Ends)

\* What a thread works at is not open, and nobody else's.
WorkOf(p) ==
    LET c == calls[p]
    IN  /\ \A fd \in Works(p) :
              /\ files[fd].openCounter = 0 /\ files[fd].status # "idle"
              /\ fd \notin lost
              /\ c.pc \in Reserving => files[fd] = Reserved
        /\ c.pc \in {"driver", "scan", "claim"} \cup Closing => c.fd # Invalid
        /\ c.pc \in {"scan", "claim"} => c.out \notin {c.fd, Invalid}
        /\ c.pc \in {"cleanup", "freePipe"} => files[c.fd].status \in Ends
        /\ c.pc \in Closing /\ c.back = "start" => files[c.fd].sb = "file"

WorkApart == \A p, q \in Processes : p # q => Works(p) \cap Works(q) = {}

\* What a thread has opened is open once.
OpenOf(p) ==
    LET c == calls[p]
    IN  /\ \A fd \in Opened(p) :
              fd \in Fds /\ files[fd].openCounter = 1 /\ fd \notin lost
        /\ c.pc \in {"connect", "install"} \/ (c.pc = "close" /\ c.back = "start")
               => files[c.fd].sb = "file"
        /\ c.pc \in {"connectPipe", "installIn"} =>
               c.fd # c.out /\ files[c.fd].sb = "pipe"
        /\ c.pc \in {"connectPipe", "installIn", "installOut"} =>
               files[c.out].sb = "pipe"

Users(fd) == Cardinality(Handles(fd)) + Cardinality(Openers(fd))

\* A lost descriptor was reserved in vain, or keeps at least one count that
\* belongs to nobody.
UsersInv ==
    \A fd \in Fds :
        IF fd \in lost
        THEN \/ files[fd].openCounter >= Users(fd) + 1
             \/ files[fd] = Reserved /\ Users(fd) = 0
        ELSE files[fd].openCounter = Users(fd)

\* What was read of a counter is what it still shows.
SeenInv ==
    /\ \A p \in Processes : Loaded(p) => CountsNow(p) /\ calls[p].seen = Counter(p)
    /\ \A p, q \in Processes : Loaded(p) /\ Loaded(q) => p = q

ThreadInv(p) == CallInv(p) /\ ChildInv(p) /\ WorkOf(p) /\ OpenOf(p)

Core ==
    /\ TypeInv /\ (\A p \in Processes : ThreadInv(p))
    /\ ChildrenApart /\ RecordInv /\ FilesInv /\ WorkApart
    /\ UsersInv /\ ConnectionsMatch /\ SeenInv

\* What is neither idle nor open is worked at or lost.
RestInv ==
    \A fd \in Fds : files[fd].status # "idle" /\ files[fd].openCounter = 0 =>
        fd \in lost \/ \E p \in Processes : fd \in Works(p)

ClaimInv ==
    /\ \A p \in Processes : At(p, "claim") => pipes[calls[p].slot] = NoPipe
    /\ \A p, q \in Processes : At(p, "claim") /\ At(q, "claim") => p = q

Freeing(i) == {p \in Processes : At(p, "freePipe") /\ files[calls[p].fd].inode = i}

PipesInv ==
    \A i \in Slots :
        /\ \A end \in Ends :
              /\ \A fd, gd \in OnEnd(end, i) : fd = gd
              /\ (end \in pipes[i]) <=> (OnEnd(end, i) # {})
        /\ pipes[i] = {} => Freeing(i) # {}
        /\ Freeing(i) # {} => pipes[i] # NoPipe
        /\ \A p, q \in Freeing(i) : p = q

IInv == Core /\ RestInv /\ ClaimInv /\ PipesInv
-----------------------------------------------------------------------------
(* Lemmas about numbers and sets, and about the operators of Descriptors.   *)

LEMMA Lowest ==
  ASSUME NEW S \in SUBSET Nat, S # {}
  PROVE  (CHOOSE x \in S : \A y \in S : x <= y) \in S
  <1>1. PICK x \in S : \A y \in S : ~(<<y, x>> \in OpToRel(<, Nat))
    BY NatLessThanWellFounded, WFMin
  <1>2. ASSUME NEW y \in S PROVE x <= y
    <2>1. <<y, x>> \in Nat \X Nat OBVIOUS
    <2>2. ~(y < x) BY <1>1, <2>1 DEF OpToRel
    <2> QED BY <2>2
  <1> QED BY <1>2

LEMMA FreeDescriptor ==
  ASSUME NEW from \in Nat
  PROVE  LET fd == getFreeDescriptorIndex(from)
         IN  fd = Invalid \/ (fd \in Fds /\ fd >= from /\ files[fd].status = "idle")
  <1> DEFINE free == {fd \in Fds : fd >= from /\ files[fd].status = "idle"}
  <1>1. free \in SUBSET Nat BY DEF Fds
  <1>2. CASE free = {} BY <1>2 DEF getFreeDescriptorIndex
  <1>3. CASE free # {}
    <2>1. getFreeDescriptorIndex(from) \in free
      BY <1>1, <1>3, Lowest DEF getFreeDescriptorIndex
    <2> QED BY <2>1
  <1> QED BY <1>2, <1>3

\* Two sets that differ in x at most.
LEMMA CountStep ==
  ASSUME NEW S, NEW T, NEW x, IsFiniteSet(S), \A y : y # x => (y \in S <=> y \in T)
  PROVE  /\ IsFiniteSet(T) /\ Cardinality(S) \in Nat /\ Cardinality(T) \in Nat
         /\ x \in S /\ x \notin T => Cardinality(S) = Cardinality(T) + 1
         /\ x \notin S /\ x \in T => Cardinality(T) = Cardinality(S) + 1
         /\ (x \in S <=> x \in T) => Cardinality(T) = Cardinality(S)
  <1>1. CASE x \in S <=> x \in T
    <2>1. S = T BY <1>1
    <2> QED BY <2>1, FS_CardinalityType
  <1>2. CASE x \in S /\ x \notin T
    <2>1. T = S \ {x} BY <1>2
    <2>2. /\ IsFiniteSet(S \ {x})
          /\ Cardinality(S \ {x}) = Cardinality(S) - 1
      BY <1>2, FS_RemoveElement
    <2> QED BY <1>2, <2>1, <2>2, FS_CardinalityType
  <1>3. CASE x \notin S /\ x \in T
    <2>1. T = S \cup {x} BY <1>3
    <2>2. /\ IsFiniteSet(S \cup {x})
          /\ Cardinality(S \cup {x}) = Cardinality(S) + 1
      BY <1>3, FS_AddElement
    <2> QED BY <1>3, <2>1, <2>2, FS_CardinalityType
  <1> QED BY <1>1, <1>2, <1>3

LEMMA SomeMeansOne ==
  ASSUME NEW S, NEW x \in S, IsFiniteSet(S)
  PROVE  /\ Cardinality(S) \in Nat /\ Cardinality(S) >= 1
         /\ \A y \in S : y # x => Cardinality(S) >= 2
  <1>1. /\ IsFiniteSet(S \ {x}) /\ Cardinality(S \ {x}) = Cardinality(S) - 1
        /\ Cardinality(S) \in Nat /\ Cardinality(S \ {x}) \in Nat
    BY FS_RemoveElement, FS_CardinalityType
  <1>2. ASSUME NEW y \in S, y # x PROVE Cardinality(S) >= 2
    <2>1. /\ Cardinality((S \ {x}) \ {y}) = Cardinality(S \ {x}) - 1
          /\ IsFiniteSet((S \ {x}) \ {y})
      BY <1>1, <1>2, FS_RemoveElement
    <2>2. Cardinality((S \ {x}) \ {y}) \in Nat BY <2>1, FS_CardinalityType
    <2> QED BY <1>1, <2>1, <2>2
  <1> QED BY <1>1, <1>2

LEMMA NoneMeansZero == Cardinality({}) = 0 /\ IsFiniteSet({})
  BY FS_EmptySet

LEMMA Ranges ==
  /\ Invalid \notin Fds /\ Fds \subseteq Nat
  /\ \A fd \in Fds : fd + 1 \in Nat
  /\ IsFiniteSet(Processes) /\ init \in Processes
  /\ StdHandles \in Nat /\ StdHandles >= 1 /\ MaxHandles \in Nat /\ StdHandles <= MaxHandles
  /\ pipeCapacity \in Nat /\ pipeCapacity >= 1 /\ 0 \in Slots
  /\ IsFiniteSet(Fds)
  <1>1. IsFiniteSet(Fds) BY DescriptorsAssumption, FS_Interval DEF Fds
  <1> QED BY <1>1, DescriptorsAssumption DEF Fds, Invalid, Slots

LEMMA NoCallIsCall == NoCall \in Call
  BY Ranges DEF NoCall, Call, Labels, Fd, Invalid, Unseen

LEMMA IdleIsFile == Idle \in File /\ Reserved \in File
  <1>1. Reserved = [status |-> "reserved", openCounter |-> 0, sb |-> "file", inode |-> 0]
    BY DEF Reserved, Idle
  <1> QED BY <1>1, Ranges DEF Idle, File, Status, FsTypes

\* The call of p becomes d.
Sets(p, d) == d \in Call /\ calls' = [calls EXCEPT ![p] = d]

LEMMA SetsOne ==
  ASSUME TypeInv, NEW p \in Processes, NEW d, Sets(p, d)
  PROVE  /\ calls' \in [Processes -> Call] /\ calls'[p] = d
         /\ \A q \in Processes : q # p => calls'[q] = calls[q]
  BY DEF Sets, TypeInv

LEMMA GotoSets ==
  ASSUME TypeInv, NEW p \in Processes, NEW pc \in Labels, Goto(p, pc)
  PROVE  Sets(p, [calls[p] EXCEPT !.pc = pc, !.seen = Unseen])
  <1>1. calls[p] \in Call BY DEF TypeInv
  <1>2. [calls[p] EXCEPT !.pc = pc, !.seen = Unseen] \in Call BY <1>1 DEF Call
  <1> QED BY <1>2 DEF Goto, Sets

LEMMA ReturnSets ==
  ASSUME NEW p \in Processes, Return(p)
  PROVE  Sets(p, NoCall)
  BY NoCallIsCall DEF Return, Sets

LEMMA AfterCloseSets ==
  ASSUME TypeInv, NEW p \in Processes, AfterClose(p), calls[p].back \in Labels
  PROVE  Sets(p, [calls[p] EXCEPT !.pc = calls[p].back, !.fd = Invalid, !.seen = Unseen])
  <1>1. calls[p] \in Call BY DEF TypeInv
  <1>2. [calls[p] EXCEPT !.pc = calls[p].back, !.fd = Invalid, !.seen = Unseen] \in Call
    BY <1>1 DEF Call, Fd
  <1> QED BY <1>2 DEF AfterClose, Sets

-----------------------------------------------------------------------------
(* What the invariant says of a descriptor that somebody uses.              *)

LEMMA UsersAreFinite ==
  ASSUME NEW fd \in Fds
  PROVE  /\ IsFiniteSet(Handles(fd)) /\ IsFiniteSet(Openers(fd))
         /\ Cardinality(Handles(fd)) \in Nat /\ Cardinality(Openers(fd)) \in Nat
         /\ Users(fd) \in Nat
  <1>1. IsFiniteSet(Processes \X (1..MaxHandles))
    <2>1. IsFiniteSet(1..MaxHandles) BY Ranges, FS_Interval
    <2> QED BY <2>1, Ranges, FS_Product
  <1>2. IsFiniteSet(Handles(fd)) BY <1>1, FS_Subset DEF Handles
  <1>3. IsFiniteSet(Openers(fd)) BY Ranges, FS_Subset DEF Openers
  <1> QED BY <1>2, <1>3, FS_CardinalityType DEF Users

LEMMA HandlesAre ==
  ASSUME NEW fd \in Fds
  PROVE  Handles(fd) = {ph \in Processes \X (1..MaxHandles) : Held(ph[1], ph[2]) = fd}
  BY Ranges DEF Handles, Held

LEMMA OpenersAre ==
  ASSUME NEW fd \in Fds
  PROVE  Openers(fd) = {p \in Processes : fd \in Opened(p)}
  BY DEF Openers, Opened, OpenedBy, At

\* A descriptor with a handle is open.
LEMMA HeldOpen ==
  ASSUME TypeInv, UsersInv, NEW fd \in Fds, NEW r \in Processes, NEW h \in 1..MaxHandles,
         Held(r, h) = fd
  PROVE  files[fd].openCounter >= 1
  <1>1. <<r, h>> \in Handles(fd) BY HandlesAre
  <1>2. Cardinality(Handles(fd)) >= 1 BY <1>1, UsersAreFinite, SomeMeansOne
  <1>3. Users(fd) >= 1 BY <1>2, UsersAreFinite DEF Users
  <1>4. files[fd].openCounter \in Nat BY DEF TypeInv, File
  <1> QED BY <1>3, <1>4, UsersAreFinite DEF UsersInv

\* A descriptor a thread has opened and not handed over is used by it alone.
LEMMA OpenedAlone ==
  ASSUME TypeInv, UsersInv, NEW q \in Processes, OpenOf(q), NEW fd \in Opened(q)
  PROVE  /\ fd \in Fds
         /\ \A r \in Processes, h \in 1..MaxHandles : Held(r, h) # fd
         /\ \A r \in Processes : r # q => fd \notin Opened(r)
  <1>1. fd \in Fds /\ files[fd].openCounter = 1 /\ fd \notin lost BY DEF OpenOf
  <1>2. Users(fd) = 1 BY <1>1 DEF UsersInv
  <1>3. q \in Openers(fd) BY <1>1, OpenersAre
  <1>4. Cardinality(Openers(fd)) >= 1 BY <1>1, <1>3, UsersAreFinite, SomeMeansOne
  <1>5. ASSUME NEW r \in Processes, NEW h \in 1..MaxHandles, Held(r, h) = fd PROVE FALSE
    <2>1. <<r, h>> \in Handles(fd) BY <1>1, <1>5, HandlesAre
    <2>2. Cardinality(Handles(fd)) >= 1 BY <1>1, <2>1, UsersAreFinite, SomeMeansOne
    <2> QED BY <1>1, <1>2, <1>4, <2>2, UsersAreFinite DEF Users
  <1>6. ASSUME NEW r \in Processes, r # q, fd \in Opened(r) PROVE FALSE
    <2>1. r \in Openers(fd) BY <1>1, <1>6, OpenersAre
    <2>2. Cardinality(Openers(fd)) >= 2
      BY <1>1, <1>3, <1>6, <2>1, UsersAreFinite, SomeMeansOne
    <2> QED BY <1>1, <1>2, <2>2, UsersAreFinite DEF Users
  <1> QED BY <1>1, <1>5, <1>6

\* The handles of a running process that is not closing one.
LEMMA RunningHolds ==
  ASSUME TypeInv, NEW r \in Processes, alive[r] = "running", calls[r].back # "remove",
         \A p \in Processes : ChildInv(p),
         NEW h \in DOMAIN io_devices[r]
  PROVE  Held(r, h) = io_devices[r][h]
  BY DEF Held, Dropped, ChildInv

LEMMA HandleRange ==
  ASSUME TypeInv, NEW r \in Processes, CallInv(r)
  PROVE  /\ Len(io_devices[r]) \in 0..MaxHandles
         /\ DOMAIN io_devices[r] = 1..Len(io_devices[r])
         /\ DOMAIN io_devices[r] \subseteq 1..MaxHandles
         /\ \A h \in DOMAIN io_devices[r] : io_devices[r][h] \in Fd
  <1>1. io_devices[r] \in Seq(Fd) BY DEF TypeInv
  <1>2. Len(io_devices[r]) + Wanted(calls[r]) <= MaxHandles BY DEF CallInv
  <1>3. Wanted(calls[r]) \in {0, 1, 2} BY DEF Wanted
  <1> QED BY <1>1, <1>2, <1>3, Ranges

\* The descriptors that are connected, and those that still are.
Unlinked(c) == IF c.pc \in {"connect", "connectPipe"} THEN {c.fd, c.out} ELSE {}
Linked(sb) ==
    {fd \in Fds : /\ files[fd].sb = sb /\ files[fd].openCounter >= 1
                  /\ \A p \in Processes : fd \notin Unlinked(calls[p])}
Leaving(sb) == {p \in Processes : calls[p].pc = "disconnect" /\ files[calls[p].fd].sb = sb}

ConnectionsCounted ==
    \A sb \in FsTypes : connections[sb] = Cardinality(Linked(sb)) + Cardinality(Leaving(sb))

LEMMA ConnectionsAre == ConnectionsMatch <=> ConnectionsCounted
  <1>1. ASSUME NEW sb
        PROVE  {fd \in Fds : files[fd].sb = sb /\ files[fd].openCounter >= 1}
                 \ (UNION {{calls[p].fd, calls[p].out} : p \in
                      {p \in Processes : calls[p].pc \in {"connect", "connectPipe"}}})
                = Linked(sb)
    BY DEF Linked, Unlinked
  <1> QED BY <1>1 DEF ConnectionsMatch, ConnectionsCounted, Leaving, At

LEMMA LinkedAreFinite ==
  ASSUME NEW sb
  PROVE  /\ IsFiniteSet(Linked(sb)) /\ IsFiniteSet(Leaving(sb))
         /\ Cardinality(Linked(sb)) \in Nat /\ Cardinality(Leaving(sb)) \in Nat
  <1>1. IsFiniteSet(Linked(sb)) /\ IsFiniteSet(Leaving(sb))
    BY Ranges, FS_Subset DEF Linked, Leaving
  <1> QED BY <1>1, FS_CardinalityType

-----------------------------------------------------------------------------
(* What a step of p leaves to the other threads: their calls, the records   *)
(* of running processes and of the children the others are at work on, and  *)
(* every descriptor that is neither free nor theirs to change. Only the one *)
(* thread that has read a counter writes one.                               *)

HeldBySome(fd) == \E r \in Processes, h \in 1..MaxHandles : Held(r, h) = fd

CallsAlone(p) == \A q \in Processes : q # p => calls'[q] = calls[q]

RecordsAlone(p) ==
    /\ \A q \in Processes : q # p /\ alive[q] = "running" =>
           alive'[q] = "running" /\ io_devices'[q] = io_devices[q]
    /\ \A q \in Processes : q # p /\ alive[q] # "running" =>
           Len(io_devices'[q]) <= MaxHandles
    /\ \A q \in Processes : q # p /\ calls[q].back \in {"start", "reap"} =>
           /\ alive'[calls[q].child] = alive[calls[q].child]
           /\ io_devices'[calls[q].child] = io_devices[calls[q].child]

FilesAlone(p) ==
    \A fd \in Fds :
        \/ files'[fd] = files[fd]
        \/ files[fd].status = "idle"
        \/ fd \in Works(p)
        \/ /\ Loaded(p) /\ files[fd].openCounter >= 1
           /\ files'[fd].status = files[fd].status /\ files'[fd].sb = files[fd].sb
           /\ files'[fd].inode = files[fd].inode
           /\ fd \in Opened(p) \/ HeldBySome(fd)

LostAlone(p) ==
    \A fd \in Fds : fd \in lost' /\ fd \notin lost =>
        files[fd].status = "idle" \/ fd \in Works(p) \/ HeldBySome(fd)

Alone(p) ==
    /\ CallsAlone(p) /\ RecordsAlone(p) /\ FilesAlone(p) /\ LostAlone(p)
    /\ connections' # connections => Loaded(p)

\* What q has opened or works at stays as it is while another thread moves.
LEMMA TheirsStay ==
  ASSUME Core, NEW p \in Processes, NEW q \in Processes, q # p, FilesAlone(p), LostAlone(p),
         NEW fd \in Fds, fd \in Opened(q) \/ fd \in Works(q)
  PROVE  files'[fd] = files[fd] /\ fd \notin lost'
  <1>1. TypeInv /\ UsersInv /\ FilesInv /\ WorkApart /\ OpenOf(q) /\ WorkOf(q) /\ WorkOf(p)
    BY DEF Core, ThreadInv
  <1>2. CASE fd \in Opened(q)
    <2>1. ~HeldBySome(fd) /\ fd \notin Opened(p) BY <1>1, <1>2, OpenedAlone DEF HeldBySome
    <2>2. files[fd].openCounter = 1 /\ fd \notin lost BY <1>1, <1>2 DEF OpenOf
    <2>3. files[fd].status # "idle" BY <1>1, <2>2 DEF FilesInv, Idle
    <2>4. fd \notin Works(p) BY <1>1, <2>2 DEF WorkOf
    <2> QED BY <2>1, <2>2, <2>3, <2>4 DEF FilesAlone, LostAlone
  <1>3. CASE fd \in Works(q)
    <2>1. /\ files[fd].openCounter = 0 /\ files[fd].status # "idle" /\ fd \notin lost
      BY <1>1, <1>3 DEF WorkOf
    <2>2. ~HeldBySome(fd) BY <1>1, <2>1, HeldOpen DEF HeldBySome
    <2>3. fd \notin Works(p) BY <1>1, <1>3 DEF WorkApart
    <2> QED BY <2>1, <2>2, <2>3 DEF FilesAlone, LostAlone
  <1> QED BY <1>2, <1>3

\* An open descriptor leads to the same file or pipe afterwards.
LEMMA OpenStay ==
  ASSUME Core, NEW p \in Processes, FilesAlone(p),
         NEW fd \in Fds, files[fd].openCounter >= 1
  PROVE  /\ files'[fd].sb = files[fd].sb /\ files'[fd].status = files[fd].status
         /\ files'[fd].inode = files[fd].inode
         /\ ~Loaded(p) => files'[fd] = files[fd]
  <1>1. files[fd].status # "idle" BY DEF Core, FilesInv, Idle
  <1>2. fd \notin Works(p) BY DEF Core, ThreadInv, WorkOf
  <1> QED BY <1>1, <1>2 DEF FilesAlone

LEMMA OthersKeep ==
  ASSUME Core, TypeInv', NEW p \in Processes, Alone(p), NEW q \in Processes, q # p
  PROVE  ThreadInv(q)'
  <1>1. /\ calls'[q] = calls[q] /\ RecordsAlone(p) /\ FilesAlone(p) /\ LostAlone(p)
        /\ TypeInv /\ UsersInv /\ (\A r \in Processes : ThreadInv(r))
        /\ CallInv(q) /\ ChildInv(q) /\ WorkOf(q) /\ OpenOf(q) /\ FilesInv
    BY DEF Core, ThreadInv, Alone, CallsAlone
  <1>2. calls[q] \in Call BY <1>1 DEF TypeInv
  <1>3. Opened(q)' = Opened(q) /\ Works(q)' = Works(q) BY <1>1 DEF Opened, Works
  <1>4. CallInv(q)'
    <2>1. CASE calls[q].pc = "user"
      <3>1. calls[q] = NoCall BY <1>1, <2>1 DEF CallInv
      <3>2. Len(io_devices'[q]) <= MaxHandles
        <4>1. CASE alive[q] = "running"
          BY <4>1, <1>1, HandleRange DEF RecordsAlone
        <4> QED BY <4>1, <1>1 DEF RecordsAlone
      <3>3. Len(io_devices'[q]) + 0 <= MaxHandles
        <4>1. io_devices'[q] \in Seq(Fd) BY DEF TypeInv
        <4> QED BY <3>2, <4>1
      <3> QED BY <1>1, <3>1, <3>3 DEF CallInv, NoCall, BackOf, Wanted
    <2>2. CASE calls[q].pc # "user"
      <3>1. /\ alive[q] = "running" /\ alive'[q] = "running"
            /\ io_devices'[q] = io_devices[q]
        BY <1>1, <2>2 DEF CallInv, RecordsAlone
      <3>2. ASSUME calls[q].pc = "inside"
            PROVE  calls[q].fd # Invalid /\ files'[calls[q].fd].sb = "pipe"
        <4>1. /\ calls[q].fd # Invalid /\ files[calls[q].fd].sb = "pipe"
              /\ calls[q].back = "user"
          BY <1>1, <3>2 DEF CallInv, BackOf
        <4>2. PICK h \in DOMAIN io_devices[q] : io_devices[q][h] = calls[q].fd
          BY <1>1, <3>2, <4>1 DEF CallInv
        <4>3. h \in 1..MaxHandles BY <1>1, HandleRange
        <4>4. Held(q, h) = calls[q].fd
          BY <1>1, <3>1, <4>1, <4>2, RunningHolds DEF ThreadInv
        <4>5. calls[q].fd \in Fds BY <1>2, <4>1 DEF Call, Fd
        <4>6. files[calls[q].fd].openCounter >= 1 BY <1>1, <4>3, <4>4, <4>5, HeldOpen
        <4> QED BY <1>1, <4>1, <4>5, <4>6, OpenStay
      <3> QED BY <1>1, <2>2, <3>1, <3>2 DEF CallInv
    <2> QED BY <2>1, <2>2
  <1>5. ChildInv(q)' BY <1>1 DEF ChildInv, RecordsAlone
  <1>6. WorkOf(q)'
    <2>1. \A fd \in Works(q) : files'[fd] = files[fd] /\ fd \notin lost'
      <3>1. Works(q) \subseteq Fds BY <1>2 DEF Works, WorkedAt, Call, Fd, Fds, Invalid
      <3> QED BY <1>1, <3>1, TheirsStay
    <2>2. calls[q].pc \in Closing => calls[q].fd \in Works(q)
      BY <1>1 DEF WorkOf, Works, WorkedAt
    <2>3. {"cleanup", "freePipe"} \subseteq Closing BY DEF Closing
    <2> QED BY <1>1, <1>3, <2>1, <2>2, <2>3 DEF WorkOf
  <1>7. OpenOf(q)'
    <2>1. \A fd \in Opened(q) : files'[fd] = files[fd] /\ fd \notin lost'
      BY <1>1, TheirsStay DEF OpenOf
    <2>2. /\ calls[q].pc \in {"connect", "install", "connectPipe", "installIn"}
                \/ (calls[q].pc = "close" /\ calls[q].back = "start")
               => calls[q].fd \in Opened(q)
          /\ calls[q].pc \in {"connectPipe", "installIn", "installOut"}
               => calls[q].out \in Opened(q)
      BY DEF Opened, OpenedBy
    <2> QED BY <1>1, <1>3, <2>1, <2>2 DEF OpenOf
  <1> QED BY <1>4, <1>5, <1>6, <1>7 DEF ThreadInv

-----------------------------------------------------------------------------
(* What is counted, before and after a step.                                *)

LEMMA SeenKept ==
  ASSUME Core, TypeInv', NEW p \in Processes, Alone(p), ~Loaded(p)'
  PROVE  SeenInv'
  <1>1. /\ TypeInv /\ SeenInv /\ FilesAlone(p) /\ LostAlone(p) /\ CallsAlone(p)
        /\ connections' # connections => Loaded(p)
    BY DEF Core, Alone
  <1>2. ASSUME NEW q \in Processes, Loaded(q)'
        PROVE  q # p /\ Loaded(q) /\ CountsNow(q)' /\ calls'[q].seen = Counter(q)'
    <2>1. q # p /\ calls'[q] = calls[q] /\ Loaded(q)
      BY <1>1, <1>2 DEF CallsAlone, Loaded
    <2>2. ~Loaded(p) /\ connections' = connections /\ CountsNow(q)
          /\ calls[q].seen = Counter(q)
      BY <1>1, <2>1 DEF SeenInv
    <2>3. calls[q] \in Call /\ WorkOf(q) BY <1>1 DEF TypeInv, Core, ThreadInv
    <2>4. /\ files'[calls[q].fd] = files[calls[q].fd]
          /\ calls[q].pc \in {"count", "close", "connect", "connectPipe", "disconnect"}
      <3>1. CASE calls[q].pc \in {"count", "close"}
        <4>1. calls[q].fd \in Fds /\ files[calls[q].fd].openCounter >= 1
          BY <2>2, <2>3, <3>1 DEF CountsNow, Resolves, Call, Fd
        <4> QED BY <1>1, <2>2, <3>1, <4>1, OpenStay
      <3>2. CASE calls[q].pc \in {"connect", "connectPipe"}
        <4>1. calls[q].fd \in Opened(q) BY <3>2 DEF Opened, OpenedBy
        <4>2. calls[q].fd \in Fds BY <4>1 DEF Core, ThreadInv, OpenOf
        <4> QED BY <1>1, <2>1, <3>2, <4>1, <4>2, TheirsStay
      <3>3. CASE calls[q].pc = "disconnect"
        <4>1. calls[q].fd # Invalid BY <2>3, <3>3 DEF WorkOf, Closing
        <4>2. calls[q].fd \in Works(q) BY <3>3, <4>1 DEF Works, WorkedAt, Closing
        <4>3. calls[q].fd \in Fds BY <2>3, <4>1 DEF Call, Fd
        <4> QED BY <1>1, <2>1, <3>3, <4>2, <4>3, TheirsStay
      <3>4. calls[q].pc \in {"count", "close", "connect", "connectPipe", "disconnect"}
        BY <2>2 DEF CountsNow
      <3> QED BY <3>1, <3>2, <3>3, <3>4
    <2>5. CountsNow(q)' = CountsNow(q)
      BY <2>1, <2>2, <2>4 DEF CountsNow, Resolves
    <2>6. Counter(q)' = Counter(q)
      BY <2>1, <2>2, <2>4 DEF Counter
    <2> QED BY <2>1, <2>2, <2>5, <2>6
  <1>3. ASSUME NEW q \in Processes, NEW r \in Processes, Loaded(q)', Loaded(r)' PROVE q = r
    BY <1>1, <1>2, <1>3 DEF SeenInv
  <1> QED BY <1>2, <1>3 DEF SeenInv

LEMMA CoreKept ==
  ASSUME Core, TypeInv', NEW p \in Processes, Alone(p), ThreadInv(p)', ~Loaded(p)',
         ChildrenApart', RecordInv', FilesInv', WorkApart', UsersInv', ConnectionsMatch'
  PROVE  Core'
  <1>1. \A q \in Processes : ThreadInv(q)' BY OthersKeep
  <1>2. SeenInv' BY SeenKept
  <1> QED BY <1>1, <1>2 DEF Core

\* The handles of a descriptor when handle k of r alone changes.
LEMMA HandlesStep ==
  ASSUME NEW r \in Processes, NEW k \in 1..MaxHandles, NEW fd \in Fds,
         \A q \in Processes, h \in 1..MaxHandles :
             q # r \/ h # k => Held(q, h)' = Held(q, h)
  PROVE  /\ Held(r, k) = fd /\ Held(r, k)' # fd
               => Cardinality(Handles(fd)) = Cardinality(Handles(fd)') + 1
         /\ Held(r, k) # fd /\ Held(r, k)' = fd
               => Cardinality(Handles(fd)') = Cardinality(Handles(fd)) + 1
         /\ (Held(r, k) = fd <=> Held(r, k)' = fd)
               => Cardinality(Handles(fd)') = Cardinality(Handles(fd))
         /\ Cardinality(Handles(fd)') \in Nat
  <1> DEFINE S == {ph \in Processes \X (1..MaxHandles) : Held(ph[1], ph[2]) = fd}
             T == {ph \in Processes \X (1..MaxHandles) : Held(ph[1], ph[2])' = fd}
  <1>1. Handles(fd) = S BY HandlesAre
  <1>2. Handles(fd)' = T
    <2>1. Handles(fd)' = {ph \in Processes \X (1..MaxHandles) :
                            /\ ph[2] \in DOMAIN io_devices'[ph[1]]
                            /\ io_devices'[ph[1]][ph[2]] = fd
                            /\ ~Dropped(ph[1], ph[2])'}
      BY DEF Handles
    <2> QED BY <2>1, Ranges DEF Held
  <1>3. IsFiniteSet(S) BY <1>1, UsersAreFinite
  <1>4. \A y : y # <<r, k>> => (y \in S <=> y \in T) OBVIOUS
  <1>5. (<<r, k>> \in S <=> Held(r, k) = fd) /\ (<<r, k>> \in T <=> Held(r, k)' = fd)
    OBVIOUS
  <1> HIDE DEF S, T
  <1> QED BY <1>1, <1>2, <1>3, <1>4, <1>5, CountStep

\* The openers of a descriptor when the call of p alone changes.
LEMMA OpenersStep ==
  ASSUME NEW p \in Processes, NEW fd \in Fds, CallsAlone(p)
  PROVE  /\ fd \in Opened(p) /\ fd \notin Opened(p)'
               => Cardinality(Openers(fd)) = Cardinality(Openers(fd)') + 1
         /\ fd \notin Opened(p) /\ fd \in Opened(p)'
               => Cardinality(Openers(fd)') = Cardinality(Openers(fd)) + 1
         /\ (fd \in Opened(p) <=> fd \in Opened(p)')
               => Cardinality(Openers(fd)') = Cardinality(Openers(fd))
         /\ Cardinality(Openers(fd)') \in Nat
  <1> DEFINE S == {q \in Processes : fd \in Opened(q)}
             T == {q \in Processes : fd \in Opened(q)'}
  <1>1. Openers(fd) = S BY OpenersAre
  <1>2. Openers(fd)' = T BY DEF Openers, Opened, OpenedBy, At
  <1>3. IsFiniteSet(S) BY <1>1, UsersAreFinite
  <1>4. \A q : q # p => (q \in S <=> q \in T) BY DEF CallsAlone, Opened
  <1>5. (p \in S <=> fd \in Opened(p)) /\ (p \in T <=> fd \in Opened(p)') OBVIOUS
  <1> HIDE DEF S, T
  <1> QED BY <1>1, <1>2, <1>3, <1>4, <1>5, CountStep

HeldSame == \A q \in Processes, h \in 1..MaxHandles : Held(q, h)' = Held(q, h)

LEMMA UsersSame ==
  ASSUME NEW p \in Processes, CallsAlone(p), HeldSame, NEW fd \in Fds,
         fd \in Opened(p)' <=> fd \in Opened(p)
  PROVE  Users(fd)' = Users(fd)
  <1>1. Cardinality(Openers(fd)') = Cardinality(Openers(fd)) BY OpenersStep
  <1>2. Handles(fd)' = {ph \in Processes \X (1..MaxHandles) :
                            /\ ph[2] \in DOMAIN io_devices'[ph[1]]
                            /\ io_devices'[ph[1]][ph[2]] = fd
                            /\ ~Dropped(ph[1], ph[2])'}
    BY DEF Handles
  <1>3. Handles(fd)' = {ph \in Processes \X (1..MaxHandles) : Held(ph[1], ph[2])' = fd}
    BY <1>2, Ranges DEF Held
  <1>4. Handles(fd)' = Handles(fd) BY <1>3, HandlesAre DEF HeldSame
  <1> QED BY <1>1, <1>4 DEF Users

LEMMA ConnectionsAreNext == ConnectionsMatch' <=> ConnectionsCounted'
  BY ConnectionsAre, PTL

\* Nothing is connected or disconnected.
LinkedStays(p) ==
    /\ connections' = connections
    /\ \A fd \in Fds :
          /\ files'[fd].openCounter >= 1 /\ fd \notin Unlinked(calls'[p])
               <=> files[fd].openCounter >= 1 /\ fd \notin Unlinked(calls[p])
          /\ files[fd].openCounter >= 1 => files'[fd].sb = files[fd].sb
    /\ \/ calls[p].pc # "disconnect" /\ calls'[p].pc # "disconnect"
       \/ /\ calls[p].pc = "disconnect" /\ calls'[p].pc = "disconnect"
          /\ calls'[p].fd = calls[p].fd /\ files' = files

LEMMA LeavingOthers ==
  ASSUME Core, NEW p \in Processes, Alone(p), NEW q \in Processes, q # p,
         calls[q].pc = "disconnect"
  PROVE  calls'[q] = calls[q] /\ files'[calls[q].fd] = files[calls[q].fd]
  <1>1. calls[q] \in Call /\ WorkOf(q) BY DEF Core, TypeInv, ThreadInv
  <1>2. calls[q].fd # Invalid BY <1>1 DEF WorkOf, Closing
  <1>3. calls[q].fd \in Works(q) BY <1>2 DEF Works, WorkedAt, Closing
  <1>4. calls[q].fd \in Fds BY <1>1, <1>2 DEF Call, Fd
  <1> QED BY <1>3, <1>4, TheirsStay DEF Alone, CallsAlone

LEMMA ConnectionsKept ==
  ASSUME Core, TypeInv', NEW p \in Processes, Alone(p), LinkedStays(p)
  PROVE  ConnectionsMatch'
  <1>1. CallsAlone(p) BY DEF Alone
  <1>2. ASSUME NEW sb \in FsTypes
        PROVE  Linked(sb)' = Linked(sb) /\ Leaving(sb)' = Leaving(sb)
    <2>1. ASSUME NEW fd \in Fds PROVE fd \in Linked(sb)' <=> fd \in Linked(sb)
      <3>1. \A q \in Processes : q # p => calls'[q] = calls[q] BY <1>1 DEF CallsAlone
      <3>2. fd \in Linked(sb)' <=>
               /\ files'[fd].sb = sb /\ files'[fd].openCounter >= 1
               /\ fd \notin Unlinked(calls'[p])
               /\ \A q \in Processes : q # p => fd \notin Unlinked(calls[q])
        BY <3>1 DEF Linked
      <3>3. fd \in Linked(sb) <=>
               /\ files[fd].sb = sb /\ files[fd].openCounter >= 1
               /\ fd \notin Unlinked(calls[p])
               /\ \A q \in Processes : q # p => fd \notin Unlinked(calls[q])
        BY DEF Linked
      <3> QED BY <3>2, <3>3 DEF LinkedStays
    <2>2. ASSUME NEW q \in Processes PROVE q \in Leaving(sb)' <=> q \in Leaving(sb)
      <3>1. CASE q = p BY <3>1 DEF Leaving, LinkedStays
      <3>2. CASE q # p
        <4>1. calls'[q] = calls[q] BY <1>1, <3>2 DEF CallsAlone
        <4> QED BY <3>2, <4>1, LeavingOthers DEF Leaving
      <3> QED BY <3>1, <3>2
    <2> QED BY <2>1, <2>2 DEF Linked, Leaving
  <1>3. ConnectionsCounted BY ConnectionsAre DEF Core
  <1> QED BY <1>2, <1>3, ConnectionsAreNext DEF ConnectionsCounted, LinkedStays

\* Descriptors are reserved, given back or forgotten, and none that is used is
\* touched.
SpareOnly(p) ==
    /\ \A fd \in Fds :
          /\ \/ files'[fd] = files[fd]
             \/ files[fd].status = "idle" /\ files'[fd] = Reserved
             \/ fd \in Works(p) /\ fd \notin Works(p)' /\ files'[fd] = Idle
          /\ fd \in Works(p)' => fd \in Works(p) \/ files[fd].status = "idle"
          /\ fd \in lost' =>
                \/ fd \in lost
                \/ /\ files'[fd] = Reserved
                   /\ fd \in Works(p) \/ files[fd].status = "idle"
    /\ lost \subseteq lost'
    /\ HeldSame
    /\ \A fd \in Fds : fd \in Opened(p)' <=> fd \in Opened(p)

LEMMA SpareKept ==
  ASSUME Core, TypeInv', NEW p \in Processes, Alone(p), SpareOnly(p)
  PROVE  FilesInv' /\ WorkApart' /\ UsersInv'
  <1>1. /\ TypeInv /\ CallsAlone(p) /\ UsersInv /\ FilesInv /\ WorkApart /\ WorkOf(p)
        /\ \A q \in Processes : WorkOf(q)
    BY DEF Core, ThreadInv, Alone
  <1>2. FilesInv' BY <1>1 DEF FilesInv, SpareOnly, Reserved, Idle, Ends
  <1>3. ASSUME NEW q \in Processes, q # p, NEW fd \in Fds, fd \in Works(q)'
        PROVE  fd \notin Works(p)'
    <2>1. fd \in Works(q) BY <1>1, <1>3 DEF CallsAlone, Works
    <2>2. files[fd].status # "idle" /\ fd \notin Works(p)
      BY <1>1, <1>3, <2>1 DEF WorkOf, WorkApart
    <2> QED BY <2>2 DEF SpareOnly
  <1>4. WorkApart'
    <2>1. ASSUME NEW q \in Processes PROVE Works(q)' \subseteq Fds
      BY DEF TypeInv, Works, WorkedAt, Call, Fd, Invalid
    <2>2. ASSUME NEW q \in Processes, NEW r \in Processes, q # r
          PROVE  (Works(q) \cap Works(r))' = {}
      <3>1. CASE q = p BY <1>3, <2>1, <2>2, <3>1
      <3>2. CASE r = p BY <1>3, <2>1, <2>2, <3>2
      <3>3. CASE q # p /\ r # p BY <1>1, <2>2, <3>3 DEF CallsAlone, Works, WorkApart
      <3> QED BY <3>1, <3>2, <3>3
    <2> QED BY <2>2 DEF WorkApart
  <1>5. ASSUME NEW fd \in Fds
        PROVE  IF fd \in lost'
               THEN \/ files'[fd].openCounter >= Users(fd)' + 1
                    \/ files'[fd] = Reserved /\ Users(fd)' = 0
               ELSE files'[fd].openCounter = Users(fd)'
    <2>1. Users(fd)' = Users(fd) BY <1>1, UsersSame DEF SpareOnly
    <2>2. Users(fd) \in Nat BY UsersAreFinite
    <2>3. Idle.openCounter = 0 /\ Reserved.openCounter = 0 /\ Idle # Reserved
      BY DEF Idle, Reserved
    <2>4. files[fd].status = "idle" => files[fd] = Idle BY <1>1 DEF FilesInv
    <2>5. files[fd].status = "idle" \/ fd \in Works(p) => fd \notin lost /\ Users(fd) = 0
      <3>1. files[fd].status = "idle" => fd \notin lost
        BY <1>1, <2>2, <2>3, <2>4 DEF UsersInv
      <3>2. fd \in Works(p) => fd \notin lost /\ files[fd].openCounter = 0
        BY <1>1 DEF WorkOf
      <3> QED BY <1>1, <2>3, <2>4, <3>1, <3>2 DEF UsersInv
    <2> QED BY <1>1, <2>1, <2>2, <2>3, <2>4, <2>5 DEF SpareOnly, UsersInv
  <1> QED BY <1>2, <1>4, <1>5 DEF UsersInv

-----------------------------------------------------------------------------
(* The steps of a thread, one by one. First those that change its call and  *)
(* no table, or the pipes only.                                             *)

LEMMA Parts ==
  ASSUME Core, NEW p \in Processes
  PROVE  /\ TypeInv /\ CallInv(p) /\ ChildInv(p) /\ WorkOf(p) /\ OpenOf(p)
         /\ ChildrenApart /\ RecordInv /\ FilesInv /\ WorkApart /\ UsersInv /\ SeenInv
         /\ calls[p] \in Call /\ io_devices[p] \in Seq(Fd)
         /\ calls[p].handle \in 0..MaxHandles /\ calls[p].child \in Processes
         /\ calls[p].fd \in Fd /\ calls[p].out \in Fd /\ calls[p].slot \in Slots
         /\ (calls[p].pc = "user" => calls[p] = NoCall)
  BY DEF Core, ThreadInv, TypeInv, Call, CallInv

LEMMA RecordsStay ==
  ASSUME Core, NEW p \in Processes, io_devices' = io_devices, alive' = alive
  PROVE  RecordsAlone(p)
  BY HandleRange, Ranges DEF RecordsAlone, Core, ThreadInv

LEMMA HeldStay ==
  ASSUME NEW p \in Processes, CallsAlone(p), io_devices' = io_devices,
         \A r \in Processes, h \in 1..MaxHandles : DroppedBy(p, r, h)' <=> DroppedBy(p, r, h)
  PROVE  HeldSame
  <1>1. ASSUME NEW r \in Processes, NEW h \in 1..MaxHandles
        PROVE  Dropped(r, h)' <=> Dropped(r, h)
    <2>1. \A t \in Processes : DroppedBy(t, r, h)' <=> DroppedBy(t, r, h)
      BY DEF CallsAlone, DroppedBy
    <2>2. Dropped(r, h) <=> \E t \in Processes : DroppedBy(t, r, h)
      BY DEF Dropped, DroppedBy, At
    <2>3. Dropped(r, h)' <=> \E t \in Processes : DroppedBy(t, r, h)'
      BY DEF Dropped, DroppedBy, At
    <2> QED BY <2>1, <2>2, <2>3
  <1> QED BY <1>1 DEF HeldSame, Held

LEMMA ChildrenStayApart ==
  ASSUME Core, NEW p \in Processes, CallsAlone(p),
         calls'[p].back \in {"start", "reap"} =>
             calls'[p].back = calls[p].back /\ calls'[p].child = calls[p].child
  PROVE  ChildrenApart'
  BY DEF Core, ChildrenApart, CallsAlone

LEMMA CallStep ==
  ASSUME Core, NEW p \in Processes, NEW d, Sets(p, d),
         UNCHANGED <<files, connections, io_devices, alive, lost>>,
         pipes' \in [Slots -> (SUBSET Ends) \cup {NoPipe}],
         HeldSame,
         OpenedBy(d) = OpenedBy(calls[p]), Unlinked(d) = Unlinked(calls[p]),
         WorkedAt(d) \ {Invalid} \subseteq Works(p),
         (d.pc # "disconnect" /\ calls[p].pc # "disconnect")
             \/ (d.pc = calls[p].pc /\ d.fd = calls[p].fd),
         d.back \in {"start", "reap"} => d.back = calls[p].back /\ d.child = calls[p].child,
         SeenInv' \/ d.seen = Unseen,
         ThreadInv(p)'
  PROVE  Core'
  <1>1. calls' \in [Processes -> Call] /\ calls'[p] = d /\ CallsAlone(p) /\ TypeInv
    BY SetsOne DEF CallsAlone, Core
  <1>2. TypeInv' BY <1>1 DEF TypeInv
  <1>3. Alone(p)
    <2>1. RecordsAlone(p) BY RecordsStay
    <2> QED BY <1>1, <2>1 DEF Alone, FilesAlone, LostAlone
  <1>4. LinkedStays(p) BY <1>1 DEF LinkedStays
  <1>5. SpareOnly(p) BY <1>1 DEF SpareOnly, Opened, Works
  <1>6. ChildrenApart' BY <1>1, ChildrenStayApart
  <1>7. RecordInv' BY DEF Core, RecordInv
  <1>8. FilesInv' /\ WorkApart' /\ UsersInv' BY <1>2, <1>3, <1>5, SpareKept
  <1>9. ConnectionsMatch' BY <1>2, <1>3, <1>4, ConnectionsKept
  <1>10. \A q \in Processes : ThreadInv(q)' BY <1>2, <1>3, OthersKeep
  <1>11. SeenInv'
    <2>1. CASE d.seen = Unseen BY <1>1, <1>2, <1>3, <2>1, SeenKept DEF Loaded
    <2> QED BY <2>1
  <1> QED BY <1>2, <1>6, <1>7, <1>8, <1>9, <1>10, <1>11 DEF Core

\* A thread whose call is over holds and works at nothing.
LEMMA Returned ==
  ASSUME TypeInv', NEW p \in Processes, calls'[p] = NoCall, Len(io_devices'[p]) <= MaxHandles
  PROVE  ThreadInv(p)'
  <1>1. Opened(p)' = {} /\ Works(p)' = {}
    BY DEF Opened, OpenedBy, Works, WorkedAt, NoCall, Reserving, Closing
  <1>2. CallInv(p)'
    <2>1. io_devices'[p] \in Seq(Fd) BY DEF TypeInv
    <2>2. Len(io_devices'[p]) + 0 <= MaxHandles BY <2>1
    <2> QED BY <2>2 DEF CallInv, NoCall, BackOf, Wanted
  <1>3. ChildInv(p)' BY DEF ChildInv, NoCall
  <1>4. WorkOf(p)' BY <1>1 DEF WorkOf, NoCall, Closing, Reserving
  <1>5. OpenOf(p)' BY <1>1 DEF OpenOf, NoCall
  <1> QED BY <1>2, <1>3, <1>4, <1>5 DEF ThreadInv

LEMMA LoadCounterKeeps ==
  ASSUME Core, NEW p \in Processes, LoadCounter(p),
         "count at the same time" \notin Liberties
  PROVE  Core'
  <1> DEFINE d == [calls[p] EXCEPT !.seen = Counter(p)]
  <1>1. /\ TypeInv /\ CallInv(p) /\ ChildInv(p) /\ WorkOf(p) /\ OpenOf(p)
        /\ calls[p] \in Call /\ calls[p].fd \in Fd
    BY Parts
  <1>2. /\ calls[p].seen = Unseen /\ CountsNow(p) /\ \A q \in Processes : calls[q].seen = Unseen
        /\ calls' = [calls EXCEPT ![p] = d]
        /\ UNCHANGED <<files, connections, pipes, io_devices, alive, lost>>
    BY DEF LoadCounter
  <1>3. calls[p].fd \in Fds /\ calls[p].pc \in {"count", "close", "connect", "connectPipe", "disconnect"}
    <2>1. CASE calls[p].pc \in {"count", "close"}
      BY <1>1, <1>2, <2>1 DEF CountsNow, Resolves, Fd
    <2>2. CASE calls[p].pc \in {"connect", "connectPipe"}
      BY <1>1, <2>2 DEF OpenOf, Opened, OpenedBy
    <2>3. CASE calls[p].pc = "disconnect" BY <1>1, <2>3 DEF WorkOf, Closing, Fd
    <2> QED BY <1>2, <2>1, <2>2, <2>3 DEF CountsNow
  <1>4. Counter(p) \in Nat
    <2>1. files[calls[p].fd].openCounter \in Nat /\ files[calls[p].fd].sb \in FsTypes
      BY <1>1, <1>3 DEF TypeInv, File
    <2>2. connections[files[calls[p].fd].sb] \in Nat BY <1>1, <2>1 DEF TypeInv
    <2> QED BY <1>3, <2>1, <2>2 DEF Counter
  <1>5. d \in Call BY <1>1, <1>4 DEF Call
  <1>6. /\ d.pc = calls[p].pc /\ d.fd = calls[p].fd /\ d.out = calls[p].out
        /\ d.handle = calls[p].handle /\ d.child = calls[p].child
        /\ d.back = calls[p].back /\ d.seen = Counter(p)
    BY <1>1 DEF Call
  <1> HIDE DEF d
  <1>7. Sets(p, d) BY <1>2, <1>5 DEF Sets
  <1>8. /\ calls' \in [Processes -> Call] /\ calls'[p] = d
        /\ \A q \in Processes : q # p => calls'[q] = calls[q]
    BY <1>1, <1>7, SetsOne
  <1>9. HeldSame
    <2>1. \A r, h : DroppedBy(p, r, h)' <=> DroppedBy(p, r, h)
      BY <1>6, <1>8 DEF DroppedBy
    <2>2. CallsAlone(p) BY <1>8 DEF CallsAlone
    <2> QED BY <1>2, <2>1, <2>2, HeldStay
  <1>10. OpenedBy(d) = OpenedBy(calls[p]) /\ WorkedAt(d) = WorkedAt(calls[p])
         /\ Unlinked(d) = Unlinked(calls[p])
    BY <1>6 DEF OpenedBy, WorkedAt, Unlinked
  <1>11. ThreadInv(p)'
    <2>1. Opened(p)' = Opened(p) /\ Works(p)' = Works(p)
      BY <1>8, <1>10 DEF Opened, Works
    <2>2. CallInv(p)' BY <1>1, <1>2, <1>3, <1>6, <1>8 DEF CallInv, Wanted
    <2>3. ChildInv(p)' BY <1>1, <1>2, <1>6, <1>8 DEF ChildInv
    <2>4. WorkOf(p)' BY <1>1, <1>2, <1>6, <1>8, <2>1 DEF WorkOf
    <2>5. OpenOf(p)' BY <1>1, <1>2, <1>6, <1>8, <2>1 DEF OpenOf
    <2> QED BY <2>2, <2>3, <2>4, <2>5 DEF ThreadInv
  <1>12. SeenInv'
    <2>1. CountsNow(p)' /\ Counter(p)' = Counter(p)
      BY <1>2, <1>3, <1>6, <1>8 DEF CountsNow, Counter, Resolves
    <2>2. \A q \in Processes : Loaded(q)' => q = p BY <1>2, <1>8 DEF Loaded
    <2> QED BY <1>6, <1>8, <2>1, <2>2 DEF SeenInv
  <1> QED BY <1>1, <1>2, <1>6, <1>7, <1>9, <1>10, <1>11, <1>12, CallStep DEF Works, TypeInv

\* At these labels a thread has opened nothing and works at nothing.
Plain(c) ==
    \/ c.pc \in {"user", "remove", "inherit", "count", "record", "start", "reap", "use",
                 "inside"}
    \/ c.pc = "close" /\ c.back # "start"

LEMMA PlainCall ==
  ASSUME NEW c, Plain(c)
  PROVE  OpenedBy(c) = {} /\ WorkedAt(c) = {} /\ Unlinked(c) = {}
         /\ c.pc # "disconnect"
  BY DEF Plain, OpenedBy, WorkedAt, Unlinked, Reserving, Closing

LEMMA PlainThread ==
  ASSUME NEW p \in Processes, Plain(calls'[p]), CallInv(p)', ChildInv(p)'
  PROVE  ThreadInv(p)'
  <1>1. Opened(p)' = {} /\ Works(p)' = {} BY PlainCall DEF Opened, Works
  <1>2. WorkOf(p)' BY <1>1 DEF WorkOf, Plain, Closing
  <1>3. OpenOf(p)' BY <1>1 DEF OpenOf, Plain
  <1> QED BY <1>2, <1>3 DEF ThreadInv

\* No connection is missing behind an open descriptor.
LEMMA HeldResolves ==
  ASSUME Core, NEW fd \in Fds, HeldBySome(fd)
  PROVE  Resolves(fd) /\ files[fd].openCounter >= 1
  <1>1. PICK r \in Processes, h \in 1..MaxHandles : Held(r, h) = fd BY DEF HeldBySome
  <1>2. files[fd].openCounter >= 1 BY <1>1, HeldOpen DEF Core
  <1>3. ASSUME NEW q \in Processes, fd \in Unlinked(calls[q]) PROVE FALSE
    <2>1. fd \in Opened(q)
      BY <1>3, Ranges DEF Unlinked, Opened, OpenedBy, Core, ThreadInv, CallInv
    <2> QED BY <1>1, <2>1, OpenedAlone DEF Core, ThreadInv
  <1>4. files[fd].sb \in FsTypes BY DEF Core, TypeInv, File
  <1>5. fd \in Linked(files[fd].sb) BY <1>2, <1>3 DEF Linked
  <1>6. Cardinality(Linked(files[fd].sb)) >= 1 BY <1>5, LinkedAreFinite, SomeMeansOne
  <1>7. connections[files[fd].sb] >= 1
    BY <1>4, <1>6, LinkedAreFinite, ConnectionsAre DEF ConnectionsCounted, Core
  <1> QED BY <1>2, <1>7, Ranges DEF Resolves

LEMMA OpenedResolves ==
  ASSUME Core, NEW q \in Processes, NEW fd \in Opened(q), Unlinked(calls[q]) = {}
  PROVE  fd \in Fds /\ Resolves(fd) /\ files[fd].openCounter = 1
  <1>1. fd \in Fds /\ files[fd].openCounter = 1 BY DEF Core, ThreadInv, OpenOf
  <1>2. ASSUME NEW r \in Processes, fd \in Unlinked(calls[r]) PROVE FALSE
    <2>1. r # q BY <1>2
    <2>2. fd \in Opened(r)
      BY <1>1, <1>2, Ranges DEF Unlinked, Opened, OpenedBy, Core, ThreadInv, CallInv
    <2> QED BY <2>1, <2>2, OpenedAlone DEF Core, ThreadInv
  <1>3. files[fd].sb \in FsTypes BY <1>1 DEF Core, TypeInv, File
  <1>4. fd \in Linked(files[fd].sb) BY <1>1, <1>2 DEF Linked
  <1>5. Cardinality(Linked(files[fd].sb)) >= 1 BY <1>4, LinkedAreFinite, SomeMeansOne
  <1>6. connections[files[fd].sb] >= 1
    BY <1>3, <1>5, LinkedAreFinite, ConnectionsAre DEF ConnectionsCounted, Core
  <1> QED BY <1>1, <1>6, Ranges DEF Resolves

\* A handle that is being closed is still held up to the count.
ClosesOf(p) == IF calls[p].back = "remove" THEN p ELSE calls[p].child

LEMMA ClosingHeld ==
  ASSUME Core, NEW p \in Processes, At(p, "close"), calls[p].back \in {"remove", "reap"}
  PROVE  /\ ClosesOf(p) \in Processes /\ calls[p].handle \in 1..MaxHandles
         /\ calls[p].handle \in DOMAIN io_devices[ClosesOf(p)]
         /\ Held(ClosesOf(p), calls[p].handle) = calls[p].fd
  <1>1. /\ CallInv(p) /\ ChildInv(p) /\ calls[p].child \in Processes /\ ChildrenApart
        /\ TypeInv /\ \A q \in Processes : CallInv(q) /\ ChildInv(q)
    BY Parts
  <1>2. CASE calls[p].back = "remove"
    <2>1. ClosesOf(p) = p BY <1>2 DEF ClosesOf
    <2>2. alive[p] = "running" BY <1>1 DEF CallInv, At
    <2>3. calls[p].handle \in DOMAIN io_devices[p] /\ io_devices[p][calls[p].handle] = calls[p].fd
      BY <1>1, <1>2 DEF CallInv, At
    <2>4. ~Dropped(p, calls[p].handle)
      BY <1>1, <2>2 DEF Dropped, At, ChildInv, Closing
    <2> QED BY <1>1, <2>1, <2>3, <2>4, HandleRange DEF Held
  <1>3. CASE calls[p].back = "reap"
    <2>1. ClosesOf(p) = calls[p].child BY <1>3 DEF ClosesOf
    <2>2. /\ alive[calls[p].child] = "cleaned"
          /\ calls[p].handle \in DOMAIN io_devices[calls[p].child]
          /\ io_devices[calls[p].child][calls[p].handle] = calls[p].fd
      BY <1>1, <1>3 DEF ChildInv, At
    <2>3. calls[calls[p].child] = NoCall BY <1>1, <2>2 DEF CallInv
    <2>4. calls[p].handle \in 1..MaxHandles BY <1>1, <2>2, HandleRange
    <2>5. \A t \in Processes : calls[t].back = "reap" => t = p
      BY <1>1, <1>3 DEF ChildrenApart
    <2>6. ~Dropped(calls[p].child, calls[p].handle)
      BY <2>3, <2>4, <2>5 DEF Dropped, At, NoCall
    <2> QED BY <1>1, <2>1, <2>2, <2>4, <2>6 DEF Held
  <1> QED BY <1>2, <1>3

LEMMA CloseResolves ==
  ASSUME Core, NEW p \in Processes, At(p, "close"), calls[p].fd # Invalid
  PROVE  CountsNow(p) /\ calls[p].fd \in Fds /\ files[calls[p].fd].openCounter >= 1
  <1>1. calls[p].fd \in Fds /\ calls[p].back \in {"start", "remove", "reap"}
    BY Parts DEF Fd, CallInv, BackOf, At
  <1>2. CASE calls[p].back = "start"
    <2>1. calls[p].fd \in Opened(p) /\ Unlinked(calls[p]) = {}
      BY <1>2 DEF Opened, OpenedBy, At, Unlinked
    <2> QED BY <1>1, <2>1, OpenedResolves DEF CountsNow, At
  <1>3. CASE calls[p].back # "start"
    <2>1. HeldBySome(calls[p].fd) BY <1>1, <1>3, ClosingHeld DEF HeldBySome
    <2> QED BY <1>1, <2>1, HeldResolves DEF CountsNow, At
  <1> QED BY <1>2, <1>3

LEMMA PlainStep ==
  ASSUME Core, NEW p \in Processes, NEW d, Sets(p, d), d.seen = Unseen,
         UNCHANGED <<files, connections, pipes, io_devices, alive, lost>>,
         Plain(calls[p]), Plain(d), HeldSame,
         d.back \in {"start", "reap"} => d.back = calls[p].back /\ d.child = calls[p].child,
         CallInv(p)', ChildInv(p)'
  PROVE  Core'
  <1>1. calls'[p] = d BY SetsOne DEF Core
  <1>2. ThreadInv(p)' BY <1>1, PlainThread
  <1>3. pipes' \in [Slots -> (SUBSET Ends) \cup {NoPipe}] BY DEF Core, TypeInv
  <1> QED BY <1>2, <1>3, PlainCall, CallStep

LEMMA ReserveNothingKeeps ==
  ASSUME Core, NEW p \in Processes, PipeReserveIn(p), getFreeDescriptorIndex(0) = Invalid
  PROVE  Core'
  <1> DEFINE d == [calls[p] EXCEPT !.pc = "reserveOut", !.fd = Invalid]
  <1>1. TypeInv /\ calls[p] = NoCall /\ alive[p] = "running" /\ io_devices[p] \in Seq(Fd)
    BY Parts DEF PipeReserveIn, MayCall, At
  <1>2. /\ calls' = [calls EXCEPT ![p] = d]
        /\ UNCHANGED <<files, connections, pipes, io_devices, alive, lost>>
        /\ Len(io_devices[p]) + 2 <= MaxHandles
    BY DEF PipeReserveIn
  <1>3. /\ d.pc = "reserveOut" /\ d.fd = Invalid /\ d.out = Invalid /\ d.handle = 0
        /\ d.back = "user" /\ d.seen = Unseen
    BY <1>1 DEF NoCall
  <1>4. d \in Call BY <1>1, NoCallIsCall DEF Call, Labels, Fd
  <1> HIDE DEF d
  <1>5. Sets(p, d) BY <1>2, <1>4 DEF Sets
  <1>6. calls'[p] = d /\ CallsAlone(p) BY <1>1, <1>5, SetsOne DEF CallsAlone
  <1>7. HeldSame
    <2>1. \A r, h : DroppedBy(p, r, h)' <=> DroppedBy(p, r, h)
      BY <1>1, <1>3, <1>6 DEF DroppedBy, NoCall
    <2> QED BY <1>2, <1>6, <2>1, HeldStay
  <1>8. /\ OpenedBy(d) = {} /\ Unlinked(d) = {} /\ WorkedAt(d) \ {Invalid} = {}
        /\ OpenedBy(calls[p]) = {} /\ Unlinked(calls[p]) = {}
    BY <1>1, <1>3 DEF OpenedBy, Unlinked, WorkedAt, NoCall, Closing, Reserving
  <1>9. ThreadInv(p)'
    <2>1. Opened(p)' = {} /\ Works(p)' = {} BY <1>6, <1>8 DEF Opened, Works
    <2>2. Wanted(d) = 2 BY <1>3 DEF Wanted
    <2>3. CallInv(p)' BY <1>1, <1>2, <1>3, <1>6, <2>2 DEF CallInv, BackOf
    <2>6. ChildInv(p)' BY <1>3, <1>6 DEF ChildInv
    <2>4. WorkOf(p)' BY <1>3, <1>6, <2>1 DEF WorkOf, NoCall, Closing, Reserving
    <2>5. OpenOf(p)' BY <1>3, <1>6, <2>1 DEF OpenOf, NoCall
    <2> QED BY <2>3, <2>4, <2>5, <2>6 DEF ThreadInv
  <1>10. pipes' \in [Slots -> (SUBSET Ends) \cup {NoPipe}] BY <1>1, <1>2 DEF TypeInv
  <1>11. calls[p].pc = "user" BY <1>1 DEF NoCall
  <1> QED BY <1>2, <1>3, <1>5, <1>7, <1>8, <1>9, <1>10, <1>11, CallStep

LEMMA PipeScanKeeps ==
  ASSUME Core, NEW p \in Processes, PipeScan(p), FreePipes # {}
  PROVE  Core'
  <1> DEFINE i == CHOOSE i \in FreePipes : \A j \in FreePipes : i <= j
             d == [calls[p] EXCEPT !.pc = "claim", !.slot = i]
  <1>1. /\ TypeInv /\ CallInv(p) /\ ChildInv(p) /\ WorkOf(p) /\ OpenOf(p) /\ SeenInv
        /\ calls[p] \in Call /\ At(p, "scan")
    BY Parts DEF PipeScan
  <1>2. /\ calls' = [calls EXCEPT ![p] = d]
        /\ UNCHANGED <<files, connections, pipes, io_devices, alive, lost>>
    BY DEF PipeScan
  <1>3. FreePipes \in SUBSET Nat /\ FreePipes \subseteq Slots
    BY <1>1 DEF FreePipes, TypeInv, Slots
  <1>4. i \in Slots BY <1>3, Lowest
  <1> HIDE DEF i
  <1>5. d \in Call BY <1>1, <1>4 DEF Call, Labels
  <1>6. /\ d.pc = "claim" /\ d.fd = calls[p].fd /\ d.out = calls[p].out
        /\ d.handle = calls[p].handle /\ d.child = calls[p].child
        /\ d.back = calls[p].back /\ d.seen = calls[p].seen
    BY <1>1 DEF Call
  <1> HIDE DEF d
  <1>7. Sets(p, d) BY <1>2, <1>5 DEF Sets
  <1>8. calls'[p] = d /\ CallsAlone(p) BY <1>1, <1>7, SetsOne DEF CallsAlone
  <1>9. HeldSame
    <2>1. calls[p].back = "user" BY <1>1 DEF CallInv, BackOf, At
    <2>2. \A r, h : DroppedBy(p, r, h)' <=> DroppedBy(p, r, h)
      BY <1>6, <1>8, <2>1 DEF DroppedBy
    <2> QED BY <1>2, <1>8, <2>2, HeldStay
  <1>10. /\ OpenedBy(d) = {} /\ Unlinked(d) = {} /\ WorkedAt(d) = WorkedAt(calls[p])
         /\ OpenedBy(calls[p]) = {} /\ Unlinked(calls[p]) = {}
    BY <1>1, <1>6 DEF OpenedBy, Unlinked, WorkedAt, Closing, Reserving, At
  <1>11. ThreadInv(p)'
    <2>1. Opened(p)' = {} /\ Works(p)' = Works(p) BY <1>8, <1>10 DEF Opened, Works
    <2>2. CallInv(p)' BY <1>1, <1>2, <1>6, <1>8 DEF CallInv, At, BackOf, Wanted
    <2>3. ChildInv(p)' BY <1>1, <1>2, <1>6, <1>8 DEF ChildInv, CallInv, BackOf, At
    <2>4. WorkOf(p)' BY <1>1, <1>2, <1>6, <1>8, <2>1 DEF WorkOf, Closing, Reserving, At
    <2>5. OpenOf(p)' BY <1>6, <1>8, <2>1 DEF OpenOf
    <2> QED BY <2>2, <2>3, <2>4, <2>5 DEF ThreadInv
  <1>12. d.seen = Unseen BY <1>1, <1>6 DEF SeenInv, Loaded, CountsNow, At
  <1> QED
    BY <1>1, <1>2, <1>6, <1>7, <1>9, <1>10, <1>11, <1>12, CallStep DEF Works, TypeInv, At

\* A call at a handle begins: it is closed, inherited or used.
LEMMA HandleCallKeeps ==
  ASSUME Core, NEW p \in Processes, NEW h \in 0..MaxHandles,
         CloseHandle(p, h) \/ UseHandle(p, h)
  PROVE  Core'
  <1> DEFINE close == [NoCall EXCEPT !.pc = "close", !.fd = io_devices[p][h],
                                     !.handle = h, !.back = "remove"]
             use == [NoCall EXCEPT !.pc = "use", !.fd = io_devices[p][h]]
  <1>1. /\ TypeInv /\ CallInv(p) /\ calls[p] = NoCall /\ alive[p] = "running"
        /\ io_devices[p] \in Seq(Fd) /\ h \in DOMAIN io_devices[p]
        /\ io_devices[p][h] \in Fd
    BY Parts DEF CloseHandle, UseHandle, MayCall, At
  <1>2. close \in Call /\ use \in Call BY <1>1, NoCallIsCall DEF Call, Labels
  <1>3. PICK d \in {close, use} :
           /\ calls' = [calls EXCEPT ![p] = d]
           /\ UNCHANGED <<files, connections, pipes, io_devices, alive, lost>>
    BY <1>1 DEF CloseHandle, UseHandle
  <1>4. /\ d \in Call /\ d.fd = io_devices[p][h] /\ d.out = Invalid /\ d.seen = Unseen
        /\ \/ d.pc = "close" /\ d.back = "remove" /\ d.handle = h
           \/ d.pc = "use" /\ d.back = "user"
    BY <1>2 DEF NoCall
  <1> HIDE DEF close, use
  <1>5. Sets(p, d) BY <1>3, <1>4 DEF Sets
  <1>6. calls'[p] = d /\ CallsAlone(p) BY <1>1, <1>5, SetsOne DEF CallsAlone
  <1>7. HeldSame
    <2>1. \A r, k : DroppedBy(p, r, k)' <=> DroppedBy(p, r, k)
      BY <1>1, <1>4, <1>6 DEF DroppedBy, NoCall, Closing
    <2> QED BY <1>3, <1>6, <2>1, HeldStay
  <1>8. Plain(d) /\ Plain(calls[p]) BY <1>1, <1>4 DEF Plain, NoCall
  <1>9. CallInv(p)'
    <2>1. Wanted(d) = 0 BY <1>4 DEF Wanted
    <2>2. Len(io_devices[p]) + 0 <= MaxHandles BY <1>1, HandleRange
    <2> QED BY <1>1, <1>3, <1>4, <1>6, <2>1, <2>2 DEF CallInv, BackOf
  <1>10. ChildInv(p)' BY <1>4, <1>6 DEF ChildInv
  <1> QED BY <1>3, <1>4, <1>5, <1>7, <1>8, <1>9, <1>10, PlainStep

LEMMA InheritResolveKeeps ==
  ASSUME Core, NEW p \in Processes, NEW h \in 0..MaxHandles, InheritResolve(p, h)
  PROVE  Core'
  <1> DEFINE k == IF h = 0 THEN stdOutput ELSE h
             d == [calls[p] EXCEPT !.pc = "count", !.fd = io_devices[p][k]]
  <1>1. /\ TypeInv /\ CallInv(p) /\ ChildInv(p) /\ SeenInv /\ RecordInv /\ calls[p] \in Call
        /\ calls[p].pc = "inherit" /\ io_devices[p] \in Seq(Fd)
    BY Parts DEF InheritResolve, At
  <1>2. /\ calls' = [calls EXCEPT ![p] = d]
        /\ UNCHANGED <<files, connections, pipes, io_devices, alive, lost>>
        /\ h = 0 \/ h \in DOMAIN io_devices[p]
    BY DEF InheritResolve
  <1>3. calls[p].back = "start" /\ alive[p] = "running" BY <1>1 DEF CallInv, BackOf
  <1>4. k \in DOMAIN io_devices[p]
    <2>1. Len(io_devices[p]) >= StdHandles BY <1>1, <1>3 DEF RecordInv
    <2>2. stdOutput \in 1..StdHandles BY Ranges DEF stdOutput
    <2> QED BY <1>1, <1>2, <2>1, <2>2, Ranges
  <1>5. io_devices[p][k] \in Fd BY <1>1, <1>4
  <1> HIDE DEF k
  <1>6. d \in Call BY <1>1, <1>5 DEF Call, Labels
  <1>7. /\ d.pc = "count" /\ d.fd = io_devices[p][k] /\ d.out = calls[p].out
        /\ d.handle = calls[p].handle /\ d.child = calls[p].child
        /\ d.back = calls[p].back /\ d.seen = calls[p].seen
    BY <1>1 DEF Call
  <1> HIDE DEF d
  <1>8. Sets(p, d) BY <1>2, <1>6 DEF Sets
  <1>9. calls'[p] = d /\ CallsAlone(p) BY <1>1, <1>8, SetsOne DEF CallsAlone
  <1>10. HeldSame
    <2>1. \A r, j : DroppedBy(p, r, j)' <=> DroppedBy(p, r, j)
      BY <1>3, <1>7, <1>9 DEF DroppedBy
    <2> QED BY <1>2, <1>9, <2>1, HeldStay
  <1>11. CallInv(p)'
    <2>1. Wanted(d) = 0 /\ Wanted(calls[p]) = 0 BY <1>1, <1>3, <1>7 DEF Wanted
    <2> QED BY <1>1, <1>2, <1>3, <1>4, <1>7, <1>9, <2>1 DEF CallInv, BackOf
  <1>12. ChildInv(p)' BY <1>1, <1>2, <1>3, <1>7, <1>9 DEF ChildInv
  <1>13. d.seen = Unseen BY <1>1, <1>7 DEF SeenInv, Loaded, CountsNow
  <1> QED BY <1>1, <1>2, <1>7, <1>8, <1>10, <1>11, <1>12, <1>13, PlainStep DEF Plain

\* There is no descriptor for the file of the new process.
LEMMA AddNothingKeeps ==
  ASSUME Core, NEW p \in Processes, AddToProcFS(p), getFreeDescriptorIndex(0) = Invalid
  PROVE  Core'
  <1> DEFINE d == [calls[p] EXCEPT !.pc = "start", !.seen = Unseen]
  <1>1. /\ TypeInv /\ CallInv(p) /\ ChildInv(p) /\ calls[p] \in Call
        /\ calls[p].pc = "record" /\ "start" \in Labels
    BY Parts DEF AddToProcFS, At, Labels
  <1>2. UNCHANGED <<files, connections, pipes, io_devices, alive, lost>> /\ Goto(p, "start")
    BY DEF AddToProcFS
  <1>3. Sets(p, d) BY <1>1, <1>2, GotoSets
  <1>4. calls[p].back = "start" /\ alive[p] = "running" BY <1>1 DEF CallInv, BackOf
  <1>5. /\ d.pc = "start" /\ d.fd = calls[p].fd /\ d.out = calls[p].out
        /\ d.handle = calls[p].handle /\ d.child = calls[p].child
        /\ d.back = calls[p].back /\ d.seen = Unseen
    BY <1>1 DEF Call
  <1> HIDE DEF d
  <1>6. calls'[p] = d /\ CallsAlone(p) BY <1>1, <1>3, SetsOne DEF CallsAlone
  <1>7. HeldSame
    <2>1. \A r, j : DroppedBy(p, r, j)' <=> DroppedBy(p, r, j)
      BY <1>4, <1>5, <1>6 DEF DroppedBy
    <2> QED BY <1>2, <1>6, <2>1, HeldStay
  <1>8. CallInv(p)'
    <2>1. Wanted(d) = 0 /\ Wanted(calls[p]) = 0 BY <1>1, <1>4, <1>5 DEF Wanted
    <2> QED BY <1>1, <1>2, <1>4, <1>5, <1>6, <2>1 DEF CallInv, BackOf
  <1>9. ChildInv(p)' BY <1>1, <1>2, <1>4, <1>5, <1>6 DEF ChildInv
  <1> QED BY <1>1, <1>2, <1>3, <1>5, <1>7, <1>8, <1>9, PlainStep DEF Plain

\* The next handle of a process that is cleaned.
LEMMA CleanHandleKeeps ==
  ASSUME Core, NEW p \in Processes, CleanNext(p),
         calls[p].handle + 1 \in DOMAIN io_devices[calls[p].child]
  PROVE  Core'
  <1> DEFINE h == calls[p].handle + 1
             d == [calls[p] EXCEPT !.pc = "close", !.handle = h,
                                   !.fd = io_devices[calls[p].child][h]]
  <1>1. /\ TypeInv /\ CallInv(p) /\ ChildInv(p) /\ SeenInv /\ calls[p] \in Call
        /\ calls[p].pc = "reap" /\ calls[p].child \in Processes
        /\ calls[p].handle \in 0..MaxHandles /\ CallInv(calls[p].child)
    BY Parts DEF CleanNext, At
  <1>2. /\ calls' = [calls EXCEPT ![p] = d]
        /\ UNCHANGED <<files, connections, pipes, io_devices, alive, lost>>
    BY DEF CleanNext
  <1>3. calls[p].back = "reap" /\ alive[p] = "running" BY <1>1 DEF CallInv, BackOf
  <1>4. h \in 1..MaxHandles /\ io_devices[calls[p].child][h] \in Fd
    BY <1>1, HandleRange
  <1>5. d \in Call
    <2>1. h \in 0..MaxHandles BY <1>4
    <2> HIDE DEF h
    <2> QED BY <1>1, <1>4, <2>1 DEF Call, Labels
  <1>6. /\ d.pc = "close" /\ d.fd = io_devices[calls[p].child][h] /\ d.out = calls[p].out
        /\ d.handle = calls[p].handle + 1 /\ d.child = calls[p].child
        /\ d.back = calls[p].back /\ d.seen = calls[p].seen
    BY <1>1 DEF Call
  <1> HIDE DEF d
  <1>7. Sets(p, d) BY <1>2, <1>5 DEF Sets
  <1>8. calls'[p] = d /\ CallsAlone(p) BY <1>1, <1>7, SetsOne DEF CallsAlone
  <1>9. HeldSame
    <2>1. ASSUME NEW r \in Processes, NEW j \in 1..MaxHandles
          PROVE  DroppedBy(p, r, j)' <=> DroppedBy(p, r, j)
      <3>1. j < calls[p].handle + 1 <=> j < calls[p].handle \/ j = calls[p].handle
        BY <1>1
      <3> QED BY <1>1, <1>3, <1>6, <1>8, <3>1 DEF DroppedBy
    <2> QED BY <1>2, <1>8, <2>1, HeldStay
  <1>10. CallInv(p)'
    <2>1. Wanted(d) = 0 /\ Wanted(calls[p]) = 0 BY <1>1, <1>3, <1>6 DEF Wanted
    <2>2. /\ Len(io_devices[p]) + Wanted(calls[p]) <= MaxHandles /\ calls[p].out = Invalid
      BY <1>1 DEF CallInv
    <2>3. calls'[p].pc = "close" /\ calls'[p].back = "reap" /\ calls'[p].out = Invalid
      BY <1>3, <1>6, <1>8, <2>2
    <2>4. "reap" \in BackOf("close") BY DEF BackOf
    <2>5. /\ alive'[p] = "running" /\ Wanted(calls'[p]) = 0
          /\ Len(io_devices'[p]) + 0 <= MaxHandles
      BY <1>2, <1>3, <1>8, <2>1, <2>2
    <2> HIDE <1>1, <1>2, <1>3, <1>6, <1>8, <2>1, <2>2
    <2> QED BY <2>3, <2>4, <2>5 DEF CallInv
  <1>11. ChildInv(p)' BY <1>1, <1>2, <1>3, <1>6, <1>8 DEF ChildInv
  <1>12. d.seen = Unseen BY <1>1, <1>6 DEF SeenInv, Loaded, CountsNow
  <1> QED
    BY <1>1, <1>2, <1>3, <1>6, <1>7, <1>9, <1>10, <1>11, <1>12, PlainStep DEF Plain

LEMMA EnterPipeKeeps ==
  ASSUME Core, NEW p \in Processes, EnterPipe(p) \/ LeavePipe(p)
  PROVE  Core'
  <1> DEFINE in == [calls[p] EXCEPT !.pc = "inside", !.seen = Unseen]
  <1>1. /\ TypeInv /\ CallInv(p) /\ ChildInv(p) /\ calls[p] \in Call
        /\ calls[p].pc \in {"use", "inside"} /\ "inside" \in Labels
        /\ io_devices[p] \in Seq(Fd)
    BY Parts DEF EnterPipe, LeavePipe, At, Labels
  <1>2. UNCHANGED <<files, connections, pipes, io_devices, alive, lost>>
    BY DEF EnterPipe, LeavePipe
  <1>3. calls[p].back = "user" /\ alive[p] = "running" BY <1>1 DEF CallInv, BackOf
  <1>4. /\ in.pc = "inside" /\ in.fd = calls[p].fd /\ in.out = calls[p].out
        /\ in.back = "user" /\ in.seen = Unseen
    BY <1>1, <1>3 DEF Call
  <1>5. PICK d :
           /\ Sets(p, d)
           /\ \/ d = NoCall
              \/ d = in /\ Resolves(calls[p].fd) /\ files[calls[p].fd].sb = "pipe"
                 /\ calls[p].pc = "use"
    <2>1. CASE Return(p) BY <2>1, ReturnSets
    <2>2. CASE /\ Goto(p, "inside") /\ At(p, "use")
               /\ Resolves(calls[p].fd) /\ files[calls[p].fd].sb = "pipe"
      BY <1>1, <2>2, GotoSets DEF At
    <2> QED BY <2>1, <2>2 DEF EnterPipe, LeavePipe
  <1> HIDE DEF in
  <1>6. calls'[p] = d /\ CallsAlone(p) BY <1>1, <1>5, SetsOne DEF CallsAlone
  <1>7. d.seen = Unseen /\ d.back = "user" /\ d.pc \in {"user", "inside"}
    BY <1>4, <1>5 DEF NoCall
  <1>8. HeldSame
    <2>1. \A r, j : DroppedBy(p, r, j)' <=> DroppedBy(p, r, j)
      BY <1>3, <1>6, <1>7 DEF DroppedBy
    <2> QED BY <1>2, <1>6, <2>1, HeldStay
  <1>9. CallInv(p)'
    <2>1. Wanted(d) = 0 BY <1>7 DEF Wanted
    <2>2. Len(io_devices[p]) + 0 <= MaxHandles BY <1>1, HandleRange
    <2>3. CASE d = NoCall BY <1>2, <1>6, <2>1, <2>2, <2>3 DEF CallInv, NoCall, BackOf
    <2>4. CASE d # NoCall
      <3>1. d = in /\ Resolves(calls[p].fd) /\ files[calls[p].fd].sb = "pipe"
            /\ calls[p].pc = "use"
        BY <1>5, <2>4
      <3> QED BY <1>1, <1>2, <1>3, <1>4, <1>6, <2>1, <2>2, <3>1 DEF CallInv, BackOf, Resolves
    <2> QED BY <2>3, <2>4
  <1>10. ChildInv(p)' BY <1>6, <1>7 DEF ChildInv
  <1> QED BY <1>1, <1>2, <1>5, <1>7, <1>8, <1>9, <1>10, PlainStep DEF Plain

-----------------------------------------------------------------------------
(* The steps that change a record, and no descriptor.                       *)

LEMMA SeqEdit ==
  ASSUME NEW s \in Seq(Fd), NEW k \in DOMAIN s, NEW v \in Fd
  PROVE  /\ [s EXCEPT ![k] = v] \in Seq(Fd)
         /\ Len([s EXCEPT ![k] = v]) = Len(s)
         /\ DOMAIN [s EXCEPT ![k] = v] = DOMAIN s
  BY ExceptSeq

LEMMA DroppedStay ==
  ASSUME NEW p \in Processes, CallsAlone(p), NEW r, NEW h,
         DroppedBy(p, r, h)' <=> DroppedBy(p, r, h)
  PROVE  Dropped(r, h)' <=> Dropped(r, h)
  <1>1. \A t \in Processes : DroppedBy(t, r, h)' <=> DroppedBy(t, r, h)
    BY DEF CallsAlone, DroppedBy
  <1>2. Dropped(r, h) <=> \E t \in Processes : DroppedBy(t, r, h)
    BY DEF Dropped, DroppedBy, At
  <1>3. Dropped(r, h)' <=> \E t \in Processes : DroppedBy(t, r, h)'
    BY DEF Dropped, DroppedBy, At
  <1> QED BY <1>1, <1>2, <1>3

LEMMA RecordStep ==
  ASSUME Core, NEW p \in Processes, NEW d, Sets(p, d), d.seen = Unseen,
         UNCHANGED <<files, connections, pipes, lost>>,
         io_devices' \in [Processes -> Seq(Fd)],
         alive' \in [Processes -> {"none", "starting", "running", "exited", "cleaned"}],
         RecordsAlone(p), RecordInv', ChildrenApart',
         Plain(calls[p]), Plain(d), HeldSame,
         CallInv(p)', ChildInv(p)'
  PROVE  Core'
  <1>1. calls' \in [Processes -> Call] /\ calls'[p] = d /\ CallsAlone(p) /\ TypeInv
    BY SetsOne DEF CallsAlone, Core
  <1>2. TypeInv' BY <1>1 DEF TypeInv
  <1>3. Alone(p) BY <1>1 DEF Alone, FilesAlone, LostAlone
  <1>4. ThreadInv(p)' BY <1>1, PlainThread
  <1>5. LinkedStays(p) BY <1>1, PlainCall DEF LinkedStays
  <1>6. SpareOnly(p) BY <1>1, PlainCall DEF SpareOnly, Opened, Works
  <1>7. FilesInv' /\ WorkApart' /\ UsersInv' BY <1>2, <1>3, <1>6, SpareKept
  <1>8. ConnectionsMatch' BY <1>2, <1>3, <1>5, ConnectionsKept
  <1>9. ~Loaded(p)' BY <1>1 DEF Loaded
  <1> QED BY <1>2, <1>3, <1>4, <1>7, <1>8, <1>9, CoreKept

\* Whose record a thread is at work on, nobody else is.
LEMMA ChildAlone ==
  ASSUME Core, NEW p \in Processes, NEW q \in Processes, q # p,
         calls[q].back \in {"start", "reap"}
  PROVE  /\ alive[calls[q].child] \in {"starting", "cleaned"}
         /\ calls[p].back \in {"start", "reap"} => calls[q].child # calls[p].child
  <1>1. ChildInv(p) /\ ChildInv(q) /\ ChildrenApart BY Parts
  <1> QED BY <1>1 DEF ChildInv, ChildrenApart

LEMMA RemoveHandleKeeps ==
  ASSUME Core, NEW p \in Processes, RemoveHandle(p)
  PROVE  Core'
  <1> DEFINE k == calls[p].handle
             s == [io_devices[p] EXCEPT ![k] = Invalid]
  <1>1. /\ TypeInv /\ CallInv(p) /\ ChildInv(p) /\ calls[p] \in Call /\ RecordInv
        /\ calls[p].pc = "remove" /\ io_devices[p] \in Seq(Fd)
        /\ \A q \in Processes : ChildInv(q) /\ CallInv(q)
    BY Parts DEF RemoveHandle, At
  <1>2. /\ Return(p) /\ UNCHANGED <<files, connections, pipes, alive, lost>>
        /\ io_devices' = [io_devices EXCEPT ![p] = s]
    BY DEF RemoveHandle
  <1>3. calls[p].back = "remove" /\ alive[p] = "running" /\ k \in DOMAIN io_devices[p]
    BY <1>1 DEF CallInv, BackOf
  <1>4. s \in Seq(Fd) /\ Len(s) = Len(io_devices[p]) /\ DOMAIN s = DOMAIN io_devices[p]
    BY <1>1, <1>3, SeqEdit DEF Fd
  <1>5. /\ io_devices' \in [Processes -> Seq(Fd)] /\ io_devices'[p] = s
        /\ \A q \in Processes : q # p => io_devices'[q] = io_devices[q]
    <2> HIDE DEF s
    <2> QED BY <1>1, <1>2, <1>4 DEF TypeInv
  <1>6. Sets(p, NoCall) /\ calls'[p] = NoCall /\ CallsAlone(p)
    BY <1>1, <1>2, ReturnSets, SetsOne DEF CallsAlone
  <1>7. HeldSame
    <2> SUFFICES ASSUME NEW r \in Processes, NEW h \in 1..MaxHandles
                 PROVE  Held(r, h)' = Held(r, h)
      BY DEF HeldSame
    <2>1. CASE r = p /\ h = k
      <3>1. Dropped(p, k) BY <1>1, <1>3 DEF Dropped
      <3>2. io_devices'[p][k] = Invalid BY <1>3, <1>5
      <3> QED BY <2>1, <3>1, <3>2 DEF Held
    <2>2. CASE ~(r = p /\ h = k)
      <3>1. DroppedBy(p, r, h)' <=> DroppedBy(p, r, h)
        BY <1>3, <1>6, <2>2 DEF DroppedBy, NoCall
      <3>2. Dropped(r, h)' <=> Dropped(r, h) BY <1>6, <3>1, DroppedStay
      <3>3. DOMAIN io_devices'[r] = DOMAIN io_devices[r] BY <1>4, <1>5
      <3>4. h \in DOMAIN io_devices[r] => io_devices'[r][h] = io_devices[r][h]
        BY <1>3, <1>5, <2>2
      <3> QED BY <3>2, <3>3, <3>4 DEF Held
    <2> QED BY <2>1, <2>2
  <1>8. RecordsAlone(p)
    <2>1. \A q \in Processes : q # p /\ calls[q].back \in {"start", "reap"} => calls[q].child # p
      BY <1>3, ChildAlone
    <2>2. \A q \in Processes : Len(io_devices[q]) <= MaxHandles BY <1>1, HandleRange, Ranges
    <2>3. \A q \in Processes : calls[q].child \in Processes BY Parts
    <2> QED BY <1>2, <1>5, <2>1, <2>2, <2>3 DEF RecordsAlone
  <1>9. RecordInv' BY <1>1, <1>2, <1>3, <1>4, <1>5 DEF RecordInv
  <1>10. ChildrenApart' BY <1>6, ChildrenStayApart DEF NoCall
  <1>11. Len(io_devices'[p]) <= MaxHandles BY <1>1, <1>4, <1>5, HandleRange
  <1>12. CallInv(p)' /\ ChildInv(p)'
    <2>1. Len(io_devices'[p]) + 0 <= MaxHandles BY <1>1, <1>4, <1>5, <1>11
    <2> QED BY <1>6, <2>1 DEF CallInv, ChildInv, NoCall, BackOf, Wanted
  <1>13. NoCall.seen = Unseen /\ Plain(NoCall) /\ Plain(calls[p])
    BY <1>1 DEF NoCall, Plain
  <1> QED
    BY <1>1, <1>2, <1>5, <1>6, <1>7, <1>8, <1>9, <1>10, <1>12, <1>13, RecordStep DEF TypeInv

LEMMA CreateProcessKeeps ==
  ASSUME Core, NEW p \in Processes, NEW q \in Processes, CreateProcess(p, q)
  PROVE  Core'
  <1> DEFINE s == [h \in 1..StdHandles |-> Invalid]
             d == [calls[p] EXCEPT !.pc = "inherit", !.child = q, !.handle = 1, !.back = "start"]
  <1>1. /\ TypeInv /\ CallInv(p) /\ calls[p] = NoCall /\ alive[p] = "running" /\ RecordInv
        /\ io_devices[p] \in Seq(Fd) /\ alive[q] = "none" /\ ChildrenApart
        /\ \A r \in Processes : ChildInv(r) /\ CallInv(r)
    BY Parts DEF CreateProcess, MayCall, At
  <1>2. /\ calls' = [calls EXCEPT ![p] = d]
        /\ alive' = [alive EXCEPT ![q] = "starting"]
        /\ io_devices' = [io_devices EXCEPT ![q] = s]
        /\ UNCHANGED <<files, connections, pipes, lost>>
    BY DEF CreateProcess
  <1>3. /\ s \in Seq(Fd) /\ Len(s) = StdHandles /\ \A h \in 1..StdHandles : s[h] = Invalid
        /\ DOMAIN s = 1..StdHandles
    BY Ranges DEF Fd
  <1>4. /\ d.pc = "inherit" /\ d.fd = Invalid /\ d.out = Invalid /\ d.handle = 1
        /\ d.child = q /\ d.back = "start" /\ d.seen = Unseen
    BY <1>1 DEF NoCall
  <1>5. d \in Call
    <2>1. 1 \in 0..MaxHandles BY Ranges
    <2> QED BY <1>1, <2>1, NoCallIsCall DEF Call, Labels
  <1> HIDE DEF d, s
  <1>6. Sets(p, d) BY <1>2, <1>5 DEF Sets
  <1>7. calls'[p] = d /\ CallsAlone(p) BY <1>1, <1>6, SetsOne DEF CallsAlone
  <1>8. /\ io_devices' \in [Processes -> Seq(Fd)] /\ io_devices'[q] = s
        /\ \A r \in Processes : r # q => io_devices'[r] = io_devices[r] /\ alive'[r] = alive[r]
        /\ alive'[q] = "starting" /\ p # q /\ io_devices[q] = <<>>
        /\ alive' \in [Processes -> {"none", "starting", "running", "exited", "cleaned"}]
    BY <1>1, <1>2, <1>3 DEF TypeInv, RecordInv
  <1>9. HeldSame
    <2> SUFFICES ASSUME NEW r \in Processes, NEW h \in 1..MaxHandles
                 PROVE  Held(r, h)' = Held(r, h)
      BY DEF HeldSame
    <2>1. CASE r = q BY <1>3, <1>8, <2>1 DEF Held
    <2>2. CASE r # q
      <3>1. DroppedBy(p, r, h)' <=> DroppedBy(p, r, h)
        BY <1>1, <1>4, <1>7 DEF DroppedBy, NoCall
      <3>2. Dropped(r, h)' <=> Dropped(r, h) BY <1>7, <3>1, DroppedStay
      <3> QED BY <1>8, <2>2, <3>2 DEF Held
    <2> QED BY <2>1, <2>2
  <1>10. \A r \in Processes : r # p /\ calls[r].back \in {"start", "reap"} =>
            calls[r].child # q /\ calls[r].child \in Processes
    BY <1>1, ChildAlone, Parts
  <1>11. RecordsAlone(p)
    <2>1. \A r \in Processes : Len(io_devices[r]) <= MaxHandles BY <1>1, HandleRange, Ranges
    <2>2. Len(s) <= MaxHandles BY <1>3, Ranges
    <2> QED BY <1>1, <1>8, <1>10, <2>1, <2>2 DEF RecordsAlone
  <1>12. RecordInv'
    <2>1. alive'[q] = "starting" /\ Len(io_devices'[q]) >= StdHandles
      BY <1>3, <1>8, Ranges
    <2>2. \A r \in Processes : r # q =>
            alive'[r] = alive[r] /\ io_devices'[r] = io_devices[r]
      BY <1>8
    <2> QED BY <1>1, <2>1, <2>2 DEF RecordInv
  <1>13. ChildrenApart' BY <1>1, <1>4, <1>7, <1>10 DEF ChildrenApart, CallsAlone
  <1>14. CallInv(p)'
    <2>1. Wanted(d) = 0 BY <1>4 DEF Wanted
    <2>2. Len(io_devices[p]) + 0 <= MaxHandles BY <1>1, HandleRange
    <2> QED BY <1>1, <1>4, <1>7, <1>8, <2>1, <2>2 DEF CallInv, BackOf
  <1>15. ChildInv(p)' BY <1>3, <1>4, <1>7, <1>8, Ranges DEF ChildInv
  <1>16. Plain(calls[p]) /\ Plain(d) BY <1>1, <1>4 DEF NoCall, Plain
  <1> QED BY <1>2, <1>4, <1>6, <1>8, <1>9, <1>11, <1>12, <1>13, <1>14, <1>15, <1>16, RecordStep

LEMMA StartProcessKeeps ==
  ASSUME Core, NEW p \in Processes, StartProcess(p)
  PROVE  Core'
  <1> DEFINE q == calls[p].child
  <1>1. /\ TypeInv /\ CallInv(p) /\ ChildInv(p) /\ calls[p] \in Call /\ RecordInv
        /\ calls[p].pc = "start" /\ q \in Processes
        /\ \A r \in Processes : CallInv(r)
    BY Parts DEF StartProcess, At
  <1>2. /\ Return(p) /\ UNCHANGED <<files, connections, pipes, io_devices, lost>>
        /\ alive' = [alive EXCEPT ![q] = "running"]
    BY DEF StartProcess
  <1>3. calls[p].back = "start" /\ alive[p] = "running" /\ alive[q] = "starting"
    BY <1>1 DEF CallInv, BackOf, ChildInv
  <1>4. /\ alive' \in [Processes -> {"none", "starting", "running", "exited", "cleaned"}]
        /\ alive'[q] = "running" /\ \A r \in Processes : r # q => alive'[r] = alive[r]
    BY <1>1, <1>2 DEF TypeInv
  <1>5. \A r \in Processes : r # p /\ calls[r].back \in {"start", "reap"} =>
            calls[r].child # q /\ calls[r].child \in Processes
    BY <1>3, ChildAlone, Parts
  <1> HIDE DEF q
  <1>6. Sets(p, NoCall) /\ calls'[p] = NoCall /\ CallsAlone(p)
    BY <1>1, <1>2, ReturnSets, SetsOne DEF CallsAlone
  <1>7. HeldSame
    <2>1. \A r, h : DroppedBy(p, r, h)' <=> DroppedBy(p, r, h)
      BY <1>3, <1>6 DEF DroppedBy, NoCall
    <2> QED BY <1>2, <1>6, <2>1, HeldStay
  <1>8. \A r \in Processes : Len(io_devices[r]) <= MaxHandles BY <1>1, HandleRange, Ranges
  <1>9. RecordsAlone(p) BY <1>2, <1>3, <1>4, <1>5, <1>8 DEF RecordsAlone
  <1>10. RecordInv' BY <1>1, <1>2, <1>3, <1>4 DEF RecordInv
  <1>11. ChildrenApart' BY <1>6, ChildrenStayApart DEF NoCall
  <1>12. CallInv(p)' /\ ChildInv(p)'
    <2>1. Len(io_devices[p]) + 0 <= MaxHandles BY <1>1, HandleRange
    <2> QED BY <1>2, <1>6, <2>1 DEF CallInv, ChildInv, NoCall, BackOf, Wanted
  <1>13. NoCall.seen = Unseen /\ Plain(NoCall) /\ Plain(calls[p])
    BY <1>1 DEF NoCall, Plain
  <1>14. io_devices' \in [Processes -> Seq(Fd)] BY <1>1, <1>2 DEF TypeInv
  <1> QED
    BY <1>2, <1>4, <1>6, <1>7, <1>9, <1>10, <1>11, <1>12, <1>13, <1>14, RecordStep

LEMMA ExitKeeps ==
  ASSUME Core, NEW p \in Processes, Exit(p)
  PROVE  Core'
  <1>1. /\ TypeInv /\ CallInv(p) /\ calls[p] = NoCall /\ alive[p] = "running" /\ RecordInv
        /\ \A r \in Processes : CallInv(r)
    BY Parts DEF Exit, MayCall, At
  <1>2. /\ alive' = [alive EXCEPT ![p] = "exited"]
        /\ UNCHANGED <<files, connections, pipes, io_devices, calls, lost>>
    BY DEF Exit
  <1>3. /\ alive' \in [Processes -> {"none", "starting", "running", "exited", "cleaned"}]
        /\ alive'[p] = "exited" /\ \A r \in Processes : r # p => alive'[r] = alive[r]
    BY <1>1, <1>2 DEF TypeInv
  <1>4. \A r \in Processes : r # p /\ calls[r].back \in {"start", "reap"} =>
            calls[r].child # p /\ calls[r].child \in Processes
    BY <1>1, ChildAlone, Parts
  <1>5. Sets(p, NoCall) /\ calls'[p] = NoCall /\ CallsAlone(p)
    BY <1>1, <1>2, NoCallIsCall DEF Sets, CallsAlone, TypeInv
  <1>6. HeldSame
    <2>1. \A r, h : DroppedBy(p, r, h)' <=> DroppedBy(p, r, h) BY <1>2 DEF DroppedBy
    <2> QED BY <1>2, <1>5, <2>1, HeldStay
  <1>7. \A r \in Processes : Len(io_devices[r]) <= MaxHandles BY <1>1, HandleRange, Ranges
  <1>8. RecordsAlone(p) BY <1>2, <1>3, <1>4, <1>7 DEF RecordsAlone
  <1>9. RecordInv' BY <1>1, <1>2, <1>3 DEF RecordInv
  <1>10. ChildrenApart' BY <1>5, ChildrenStayApart DEF NoCall
  <1>11. CallInv(p)' /\ ChildInv(p)'
    <2>1. Len(io_devices[p]) + 0 <= MaxHandles BY <1>1, Parts, HandleRange
    <2> QED BY <1>2, <1>5, <2>1 DEF CallInv, ChildInv, NoCall, BackOf, Wanted
  <1>12. NoCall.seen = Unseen /\ Plain(NoCall) /\ Plain(calls[p])
    BY <1>1 DEF NoCall, Plain
  <1>13. io_devices' \in [Processes -> Seq(Fd)] BY <1>1, <1>2 DEF TypeInv
  <1> QED
    BY <1>2, <1>3, <1>5, <1>6, <1>8, <1>9, <1>10, <1>11, <1>12, <1>13, RecordStep

LEMMA CleanKeeps ==
  ASSUME Core, NEW p \in Processes, NEW q \in Processes, Clean(p, q)
  PROVE  Core'
  <1> DEFINE d == [calls[p] EXCEPT !.pc = "reap", !.child = q, !.back = "reap"]
  <1>1. /\ TypeInv /\ CallInv(p) /\ calls[p] = NoCall /\ alive[p] = "running" /\ RecordInv
        /\ alive[q] = "exited" /\ TableFree /\ ChildrenApart
        /\ \A r \in Processes : CallInv(r)
    BY Parts DEF Clean, MayCall, At
  <1>2. /\ calls' = [calls EXCEPT ![p] = d]
        /\ alive' = [alive EXCEPT ![q] = "cleaned"]
        /\ UNCHANGED <<files, connections, pipes, io_devices, lost>>
    BY DEF Clean
  <1>3. /\ d.pc = "reap" /\ d.fd = Invalid /\ d.out = Invalid /\ d.handle = 0
        /\ d.child = q /\ d.back = "reap" /\ d.seen = Unseen
    BY <1>1 DEF NoCall
  <1>4. d \in Call BY <1>1, NoCallIsCall DEF Call, Labels
  <1> HIDE DEF d
  <1>5. Sets(p, d) BY <1>2, <1>4 DEF Sets
  <1>6. calls'[p] = d /\ CallsAlone(p) BY <1>1, <1>5, SetsOne DEF CallsAlone
  <1>7. /\ alive' \in [Processes -> {"none", "starting", "running", "exited", "cleaned"}]
        /\ alive'[q] = "cleaned" /\ \A r \in Processes : r # q => alive'[r] = alive[r]
        /\ p # q
    BY <1>1, <1>2 DEF TypeInv
  <1>8. HeldSame
    <2>1. ASSUME NEW r \in Processes, NEW h \in 1..MaxHandles
          PROVE  DroppedBy(p, r, h)' <=> DroppedBy(p, r, h)
      <3>1. ~(h < 0) /\ h # 0 OBVIOUS
      <3> QED BY <1>1, <1>3, <1>6, <3>1 DEF DroppedBy, NoCall
    <2> QED BY <1>2, <1>6, <2>1, HeldStay
  <1>9. \A r \in Processes : r # p /\ calls[r].back \in {"start", "reap"} =>
            calls[r].child # q /\ calls[r].child \in Processes
    BY <1>1, ChildAlone, Parts
  <1>10. \A r \in Processes : Len(io_devices[r]) <= MaxHandles BY <1>1, HandleRange, Ranges
  <1>11. RecordsAlone(p) BY <1>1, <1>2, <1>7, <1>9, <1>10 DEF RecordsAlone
  <1>12. RecordInv' BY <1>1, <1>2, <1>7 DEF RecordInv
  <1>13. ChildrenApart'
    BY <1>1, <1>3, <1>6, <1>9 DEF ChildrenApart, CallsAlone, TableFree
  <1>14. CallInv(p)'
    <2>1. Wanted(d) = 0 BY <1>3 DEF Wanted
    <2>2. Len(io_devices[p]) + 0 <= MaxHandles BY <1>1, Parts, HandleRange
    <2>3. calls'[p].pc = "reap" /\ calls'[p].back = "reap" /\ calls'[p].out = Invalid
      BY <1>3, <1>6
    <2>4. "reap" \in BackOf("reap") BY DEF BackOf
    <2>5. /\ alive'[p] = "running" /\ Wanted(calls'[p]) = 0
          /\ Len(io_devices'[p]) + 0 <= MaxHandles
      BY <1>1, <1>2, <1>6, <1>7, <2>1, <2>2
    <2> QED BY <2>3, <2>4, <2>5 DEF CallInv
  <1>15. ChildInv(p)' BY <1>3, <1>6, <1>7 DEF ChildInv
  <1>16. Plain(calls[p]) /\ Plain(d) BY <1>1, <1>3 DEF NoCall, Plain
  <1>17. io_devices' \in [Processes -> Seq(Fd)] BY <1>1, <1>2 DEF TypeInv
  <1> QED
    BY <1>2, <1>3, <1>5, <1>7, <1>8, <1>11, <1>12, <1>13, <1>14, <1>15, <1>16, <1>17, RecordStep

\* The cleaned process had all its handles closed, so none is lost with it.
LEMMA CleanEndKeeps ==
  ASSUME Core, NEW p \in Processes, CleanNext(p),
         calls[p].handle + 1 \notin DOMAIN io_devices[calls[p].child]
  PROVE  Core'
  <1> DEFINE q == calls[p].child
  <1>1. /\ TypeInv /\ CallInv(p) /\ ChildInv(p) /\ calls[p] \in Call /\ RecordInv
        /\ calls[p].pc = "reap" /\ q \in Processes /\ calls[p].handle \in 0..MaxHandles
        /\ \A r \in Processes : CallInv(r)
    BY Parts DEF CleanNext, At
  <1>2. /\ Return(p) /\ UNCHANGED <<files, connections, pipes, lost>>
        /\ alive' = [alive EXCEPT ![q] = "none"]
        /\ io_devices' = [io_devices EXCEPT ![q] = <<>>]
    BY DEF CleanNext
  <1>3. calls[p].back = "reap" /\ alive[p] = "running" /\ alive[q] = "cleaned"
    BY <1>1 DEF CallInv, BackOf, ChildInv
  <1>4. <<>> \in Seq(Fd) /\ Len(<<>>) = 0 /\ DOMAIN <<>> = {} OBVIOUS
  <1>5. /\ alive' \in [Processes -> {"none", "starting", "running", "exited", "cleaned"}]
        /\ alive'[q] = "none" /\ io_devices'[q] = <<>> /\ p # q
        /\ \A r \in Processes : r # q => alive'[r] = alive[r] /\ io_devices'[r] = io_devices[r]
        /\ io_devices' \in [Processes -> Seq(Fd)]
    BY <1>1, <1>2, <1>3, <1>4 DEF TypeInv
  <1>6. \A r \in Processes : r # p /\ calls[r].back \in {"start", "reap"} =>
            calls[r].child # q /\ calls[r].child \in Processes
    BY <1>3, ChildAlone, Parts
  <1>7. \A h \in DOMAIN io_devices[q] : h <= calls[p].handle
    BY <1>1, HandleRange
  <1>8. \A h \in DOMAIN io_devices[q] : Dropped(q, h)
    <2>1. ASSUME NEW h \in DOMAIN io_devices[q] PROVE Dropped(q, h)
      <3>1. h < calls[p].handle \/ h = calls[p].handle BY <1>1, <1>7, HandleRange
      <3> QED BY <1>1, <1>3, <3>1 DEF Dropped, At
    <2> QED BY <2>1
  <1> HIDE DEF q
  <1>9. Sets(p, NoCall) /\ calls'[p] = NoCall /\ CallsAlone(p)
    BY <1>1, <1>2, ReturnSets, SetsOne DEF CallsAlone
  <1>10. HeldSame
    <2> SUFFICES ASSUME NEW r \in Processes, NEW h \in 1..MaxHandles
                 PROVE  Held(r, h)' = Held(r, h)
      BY DEF HeldSame
    <2>1. CASE r = q BY <1>4, <1>5, <1>8, <2>1 DEF Held
    <2>2. CASE r # q
      <3>1. DroppedBy(p, r, h)' <=> DroppedBy(p, r, h)
        BY <1>3, <1>9, <2>2 DEF DroppedBy, NoCall, q
      <3>2. Dropped(r, h)' <=> Dropped(r, h) BY <1>9, <3>1, DroppedStay
      <3> QED BY <1>5, <2>2, <3>2 DEF Held
    <2> QED BY <2>1, <2>2
  <1>11. \A r \in Processes : Len(io_devices[r]) <= MaxHandles BY <1>1, HandleRange, Ranges
  <1>12. RecordsAlone(p)
    <2>1. \A r \in Processes : Len(io_devices'[r]) <= MaxHandles
      BY <1>4, <1>5, <1>11, Ranges
    <2>2. \A r \in Processes : alive[r] = "running" => r # q BY <1>3
    <2> QED BY <1>5, <1>6, <2>1, <2>2 DEF RecordsAlone
  <1>13. RecordInv' BY <1>1, <1>5 DEF RecordInv
  <1>14. ChildrenApart' BY <1>9, ChildrenStayApart DEF NoCall
  <1>15. CallInv(p)' /\ ChildInv(p)'
    <2>1. Len(io_devices[p]) + 0 <= MaxHandles BY <1>1, HandleRange
    <2> QED BY <1>5, <1>9, <2>1 DEF CallInv, ChildInv, NoCall, BackOf, Wanted
  <1>16. NoCall.seen = Unseen /\ Plain(NoCall) /\ Plain(calls[p])
    BY <1>1 DEF NoCall, Plain
  <1> QED
    BY <1>2, <1>5, <1>9, <1>10, <1>12, <1>13, <1>14, <1>15, <1>16, RecordStep

-----------------------------------------------------------------------------
(* The steps that reserve descriptors, give them back or forget them.       *)

LEMMA SpareStep ==
  ASSUME Core, NEW p \in Processes, NEW d, Sets(p, d), d.seen = Unseen,
         UNCHANGED <<connections, pipes, io_devices, alive>>,
         files' \in [Fds -> File], lost' \subseteq Fds, SpareOnly(p),
         Unlinked(d) = {}, Unlinked(calls[p]) = {},
         d.pc # "disconnect", calls[p].pc # "disconnect",
         d.back \in {"start", "reap"} => d.back = calls[p].back /\ d.child = calls[p].child,
         ThreadInv(p)'
  PROVE  Core'
  <1>1. calls' \in [Processes -> Call] /\ calls'[p] = d /\ CallsAlone(p) /\ TypeInv
    BY SetsOne DEF CallsAlone, Core
  <1>2. TypeInv' BY <1>1 DEF TypeInv
  <1>3. Alone(p)
    <2>1. RecordsAlone(p) BY RecordsStay
    <2>2. FilesAlone(p) /\ LostAlone(p) BY DEF FilesAlone, LostAlone, SpareOnly
    <2> QED BY <1>1, <2>1, <2>2 DEF Alone
  <1>4. \A fd \in Fds : files'[fd] = files[fd] \/ (files'[fd].openCounter = 0
                                                 /\ files[fd].openCounter = 0)
    <2>1. \A fd \in Works(p) : files[fd].openCounter = 0 BY Parts DEF WorkOf
    <2>2. \A fd \in Fds : files[fd].status = "idle" => files[fd].openCounter = 0
      BY Parts DEF FilesInv, Idle
    <2>3. Idle.openCounter = 0 /\ Reserved.openCounter = 0 BY DEF Idle, Reserved
    <2> QED BY <2>1, <2>2, <2>3 DEF SpareOnly
  <1>5. LinkedStays(p)
    <2>1. \A fd \in Fds : ~(0 >= 1) OBVIOUS
    <2> QED BY <1>1, <1>4, <2>1 DEF LinkedStays
  <1>6. ChildrenApart' BY <1>1, ChildrenStayApart
  <1>7. RecordInv' BY DEF Core, RecordInv
  <1>8. FilesInv' /\ WorkApart' /\ UsersInv' BY <1>2, <1>3, SpareKept
  <1>9. ConnectionsMatch' BY <1>2, <1>3, <1>5, ConnectionsKept
  <1>10. ~Loaded(p)' BY <1>1 DEF Loaded
  <1> QED BY <1>2, <1>3, <1>6, <1>7, <1>8, <1>9, <1>10, CoreKept

LEMMA ReservedFiles ==
  ASSUME Core, NEW f \in Fds, files[f].status = "idle",
         files' = [files EXCEPT ![f].status = "reserved"]
  PROVE  /\ files' \in [Fds -> File] /\ files'[f] = Reserved
         /\ \A fd \in Fds : fd # f => files'[fd] = files[fd]
         /\ f \notin lost /\ \A q \in Processes : f \notin Works(q)
  <1>1. TypeInv /\ files[f] = Idle BY Parts, Ranges DEF FilesInv, Core
  <1>2. files' = [files EXCEPT ![f] = Reserved] BY <1>1 DEF Reserved
  <1>3. /\ files' \in [Fds -> File] /\ files'[f] = Reserved
        /\ \A fd \in Fds : fd # f => files'[fd] = files[fd]
    BY <1>1, <1>2, IdleIsFile DEF TypeInv
  <1>4. f \notin lost
    <2>1. files[f].openCounter = 0 /\ files[f] # Reserved BY <1>1 DEF Idle, Reserved
    <2>2. Users(f) \in Nat BY UsersAreFinite
    <2> QED BY <2>1, <2>2, Parts, Ranges DEF UsersInv, Core
  <1>5. \A q \in Processes : f \notin Works(q) BY Parts DEF WorkOf
  <1> QED BY <1>3, <1>4, <1>5

\* One descriptor is reserved, by a thread that begins to open.
LEMMA ReserveStep ==
  ASSUME Core, NEW p \in Processes, NEW d, Sets(p, d), d.seen = Unseen,
         NEW f \in Fds, files[f].status = "idle",
         files' = [files EXCEPT ![f].status = "reserved"],
         UNCHANGED <<connections, pipes, io_devices, alive, lost>>,
         Plain(calls[p]), d.pc \in {"driver", "reserveOut"}, d.fd = f,
         d.back \in {"user", "install", "start"}, calls[p].back \in {"user", "start"},
         d.back = "start" => d.back = calls[p].back /\ d.child = calls[p].child,
         CallInv(p)', ChildInv(p)'
  PROVE  Core'
  <1>1. calls'[p] = d /\ CallsAlone(p) BY SetsOne DEF CallsAlone, Core
  <1>2. /\ files' \in [Fds -> File] /\ files'[f] = Reserved
        /\ \A fd \in Fds : fd # f => files'[fd] = files[fd]
        /\ f \notin lost
    BY ReservedFiles
  <1>3. /\ OpenedBy(d) = {} /\ Unlinked(d) = {} /\ WorkedAt(d) = {f}
        /\ OpenedBy(calls[p]) = {} /\ Unlinked(calls[p]) = {}
        /\ calls[p].pc # "disconnect"
    BY PlainCall DEF OpenedBy, Unlinked, WorkedAt, Reserving
  <1>4. HeldSame
    <2>1. \A r, h : DroppedBy(p, r, h)' <=> DroppedBy(p, r, h)
      BY <1>1 DEF DroppedBy
    <2> QED BY <1>1, <2>1, HeldStay
  <1>5. Works(p)' = {f} /\ Opened(p)' = {} /\ Opened(p) = {}
    BY <1>1, <1>3, Ranges DEF Works, Opened
  <1>6. SpareOnly(p) BY <1>2, <1>4, <1>5 DEF SpareOnly
  <1>7. ThreadInv(p)'
    <2>1. Reserved.openCounter = 0 /\ Reserved.status # "idle" BY DEF Reserved, Idle
    <2>2. WorkOf(p)' BY <1>1, <1>2, <1>5, <2>1, Ranges DEF WorkOf, Closing
    <2>3. OpenOf(p)' BY <1>1, <1>5 DEF OpenOf
    <2> QED BY <2>2, <2>3 DEF ThreadInv
  <1>8. lost' \subseteq Fds BY DEF Core, TypeInv
  <1> QED BY <1>2, <1>3, <1>6, <1>7, <1>8, SpareStep

LEMMA OpenReserveKeeps ==
  ASSUME Core, NEW p \in Processes, OpenReserve(p)
  PROVE  Core'
  <1> DEFINE f == getFreeDescriptorIndex(0)
             d == [calls[p] EXCEPT !.pc = "driver", !.fd = f, !.back = "install"]
  <1>1. /\ TypeInv /\ CallInv(p) /\ calls[p] = NoCall /\ alive[p] = "running"
        /\ io_devices[p] \in Seq(Fd)
    BY Parts DEF OpenReserve, MayCall, At
  <1>2. /\ calls' = [calls EXCEPT ![p] = d]
        /\ files' = [files EXCEPT ![f].status = "reserved"]
        /\ UNCHANGED <<connections, pipes, io_devices, alive, lost>>
        /\ f # Invalid /\ Len(io_devices[p]) < MaxHandles
    BY DEF OpenReserve
  <1>3. f \in Fds /\ files[f].status = "idle" BY <1>2, FreeDescriptor
  <1> HIDE DEF f
  <1>4. /\ d.pc = "driver" /\ d.fd = f /\ d.out = Invalid /\ d.back = "install"
        /\ d.seen = Unseen
    BY <1>1 DEF NoCall
  <1>5. d \in Call BY <1>1, <1>3, NoCallIsCall DEF Call, Labels, Fd
  <1> HIDE DEF d
  <1>6. Sets(p, d) BY <1>2, <1>5 DEF Sets
  <1>7. calls'[p] = d BY <1>1, <1>6, SetsOne
  <1>8. CallInv(p)'
    <2>1. Wanted(d) = 1 BY <1>4 DEF Wanted
    <2>2. Len(io_devices[p]) + 1 <= MaxHandles BY <1>1, <1>2, Ranges
    <2> QED BY <1>1, <1>2, <1>4, <1>7, <2>1, <2>2 DEF CallInv, BackOf
  <1>9. ChildInv(p)' BY <1>4, <1>7 DEF ChildInv
  <1>10. Plain(calls[p]) /\ calls[p].back = "user" BY <1>1 DEF Plain, NoCall
  <1> QED BY <1>2, <1>3, <1>4, <1>6, <1>8, <1>9, <1>10, ReserveStep

LEMMA PipeReserveInKeeps ==
  ASSUME Core, NEW p \in Processes, PipeReserveIn(p), getFreeDescriptorIndex(0) # Invalid
  PROVE  Core'
  <1> DEFINE f == getFreeDescriptorIndex(0)
             d == [calls[p] EXCEPT !.pc = "reserveOut", !.fd = f]
  <1>1. /\ TypeInv /\ CallInv(p) /\ calls[p] = NoCall /\ alive[p] = "running"
        /\ io_devices[p] \in Seq(Fd)
    BY Parts DEF PipeReserveIn, MayCall, At
  <1>2. /\ calls' = [calls EXCEPT ![p] = d]
        /\ files' = [files EXCEPT ![f].status = "reserved"]
        /\ UNCHANGED <<connections, pipes, io_devices, alive, lost>>
        /\ Len(io_devices[p]) + 2 <= MaxHandles
    BY DEF PipeReserveIn
  <1>3. f \in Fds /\ files[f].status = "idle" BY FreeDescriptor
  <1> HIDE DEF f
  <1>4. /\ d.pc = "reserveOut" /\ d.fd = f /\ d.out = Invalid /\ d.back = "user"
        /\ d.seen = Unseen
    BY <1>1 DEF NoCall
  <1>5. d \in Call BY <1>1, <1>3, NoCallIsCall DEF Call, Labels, Fd
  <1> HIDE DEF d
  <1>6. Sets(p, d) BY <1>2, <1>5 DEF Sets
  <1>7. calls'[p] = d BY <1>1, <1>6, SetsOne
  <1>8. CallInv(p)'
    <2>1. Wanted(d) = 2 BY <1>4 DEF Wanted
    <2> QED BY <1>1, <1>2, <1>4, <1>7, <2>1 DEF CallInv, BackOf
  <1>9. ChildInv(p)' BY <1>4, <1>7 DEF ChildInv
  <1>10. Plain(calls[p]) /\ calls[p].back = "user" BY <1>1 DEF Plain, NoCall
  <1> QED BY <1>2, <1>3, <1>4, <1>6, <1>8, <1>9, <1>10, ReserveStep

LEMMA AddToProcFSKeeps ==
  ASSUME Core, NEW p \in Processes, AddToProcFS(p), getFreeDescriptorIndex(0) # Invalid
  PROVE  Core'
  <1> DEFINE f == getFreeDescriptorIndex(0)
             d == [calls[p] EXCEPT !.pc = "driver", !.fd = f]
  <1>1. /\ TypeInv /\ CallInv(p) /\ ChildInv(p) /\ calls[p] \in Call /\ SeenInv
        /\ calls[p].pc = "record" /\ io_devices[p] \in Seq(Fd)
    BY Parts DEF AddToProcFS, At
  <1>2. /\ calls' = [calls EXCEPT ![p] = d]
        /\ files' = [files EXCEPT ![f].status = "reserved"]
        /\ UNCHANGED <<connections, pipes, io_devices, alive, lost>>
    BY DEF AddToProcFS
  <1>3. f \in Fds /\ files[f].status = "idle" BY FreeDescriptor
  <1> HIDE DEF f
  <1>4. calls[p].back = "start" /\ alive[p] = "running" BY <1>1 DEF CallInv, BackOf
  <1>5. /\ d.pc = "driver" /\ d.fd = f /\ d.out = calls[p].out /\ d.back = "start"
        /\ d.handle = calls[p].handle /\ d.child = calls[p].child /\ d.seen = Unseen
    <2>1. calls[p].seen = Unseen BY <1>1 DEF SeenInv, Loaded, CountsNow
    <2> QED BY <1>1, <1>4, <2>1 DEF Call
  <1>6. d \in Call BY <1>1, <1>3 DEF Call, Labels, Fd
  <1> HIDE DEF d
  <1>7. Sets(p, d) BY <1>2, <1>6 DEF Sets
  <1>8. calls'[p] = d BY <1>1, <1>7, SetsOne
  <1>9. CallInv(p)'
    <2>1. Wanted(d) = 0 /\ Wanted(calls[p]) = 0 BY <1>1, <1>4, <1>5 DEF Wanted
    <2> QED BY <1>1, <1>2, <1>4, <1>5, <1>8, <2>1 DEF CallInv, BackOf
  <1>10. ChildInv(p)' BY <1>1, <1>2, <1>4, <1>5, <1>8 DEF ChildInv
  <1>11. Plain(calls[p]) BY <1>1 DEF Plain
  <1> QED BY <1>2, <1>3, <1>4, <1>5, <1>7, <1>9, <1>10, <1>11, ReserveStep

LEMMA PipeReserveOutKeeps ==
  ASSUME Core, NEW p \in Processes, PipeReserveOut(p)
  PROVE  Core'
  <1> DEFINE f == getFreeDescriptorIndex(calls[p].fd + 1)
             d == [calls[p] EXCEPT !.pc = "scan", !.out = f]
  <1>1. /\ TypeInv /\ CallInv(p) /\ ChildInv(p) /\ WorkOf(p) /\ calls[p] \in Call /\ SeenInv
        /\ calls[p].pc = "reserveOut" /\ io_devices[p] \in Seq(Fd) /\ calls[p].fd \in Fd
    BY Parts DEF PipeReserveOut, At
  <1>2. /\ files' = IF f = Invalid THEN files ELSE [files EXCEPT ![f].status = "reserved"]
        /\ UNCHANGED <<connections, pipes, io_devices, alive>>
        /\ IF Invalid \in {f, calls[p].fd}
           THEN lost' = lost \cup ({f, calls[p].fd} \ {Invalid}) /\ Return(p)
           ELSE lost' = lost /\ calls' = [calls EXCEPT ![p] = d]
    BY DEF PipeReserveOut
  <1>3. f = Invalid \/ (f \in Fds /\ f >= calls[p].fd + 1 /\ files[f].status = "idle")
    <2>1. calls[p].fd + 1 \in Nat BY <1>1, Ranges DEF Fd, Invalid, Fds
    <2> QED BY <2>1, FreeDescriptor
  <1> HIDE DEF f
  <1>4. calls[p].back = "user" /\ alive[p] = "running" /\ calls[p].out = Invalid
    BY <1>1 DEF CallInv, BackOf
  <1>5. /\ OpenedBy(calls[p]) = {} /\ Unlinked(calls[p]) = {}
        /\ WorkedAt(calls[p]) = {calls[p].fd}
    BY <1>1 DEF OpenedBy, Unlinked, WorkedAt, Reserving, Closing
  <1>6. Works(p) = {calls[p].fd} \ {Invalid} /\ Opened(p) = {} /\ Works(p) \subseteq Fds
    BY <1>1, <1>5 DEF Works, Opened, Fd
  <1>7. \A fd \in Works(p) : files[fd] = Reserved /\ fd \notin lost /\ files[fd].status # "idle"
    BY <1>1 DEF WorkOf, Reserving
  <1>8. /\ files' \in [Fds -> File]
        /\ \A fd \in Fds : fd # f => files'[fd] = files[fd]
        /\ f # Invalid => files'[f] = Reserved /\ f \notin lost
    <2>1. CASE f = Invalid BY <1>1, <1>2, <2>1 DEF TypeInv
    <2>2. CASE f # Invalid BY <1>2, <1>3, <2>2, ReservedFiles
    <2> QED BY <2>1, <2>2
  <1>9. ASSUME NEW e, Sets(p, e), e.back = "user"
        PROVE  HeldSame
    <2>1. calls'[p] = e /\ CallsAlone(p) BY <1>1, <1>9, SetsOne DEF CallsAlone
    <2>2. \A r, h : DroppedBy(p, r, h)' <=> DroppedBy(p, r, h)
      BY <1>4, <1>9, <2>1 DEF DroppedBy
    <2> QED BY <1>2, <2>1, <2>2, HeldStay
  <1>10. CASE Invalid \in {f, calls[p].fd}
    <2>1. Sets(p, NoCall) BY <1>2, <1>10, ReturnSets
    <2>2. calls'[p] = NoCall BY <1>1, <2>1, SetsOne
    <2>3. NoCall.back = "user" /\ NoCall.pc = "user" /\ NoCall.seen = Unseen BY DEF NoCall
    <2>4. HeldSame BY <1>9, <2>1, <2>3
    <2>5. ThreadInv(p)'
      <3>1. Plain(NoCall) BY <2>3 DEF Plain
      <3>2. Len(io_devices[p]) + 0 <= MaxHandles BY <1>1, HandleRange
      <3>3. CallInv(p)' /\ ChildInv(p)'
        BY <1>2, <2>2, <3>2 DEF CallInv, ChildInv, NoCall, BackOf, Wanted
      <3> QED BY <2>2, <3>1, <3>3, PlainThread
    <2>6. Works(p)' = {} /\ Opened(p)' = {} /\ Unlinked(NoCall) = {}
      BY <2>2, <2>3 DEF Works, WorkedAt, Opened, OpenedBy, Unlinked, Reserving, Closing
    <2>7. lost' = lost \cup ({f, calls[p].fd} \ {Invalid}) BY <1>2, <1>10
    <2>8. lost' \subseteq Fds BY <1>1, <1>3, <1>6, <2>7 DEF TypeInv
    <2>9. SpareOnly(p)
      <3>1. ASSUME NEW fd \in Fds
            PROVE  /\ files'[fd] = files[fd] \/ (files[fd].status = "idle" /\ files'[fd] = Reserved)
                   /\ fd \in lost' => \/ fd \in lost
                                      \/ /\ files'[fd] = Reserved
                                         /\ fd \in Works(p) \/ files[fd].status = "idle"
        <4>1. CASE fd = f BY <1>3, <1>8, <4>1, Ranges
        <4>2. CASE fd # f BY <1>6, <1>7, <1>8, <2>7, <4>2
        <4> QED BY <4>1, <4>2
      <3> QED BY <1>6, <2>4, <2>6, <2>7, <3>1 DEF SpareOnly
    <2> QED
      BY <1>1, <1>2, <1>5, <1>8, <2>1, <2>3, <2>5, <2>6, <2>8, <2>9, SpareStep
  <1>11. CASE Invalid \notin {f, calls[p].fd}
    <2>1. f \in Fds /\ f # calls[p].fd /\ calls[p].fd \in Fds
      BY <1>1, <1>3, <1>11, Ranges DEF Fd, Fds
    <2>2. d \in Call BY <1>1, <2>1 DEF Call, Labels, Fd
    <2>3. /\ d.pc = "scan" /\ d.fd = calls[p].fd /\ d.out = f /\ d.back = "user"
          /\ d.seen = Unseen
      <3>1. calls[p].seen = Unseen BY <1>1 DEF SeenInv, Loaded, CountsNow
      <3> QED BY <1>1, <1>4, <3>1 DEF Call
    <2> HIDE DEF d
    <2>4. Sets(p, d) BY <1>2, <1>11, <2>2 DEF Sets
    <2>5. calls'[p] = d BY <1>1, <2>4, SetsOne
    <2>6. HeldSame BY <1>9, <2>3, <2>4
    <2>7. /\ OpenedBy(d) = {} /\ Unlinked(d) = {} /\ WorkedAt(d) = {calls[p].fd, f}
      BY <2>3 DEF OpenedBy, Unlinked, WorkedAt, Reserving
    <2>8. Works(p)' = {calls[p].fd, f} /\ Opened(p)' = {}
      BY <2>1, <2>5, <2>7, Ranges DEF Works, Opened
    <2>9. lost' = lost BY <1>2, <1>11
    <2>10. SpareOnly(p)
      BY <1>3, <1>6, <1>8, <2>1, <2>6, <2>8, <2>9, Ranges DEF SpareOnly
    <2>11. ThreadInv(p)'
      <3>1. Reserved.openCounter = 0 /\ Reserved.status # "idle" BY DEF Reserved, Idle
      <3>2. \A fd \in Works(p)' : files'[fd] = Reserved /\ fd \notin lost'
        BY <1>6, <1>7, <1>8, <1>11, <2>1, <2>8, <2>9
      <3>3. WorkOf(p)' BY <2>1, <2>3, <2>5, <3>1, <3>2, Ranges DEF WorkOf, Closing
      <3>4. OpenOf(p)' BY <2>3, <2>5, <2>8 DEF OpenOf
      <3>5. Wanted(d) = 2 /\ Wanted(calls[p]) = 2 BY <1>1, <1>4, <2>3 DEF Wanted
      <3>6. CallInv(p)' BY <1>1, <1>2, <1>4, <2>3, <2>5, <3>5 DEF CallInv, BackOf
      <3>7. ChildInv(p)' BY <2>3, <2>5 DEF ChildInv
      <3> QED BY <3>3, <3>4, <3>6, <3>7 DEF ThreadInv
    <2>12. lost' \subseteq Fds BY <1>1, <2>9 DEF TypeInv
    <2> QED
      BY <1>1, <1>2, <1>5, <1>8, <2>3, <2>4, <2>7, <2>10, <2>11, <2>12, SpareStep
  <1> QED BY <1>10, <1>11

\* A thread whose call ends that was at work on nothing open.
LEMMA ReturnStep ==
  ASSUME Core, NEW p \in Processes, Return(p),
         UNCHANGED <<connections, pipes, io_devices, alive>>,
         calls[p].back \in {"user", "install"}, calls[p].pc # "disconnect",
         Opened(p) = {}, Unlinked(calls[p]) = {},
         files' \in [Fds -> File], lost' \subseteq Fds, lost \subseteq lost',
         \A fd \in Fds : \/ files'[fd] = files[fd]
                         \/ fd \in Works(p) /\ files'[fd] = Idle,
         \A fd \in Fds : fd \in lost' /\ fd \notin lost =>
             fd \in Works(p) /\ files'[fd] = Reserved
  PROVE  Core'
  <1>1. Sets(p, NoCall) BY ReturnSets
  <1>2. calls'[p] = NoCall /\ CallsAlone(p) BY <1>1, SetsOne DEF CallsAlone, Core
  <1>3. NoCall.back = "user" /\ NoCall.pc = "user" /\ NoCall.seen = Unseen BY DEF NoCall
  <1>4. HeldSame
    <2>1. \A r, h : DroppedBy(p, r, h)' <=> DroppedBy(p, r, h)
      BY <1>2, <1>3 DEF DroppedBy
    <2> QED BY <1>2, <2>1, HeldStay
  <1>5. ThreadInv(p)'
    <2>1. Plain(NoCall) BY <1>3 DEF Plain
    <2>2. Len(io_devices[p]) + 0 <= MaxHandles BY Parts, HandleRange
    <2>3. CallInv(p)' /\ ChildInv(p)'
      BY <1>2, <2>2 DEF CallInv, ChildInv, NoCall, BackOf, Wanted
    <2> QED BY <1>2, <2>1, <2>3, PlainThread
  <1>6. Works(p)' = {} /\ Opened(p)' = {} /\ Unlinked(NoCall) = {}
    BY <1>2, <1>3 DEF Works, WorkedAt, Opened, OpenedBy, Unlinked, Reserving, Closing
  <1>7. SpareOnly(p) BY <1>4, <1>6 DEF SpareOnly
  <1> QED BY <1>1, <1>3, <1>5, <1>6, <1>7, SpareStep

LEMMA PipeScanFailsKeeps ==
  ASSUME Core, NEW p \in Processes, PipeScan(p), FreePipes = {}
  PROVE  Core'
  <1>1. /\ TypeInv /\ CallInv(p) /\ WorkOf(p) /\ calls[p] \in Call /\ calls[p].pc = "scan"
    BY Parts DEF PipeScan, At
  <1>2. /\ Return(p) /\ lost' = lost \cup {calls[p].fd, calls[p].out}
        /\ UNCHANGED <<files, connections, pipes, io_devices, alive>>
    BY DEF PipeScan
  <1>3. calls[p].back = "user" BY <1>1 DEF CallInv, BackOf
  <1>4. /\ Opened(p) = {} /\ Unlinked(calls[p]) = {}
        /\ Works(p) = {calls[p].fd, calls[p].out} \ {Invalid}
    BY <1>1 DEF Opened, OpenedBy, Unlinked, Works, WorkedAt, Reserving
  <1>5. calls[p].fd # Invalid /\ calls[p].out # Invalid BY <1>1 DEF WorkOf
  <1>6. \A fd \in Works(p) : files[fd] = Reserved BY <1>1 DEF WorkOf, Reserving
  <1>7. lost' \subseteq Fds BY <1>1, <1>2, <1>5 DEF Call, Fd, TypeInv
  <1>8. files' \in [Fds -> File] BY <1>1, <1>2 DEF TypeInv
  <1> QED BY <1>1, <1>2, <1>3, <1>4, <1>5, <1>6, <1>7, <1>8, ReturnStep

LEMMA ClearedFile ==
  ASSUME Core, NEW f \in Fds, files' = [files EXCEPT ![f] = Idle]
  PROVE  /\ files' \in [Fds -> File] /\ files'[f] = Idle
         /\ \A fd \in Fds : fd # f => files'[fd] = files[fd]
  BY IdleIsFile DEF Core, TypeInv

\* The driver of the file system does not find the file.
OpenFails(p) ==
    /\ At(p, "driver")
    /\ files' = [files EXCEPT ![calls[p].fd] = Idle]
    /\ IF calls[p].back = "start" THEN Goto(p, "start") ELSE Return(p)
    /\ UNCHANGED <<connections, pipes, io_devices, alive, lost>>

LEMMA OpenFailsKeeps ==
  ASSUME Core, NEW p \in Processes, OpenFails(p)
  PROVE  Core'
  <1> DEFINE d == [calls[p] EXCEPT !.pc = "start", !.seen = Unseen]
  <1>1. /\ TypeInv /\ CallInv(p) /\ ChildInv(p) /\ WorkOf(p) /\ calls[p] \in Call
        /\ calls[p].pc = "driver" /\ "start" \in Labels
    BY Parts DEF OpenFails, At, Labels
  <1>2. /\ files' = [files EXCEPT ![calls[p].fd] = Idle]
        /\ UNCHANGED <<connections, pipes, io_devices, alive, lost>>
        /\ IF calls[p].back = "start" THEN Goto(p, "start") ELSE Return(p)
    BY DEF OpenFails
  <1>3. calls[p].back \in {"install", "start"} /\ calls[p].fd \in Fds
        /\ alive[p] = "running"
    BY <1>1 DEF CallInv, BackOf, WorkOf, Call, Fd
  <1>4. /\ Opened(p) = {} /\ Unlinked(calls[p]) = {} /\ Works(p) = {calls[p].fd}
    BY <1>1, <1>3, Ranges DEF Opened, OpenedBy, Unlinked, Works, WorkedAt, Reserving
  <1>5. /\ files' \in [Fds -> File] /\ files'[calls[p].fd] = Idle
        /\ \A fd \in Fds : fd # calls[p].fd => files'[fd] = files[fd]
    BY <1>2, <1>3, ClearedFile
  <1>6. lost' \subseteq Fds /\ lost' = lost BY <1>1, <1>2 DEF TypeInv
  <1>7. CASE calls[p].back = "install"
    BY <1>1, <1>2, <1>4, <1>5, <1>6, <1>7, ReturnStep
  <1>8. CASE calls[p].back = "start"
    <2>1. Sets(p, d) BY <1>1, <1>2, <1>8, GotoSets
    <2>2. /\ d.pc = "start" /\ d.fd = calls[p].fd /\ d.out = calls[p].out
          /\ d.handle = calls[p].handle /\ d.child = calls[p].child
          /\ d.back = calls[p].back /\ d.seen = Unseen
      BY <1>1 DEF Call
    <2> HIDE DEF d
    <2>3. calls'[p] = d /\ CallsAlone(p) BY <1>1, <2>1, SetsOne DEF CallsAlone
    <2>4. HeldSame
      <3>1. \A r, h : DroppedBy(p, r, h)' <=> DroppedBy(p, r, h)
        BY <1>8, <2>2, <2>3 DEF DroppedBy
      <3> QED BY <1>2, <2>3, <3>1, HeldStay
    <2>5. Plain(d) BY <2>2 DEF Plain
    <2>6. ThreadInv(p)'
      <3>1. Wanted(d) = 0 /\ Wanted(calls[p]) = 0 BY <1>1, <1>8, <2>2 DEF Wanted
      <3>2. CallInv(p)' BY <1>1, <1>2, <1>3, <1>8, <2>2, <2>3, <3>1 DEF CallInv, BackOf
      <3>3. ChildInv(p)' BY <1>1, <1>2, <1>8, <2>2, <2>3 DEF ChildInv
      <3> QED BY <2>3, <2>5, <3>2, <3>3, PlainThread
    <2>7. Works(p)' = {} /\ Opened(p)' = {} /\ Unlinked(d) = {}
      BY <2>3, <2>5, PlainCall DEF Works, Opened
    <2>8. SpareOnly(p) BY <1>4, <1>5, <1>6, <2>4, <2>7 DEF SpareOnly
    <2> QED BY <1>1, <1>2, <1>4, <1>5, <1>6, <1>8, <2>1, <2>2, <2>6, <2>7, <2>8, SpareStep
  <1> QED BY <1>3, <1>7, <1>8

\* A close has ended: what it closed is no longer worked at.
LEMMA ClosedStep ==
  ASSUME Core, NEW p \in Processes, AfterClose(p),
         calls[p].pc \in {"cleanup", "clear"},
         UNCHANGED <<connections, pipes, io_devices, alive, lost>>,
         files' = files \/ files' = [files EXCEPT ![calls[p].fd] = Idle]
  PROVE  Core'
  <1> DEFINE d == [calls[p] EXCEPT !.pc = calls[p].back, !.fd = Invalid, !.seen = Unseen]
  <1>1. /\ TypeInv /\ CallInv(p) /\ ChildInv(p) /\ WorkOf(p) /\ calls[p] \in Call
    BY Parts
  <1>2. calls[p].back \in {"start", "remove", "reap"} /\ calls[p].fd \in Fds
        /\ calls[p].back \in Labels /\ alive[p] = "running"
    BY <1>1 DEF CallInv, BackOf, WorkOf, Closing, Call, Fd, Labels
  <1>3. Sets(p, d) BY <1>1, <1>2, AfterCloseSets
  <1>4. /\ d.pc = calls[p].back /\ d.fd = Invalid /\ d.out = calls[p].out
        /\ d.handle = calls[p].handle /\ d.child = calls[p].child
        /\ d.back = calls[p].back /\ d.seen = Unseen
    BY <1>1 DEF Call
  <1> HIDE DEF d
  <1>5. calls'[p] = d /\ CallsAlone(p) BY <1>1, <1>3, SetsOne DEF CallsAlone
  <1>6. HeldSame
    <2>1. \A r, h : DroppedBy(p, r, h)' <=> DroppedBy(p, r, h)
      BY <1>2, <1>4, <1>5 DEF DroppedBy, Closing
    <2> QED BY <1>5, <2>1, HeldStay
  <1>7. Plain(d) BY <1>2, <1>4 DEF Plain
  <1>8. ThreadInv(p)'
    <2>1. Wanted(d) = 0 /\ Wanted(calls[p]) = 0 BY <1>2, <1>4 DEF Wanted
    <2>2. CallInv(p)' BY <1>1, <1>2, <1>4, <1>5, <2>1 DEF CallInv, BackOf
    <2>3. ChildInv(p)' BY <1>1, <1>2, <1>4, <1>5 DEF ChildInv
    <2> QED BY <1>5, <1>7, <2>2, <2>3, PlainThread
  <1>9. Works(p)' = {} /\ Opened(p)' = {} /\ Unlinked(d) = {}
    BY <1>5, <1>7, PlainCall DEF Works, Opened
  <1>10. /\ Opened(p) = {} /\ Unlinked(calls[p]) = {} /\ Works(p) = {calls[p].fd}
    BY <1>2, Ranges DEF Opened, OpenedBy, Unlinked, Works, WorkedAt, Reserving, Closing
  <1>11. /\ files' \in [Fds -> File]
         /\ \A fd \in Fds : files'[fd] = files[fd] \/ (fd = calls[p].fd /\ files'[fd] = Idle)
    <2>1. CASE files' = files BY <1>1, <2>1 DEF TypeInv
    <2>2. CASE files' = [files EXCEPT ![calls[p].fd] = Idle] BY <1>2, <2>2, ClearedFile
    <2> QED BY <2>1, <2>2
  <1>12. SpareOnly(p) BY <1>6, <1>9, <1>10, <1>11 DEF SpareOnly
  <1>13. lost' \subseteq Fds BY <1>1 DEF TypeInv
  <1>14. d.pc # "disconnect" /\ calls[p].pc # "disconnect" BY <1>2, <1>4
  <1> QED BY <1>3, <1>4, <1>8, <1>9, <1>10, <1>11, <1>12, <1>13, <1>14, SpareStep

LEMMA CloseClearKeeps ==
  ASSUME Core, NEW p \in Processes, CloseClear(p)
  PROVE  Core'
  BY ClosedStep DEF CloseClear, At

\* Inside a close, from one label to the next.
LEMMA ClosingStep ==
  ASSUME Core, NEW p \in Processes, NEW pc \in {"freePipe", "clear"}, Goto(p, pc),
         calls[p].pc \in {"cleanup", "freePipe"},
         pipes' \in [Slots -> (SUBSET Ends) \cup {NoPipe}],
         UNCHANGED <<files, connections, io_devices, alive, lost>>
  PROVE  Core'
  <1> DEFINE d == [calls[p] EXCEPT !.pc = pc, !.seen = Unseen]
  <1>1. /\ TypeInv /\ CallInv(p) /\ ChildInv(p) /\ WorkOf(p) /\ calls[p] \in Call
        /\ pc \in Labels
    BY Parts DEF Labels
  <1>2. calls[p].back \in {"remove", "reap"} /\ alive[p] = "running"
    BY <1>1 DEF CallInv, BackOf
  <1>3. Sets(p, d) BY <1>1, GotoSets
  <1>4. /\ d.pc = pc /\ d.fd = calls[p].fd /\ d.out = calls[p].out
        /\ d.handle = calls[p].handle /\ d.child = calls[p].child
        /\ d.back = calls[p].back /\ d.seen = Unseen
    BY <1>1 DEF Call
  <1> HIDE DEF d
  <1>5. calls'[p] = d /\ CallsAlone(p) BY <1>1, <1>3, SetsOne DEF CallsAlone
  <1>6. HeldSame
    <2>1. \A r, h : DroppedBy(p, r, h)' <=> DroppedBy(p, r, h)
      BY <1>2, <1>4, <1>5 DEF DroppedBy, Closing
    <2> QED BY <1>5, <2>1, HeldStay
  <1>7. /\ OpenedBy(d) = {} /\ OpenedBy(calls[p]) = {} /\ Unlinked(d) = {}
        /\ Unlinked(calls[p]) = {} /\ WorkedAt(d) = WorkedAt(calls[p])
    BY <1>4 DEF OpenedBy, Unlinked, WorkedAt, Reserving, Closing
  <1>8. ThreadInv(p)'
    <2>1. Opened(p)' = {} /\ Works(p)' = Works(p) BY <1>5, <1>7 DEF Opened, Works
    <2>2. Wanted(d) = 0 /\ Wanted(calls[p]) = 0 BY <1>2, <1>4 DEF Wanted
    <2>3. CallInv(p)' BY <1>1, <1>2, <1>4, <1>5, <2>2 DEF CallInv, BackOf
    <2>4. ChildInv(p)' BY <1>1, <1>2, <1>4, <1>5 DEF ChildInv
    <2>5. WorkOf(p)' BY <1>1, <1>4, <1>5, <2>1 DEF WorkOf, Closing, Reserving
    <2>6. OpenOf(p)' BY <1>4, <1>5, <2>1 DEF OpenOf
    <2> QED BY <2>3, <2>4, <2>5, <2>6 DEF ThreadInv
  <1> QED BY <1>3, <1>4, <1>6, <1>7, <1>8, CallStep DEF Works

LEMMA CloseEndKeeps ==
  ASSUME Core, NEW p \in Processes, CloseEnd(p)
  PROVE  Core'
  <1> DEFINE f == files[calls[p].fd]
  <1>1. /\ TypeInv /\ WorkOf(p) /\ calls[p] \in Call /\ calls[p].pc = "cleanup"
    BY Parts DEF CloseEnd, At
  <1>2. calls[p].fd \in Fds BY <1>1 DEF WorkOf, Closing, Call, Fd
  <1>3. f \in File
    <2>1. files \in [Fds -> File] BY <1>1 DEF TypeInv
    <2> QED BY <1>2, <2>1
  <1>4. CASE f.status \in pipes[f.inode]
    <2>1. pipes' = [pipes EXCEPT ![f.inode] = @ \ {f.status}] /\ Goto(p, "freePipe")
      BY <1>4 DEF CloseEnd
    <2>2. f.status \in Ends BY <1>1 DEF WorkOf
    <2>3. f.inode \in Slots BY <1>3 DEF File
    <2>4. pipes[f.inode] \in (SUBSET Ends) \cup {NoPipe} BY <1>1, <2>3 DEF TypeInv
    <2>5. pipes[f.inode] \ {f.status} \in (SUBSET Ends) \cup {NoPipe}
      BY <1>4, <2>2, <2>4 DEF Ends, NoPipe
    <2>6. pipes' \in [Slots -> (SUBSET Ends) \cup {NoPipe}]
      <3> HIDE DEF f
      <3> QED BY <1>1, <2>1, <2>3, <2>5 DEF TypeInv
    <2>7. UNCHANGED <<files, connections, io_devices, alive, lost>> BY DEF CloseEnd
    <2> QED BY <1>1, <2>1, <2>6, <2>7, ClosingStep
  <1>5. CASE f.status \notin pipes[f.inode]
    <2>1. AfterClose(p) /\ UNCHANGED <<files, connections, pipes, io_devices, alive, lost>>
      BY <1>5 DEF CloseEnd
    <2> QED BY <1>1, <2>1, ClosedStep
  <1> QED BY <1>4, <1>5

LEMMA CloseFreePipeKeeps ==
  ASSUME Core, NEW p \in Processes, CloseFreePipe(p)
  PROVE  Core'
  <1> DEFINE i == files[calls[p].fd].inode
  <1>1. TypeInv /\ calls[p].pc = "freePipe" BY Parts DEF CloseFreePipe, At
  <1>2. /\ pipes' = [pipes EXCEPT ![i] = IF @ = {} THEN NoPipe ELSE @] /\ Goto(p, "clear")
        /\ UNCHANGED <<files, connections, io_devices, alive, lost>>
    BY DEF CloseFreePipe
  <1> HIDE DEF i
  <1>3. pipes' \in [Slots -> (SUBSET Ends) \cup {NoPipe}] BY <1>1, <1>2 DEF TypeInv
  <1> QED BY <1>1, <1>2, <1>3, ClosingStep

-----------------------------------------------------------------------------
(* The steps that count connections.                                        *)

LEMMA ConnectStep ==
  ASSUME Core, TypeInv', NEW p \in Processes, Alone(p), files' = files,
         calls[p].pc \in {"connect", "connectPipe"}, Unlinked(calls'[p]) = {},
         calls'[p].pc # "disconnect",
         NEW sb \in FsTypes, \A fd \in Opened(p) : files[fd].sb = sb,
         connections' = [connections EXCEPT ![sb] = connections[sb] + Cardinality(Opened(p))]
  PROVE  ConnectionsMatch'
  <1>1. CallsAlone(p) /\ TypeInv /\ OpenOf(p) /\ CallInv(p) BY Parts DEF Alone
  <1>2. Opened(p) = Unlinked(calls[p]) \ {Invalid}
    <2>1. CASE calls[p].pc = "connect"
      <3>1. calls[p].out = Invalid BY <1>1, <2>1 DEF CallInv
      <3>2. Opened(p) = {calls[p].fd} BY <2>1 DEF Opened, OpenedBy
      <3>3. calls[p].fd \in Fds BY <1>1, <3>2 DEF OpenOf
      <3> QED BY <2>1, <3>1, <3>2, <3>3, Ranges DEF Unlinked
    <2>2. CASE calls[p].pc = "connectPipe"
      <3>1. Opened(p) = {calls[p].fd, calls[p].out} BY <2>2 DEF Opened, OpenedBy
      <3>2. calls[p].fd \in Fds /\ calls[p].out \in Fds BY <1>1, <3>1 DEF OpenOf
      <3> QED BY <2>2, <3>1, <3>2, Ranges DEF Unlinked
    <2> QED BY <2>1, <2>2
  <1>3. ASSUME NEW fd \in Opened(p), NEW q \in Processes, q # p, fd \in Unlinked(calls[q])
        PROVE  FALSE
    <2>1. fd \in Fds BY <1>1 DEF OpenOf
    <2>2. fd \in Opened(q)
      BY <1>3, <2>1, Parts, Ranges DEF Unlinked, Opened, OpenedBy, CallInv
    <2> QED BY <1>3, <2>2, Parts, OpenedAlone
  <1>4. ASSUME NEW other \in FsTypes
        PROVE  /\ Leaving(other)' = Leaving(other)
               /\ Linked(other)' = Linked(other) \cup (IF other = sb THEN Opened(p) ELSE {})
               /\ Linked(other) \cap Opened(p) = {}
    <2>1. \A q \in Processes : q # p => calls'[q] = calls[q] BY <1>1 DEF CallsAlone
    <2>2. Leaving(other)' = Leaving(other) BY <2>1 DEF Leaving
    <2>3. \A fd \in Opened(p) : fd \in Fds /\ files[fd].openCounter = 1 BY <1>1 DEF OpenOf
    <2>4. Linked(other) \cap Opened(p) = {} BY <1>2 DEF Linked
    <2>5. ASSUME NEW fd \in Fds
          PROVE  fd \in Linked(other)' <=>
                   fd \in Linked(other) \/ (other = sb /\ fd \in Opened(p))
      <3>1. fd \in Linked(other)' <=>
              /\ files[fd].sb = other /\ files[fd].openCounter >= 1
              /\ \A q \in Processes : q # p => fd \notin Unlinked(calls[q])
        BY <2>1 DEF Linked
      <3>2. fd \in Linked(other) <=>
              /\ files[fd].sb = other /\ files[fd].openCounter >= 1
              /\ \A q \in Processes : q # p => fd \notin Unlinked(calls[q])
              /\ fd \notin Opened(p)
        BY <1>2, Ranges DEF Linked
      <3>3. CASE fd \in Opened(p)
        <4>1. files[fd].sb = sb /\ files[fd].openCounter >= 1 BY <2>3, <3>3
        <4>2. \A q \in Processes : q # p => fd \notin Unlinked(calls[q]) BY <1>3, <3>3
        <4> QED BY <3>1, <3>2, <3>3, <4>1, <4>2
      <3> QED BY <3>1, <3>2, <3>3
    <2> QED BY <2>2, <2>3, <2>4, <2>5 DEF Linked
  <1>5. IsFiniteSet(Opened(p)) /\ Cardinality(Opened(p)) \in Nat
    <2>1. Opened(p) \subseteq Fds BY <1>1 DEF OpenOf
    <2> QED BY <2>1, Ranges, FS_Subset, FS_CardinalityType
  <1>6. ConnectionsCounted BY Parts, ConnectionsAre DEF Core
  <1>7. ASSUME NEW other \in FsTypes
        PROVE  connections'[other] = Cardinality(Linked(other)') + Cardinality(Leaving(other)')
    <2>1. /\ connections[other] = Cardinality(Linked(other)) + Cardinality(Leaving(other))
          /\ Cardinality(Linked(other)) \in Nat /\ Cardinality(Leaving(other)) \in Nat
          /\ IsFiniteSet(Linked(other))
      BY <1>6, LinkedAreFinite DEF ConnectionsCounted
    <2>2. CASE other = sb
      <3>1. Cardinality(Linked(sb) \cup Opened(p))
              = Cardinality(Linked(sb)) + Cardinality(Opened(p))
                  - Cardinality(Linked(sb) \cap Opened(p))
        BY <1>5, <2>1, <2>2, FS_Union
      <3>2. Cardinality(Linked(sb)') = Cardinality(Linked(sb)) + Cardinality(Opened(p))
        <4>1. Cardinality(Linked(sb) \cap Opened(p)) = 0
          <5>1. Linked(sb) \cap Opened(p) = {} BY <1>4
          <5> QED BY <5>1, NoneMeansZero
        <4>2. Linked(sb)' = Linked(sb) \cup Opened(p) BY <1>4
        <4>3. Cardinality(Linked(sb)') = Cardinality(Linked(sb) \cup Opened(p)) BY <4>2
        <4> QED BY <1>5, <2>1, <2>2, <3>1, <4>1, <4>3
      <3>3. connections'[sb] = connections[sb] + Cardinality(Opened(p))
        BY <1>1 DEF TypeInv
      <3> QED BY <1>4, <1>5, <2>1, <2>2, <3>2, <3>3
    <2>3. CASE other # sb
      <3>1. connections'[other] = connections[other] BY <1>1, <2>3 DEF TypeInv
      <3>2. Linked(other)' = Linked(other) BY <1>4, <2>3
      <3> QED BY <1>4, <2>1, <3>1, <3>2
    <2> QED BY <2>2, <2>3
  <1> QED BY <1>7, ConnectionsAreNext DEF ConnectionsCounted

LEMMA OneOf ==
  ASSUME NEW S, NEW x, S = {x}
  PROVE  Cardinality(S) = 1
  BY FS_Singleton

LEMMA TwoOf ==
  ASSUME NEW S, NEW x, NEW y, S = {x, y}, x # y
  PROVE  Cardinality(S) = 2
  <1>1. Cardinality({x}) = 1 /\ IsFiniteSet({x}) BY FS_Singleton
  <1>2. y \notin {x} /\ y \in S OBVIOUS
  <1>3. Cardinality({x} \cup {y}) = Cardinality({x}) + 1 BY <1>1, <1>2, FS_AddElement
  <1>4. S = {x} \cup {y} OBVIOUS
  <1>5. Cardinality(S) = Cardinality({x}) + 1 BY <1>3, <1>4
  <1> QED BY <1>1, <1>5

\* What a thread has opened is connected.
LEMMA LinkStep ==
  ASSUME Core, NEW p \in Processes, NEW pc, Goto(p, pc),
         \/ calls[p].pc = "connect" /\ pc \in {"install", "close"}
              /\ (pc = "install" <=> calls[p].back = "install")
         \/ calls[p].pc = "connectPipe" /\ pc = "installIn",
         Loaded(p), NEW sb \in FsTypes, NEW n \in Nat, n = Cardinality(Opened(p)),
         \A fd \in Opened(p) : files[fd].sb = sb,
         connections' = [connections EXCEPT ![sb] = calls[p].seen + n],
         UNCHANGED <<files, pipes, io_devices, alive, lost>>
  PROVE  Core'
  <1> DEFINE d == [calls[p] EXCEPT !.pc = pc, !.seen = Unseen]
  <1>1. /\ TypeInv /\ CallInv(p) /\ ChildInv(p) /\ OpenOf(p) /\ calls[p] \in Call /\ SeenInv
        /\ pc \in Labels
    BY Parts DEF Labels
  <1>2. calls[p].back \in {"install", "start", "user"} /\ alive[p] = "running"
    BY <1>1 DEF CallInv, BackOf
  <1>3. Sets(p, d) BY <1>1, GotoSets
  <1>4. /\ d.pc = pc /\ d.fd = calls[p].fd /\ d.out = calls[p].out
        /\ d.handle = calls[p].handle /\ d.child = calls[p].child
        /\ d.back = calls[p].back /\ d.seen = Unseen
    BY <1>1 DEF Call
  <1> HIDE DEF d
  <1>5. calls' \in [Processes -> Call] /\ calls'[p] = d /\ CallsAlone(p)
    BY <1>1, <1>3, SetsOne DEF CallsAlone
  <1>6. calls[p].seen = connections[sb] /\ connections[sb] \in Nat
    <2>1. calls[p].fd \in Opened(p) BY DEF Opened, OpenedBy
    <2>2. files[calls[p].fd].sb = sb BY <2>1
    <2>3. calls[p].seen = Counter(p) BY <1>1 DEF SeenInv
    <2> QED BY <1>1, <2>2, <2>3 DEF Counter, TypeInv
  <1>7. TypeInv' BY <1>1, <1>5, <1>6 DEF TypeInv
  <1>8. Alone(p)
    <2>1. RecordsAlone(p) BY RecordsStay
    <2> QED BY <1>5, <2>1 DEF Alone, FilesAlone, LostAlone
  <1>9. HeldSame
    <2>1. \A r, h : DroppedBy(p, r, h)' <=> DroppedBy(p, r, h)
      BY <1>2, <1>4, <1>5 DEF DroppedBy
    <2> QED BY <1>5, <2>1, HeldStay
  <1>10. calls[p].pc = "connect" /\ pc = "close" => calls[p].back = "start"
    BY <1>1 DEF CallInv, BackOf
  <1>11. calls[p].pc = "connect" => calls[p].back # "user"
    BY <1>1 DEF CallInv, BackOf
  <1>12. /\ OpenedBy(d) = OpenedBy(calls[p]) /\ Unlinked(d) = {} /\ d.pc # "disconnect"
         /\ WorkedAt(d) = {} /\ WorkedAt(calls[p]) = {}
    BY <1>4, <1>10 DEF OpenedBy, Unlinked, WorkedAt, Reserving, Closing
  <1>13. Opened(p)' = Opened(p) /\ Works(p)' = {} /\ Works(p) = {}
    BY <1>5, <1>12 DEF Opened, Works
  <1>14. ThreadInv(p)'
    <2>1. Wanted(d) = Wanted(calls[p]) BY <1>2, <1>4, <1>10, <1>11 DEF Wanted
    <2>2. d.back \in BackOf(d.pc)
      BY <1>1, <1>2, <1>4, <1>10 DEF CallInv, BackOf
    <2>3. CallInv(p)' BY <1>1, <1>2, <1>4, <1>5, <2>1, <2>2 DEF CallInv
    <2>4. ChildInv(p)' BY <1>1, <1>2, <1>4, <1>5 DEF ChildInv
    <2>5. WorkOf(p)' BY <1>4, <1>5, <1>13 DEF WorkOf, Closing
    <2>6. OpenOf(p)' BY <1>1, <1>4, <1>5, <1>10, <1>13 DEF OpenOf
    <2> QED BY <2>3, <2>4, <2>5, <2>6 DEF ThreadInv
  <1>15. ConnectionsMatch'
    <2>1. connections' = [connections EXCEPT ![sb] = connections[sb] + Cardinality(Opened(p))]
      BY <1>6
    <2> QED BY <1>5, <1>7, <1>8, <1>12, <2>1, ConnectStep
  <1>16. SpareOnly(p) BY <1>9, <1>13 DEF SpareOnly
  <1>17. FilesInv' /\ WorkApart' /\ UsersInv' BY <1>7, <1>8, <1>16, SpareKept
  <1>18. ChildrenApart' BY <1>4, <1>5, ChildrenStayApart
  <1>19. RecordInv' BY DEF Core, RecordInv
  <1>20. ~Loaded(p)' BY <1>4, <1>5 DEF Loaded
  <1> QED BY <1>7, <1>8, <1>14, <1>15, <1>17, <1>18, <1>19, <1>20, CoreKept

LEMMA OpenConnectKeeps ==
  ASSUME Core, NEW p \in Processes, OpenConnect(p)
  PROVE  Core'
  <1>1. OpenOf(p) /\ calls[p].pc = "connect" BY Parts DEF OpenConnect, At
  <1>2. Opened(p) = {calls[p].fd} /\ files[calls[p].fd].sb = "file"
    BY <1>1 DEF Opened, OpenedBy, OpenOf
  <1>3. Cardinality(Opened(p)) = 1 BY <1>2, OneOf
  <1>4. 1 \in Nat /\ "file" \in FsTypes BY DEF FsTypes
  <1>5. PICK pc \in {"install", "close"} :
          Goto(p, pc) /\ (pc = "install" <=> calls[p].back = "install")
    BY DEF OpenConnect
  <1> QED BY <1>1, <1>2, <1>3, <1>4, <1>5, LinkStep DEF OpenConnect

LEMMA PipeConnectKeeps ==
  ASSUME Core, NEW p \in Processes, PipeConnect(p)
  PROVE  Core'
  <1>1. OpenOf(p) /\ calls[p].pc = "connectPipe" BY Parts DEF PipeConnect, At
  <1>2. /\ Opened(p) = {calls[p].fd, calls[p].out} /\ files[calls[p].fd].sb = "pipe"
        /\ files[calls[p].out].sb = "pipe" /\ calls[p].fd # calls[p].out
    BY <1>1 DEF Opened, OpenedBy, OpenOf
  <1>3. Cardinality(Opened(p)) = 2
    <2>1. PICK S, a, b : S = Opened(p) /\ a = calls[p].fd /\ b = calls[p].out OBVIOUS
    <2>2. S = {a, b} /\ a # b BY <1>2, <2>1
    <2>3. Cardinality(S) = 2 BY <2>2, TwoOf
    <2> QED BY <2>1, <2>3
  <1>4. 2 \in Nat /\ "pipe" \in FsTypes BY DEF FsTypes
  <1> QED BY <1>1, <1>2, <1>3, <1>4, LinkStep DEF PipeConnect

LEMMA CloseDisconnectKeeps ==
  ASSUME Core, NEW p \in Processes, CloseDisconnect(p)
  PROVE  Core'
  <1> DEFINE sb == files[calls[p].fd].sb
             pc == IF sb = "pipe" THEN "cleanup" ELSE "clear"
             d == [calls[p] EXCEPT !.pc = pc, !.seen = Unseen]
  <1>1. /\ TypeInv /\ CallInv(p) /\ ChildInv(p) /\ WorkOf(p) /\ calls[p] \in Call /\ SeenInv
        /\ FilesInv /\ pc \in Labels /\ calls[p].pc = "disconnect" /\ Loaded(p)
    BY Parts DEF Labels, CloseDisconnect, At
  <1>2. /\ connections' = [connections EXCEPT ![sb] = calls[p].seen - 1] /\ Goto(p, pc)
        /\ UNCHANGED <<files, pipes, io_devices, alive, lost>>
    BY DEF CloseDisconnect
  <1>3. /\ calls[p].back \in {"start", "remove", "reap"} /\ alive[p] = "running"
        /\ calls[p].fd \in Fds
    BY <1>1 DEF CallInv, BackOf, WorkOf, Closing, Call, Fd
  <1>4. sb \in FsTypes /\ (sb = "pipe" => files[calls[p].fd].status \in Ends)
        /\ (calls[p].back = "start" => sb = "file")
    BY <1>1, <1>3 DEF TypeInv, File, FilesInv, WorkOf, Closing
  <1>5. Sets(p, d) BY <1>1, <1>2, GotoSets
  <1>6. /\ d.pc = pc /\ d.fd = calls[p].fd /\ d.out = calls[p].out
        /\ d.handle = calls[p].handle /\ d.child = calls[p].child
        /\ d.back = calls[p].back /\ d.seen = Unseen
    BY <1>1 DEF Call
  <1>7. /\ d.pc \in {"cleanup", "clear"} /\ (d.pc = "cleanup" <=> sb = "pipe") BY <1>6
  <1> HIDE DEF d, pc, sb
  <1>8. calls' \in [Processes -> Call] /\ calls'[p] = d /\ CallsAlone(p)
    BY <1>1, <1>5, SetsOne DEF CallsAlone
  <1>9. p \in Leaving(sb) BY <1>1 DEF Leaving, sb
  <1>10. calls[p].seen = connections[sb] BY <1>1 DEF SeenInv, Counter, sb
  <1>11. /\ \A other \in FsTypes :
              /\ connections[other] = Cardinality(Linked(other)) + Cardinality(Leaving(other))
              /\ Cardinality(Linked(other)) \in Nat /\ Cardinality(Leaving(other)) \in Nat
         /\ Cardinality(Leaving(sb)) >= 1
    BY <1>9, LinkedAreFinite, ConnectionsAre, SomeMeansOne DEF Core, ConnectionsCounted
  <1>12. calls[p].seen - 1 \in Nat BY <1>4, <1>10, <1>11
  <1>13. TypeInv' BY <1>1, <1>2, <1>8, <1>12 DEF TypeInv
  <1>14. Alone(p)
    <2>1. RecordsAlone(p) BY <1>2, RecordsStay
    <2> QED BY <1>1, <1>2, <1>8, <2>1 DEF Alone, FilesAlone, LostAlone
  <1>15. HeldSame
    <2>1. \A r, h : DroppedBy(p, r, h)' <=> DroppedBy(p, r, h)
      BY <1>1, <1>6, <1>7, <1>8 DEF DroppedBy, Closing
    <2> QED BY <1>2, <1>8, <2>1, HeldStay
  <1>16. /\ OpenedBy(d) = {} /\ OpenedBy(calls[p]) = {} /\ Unlinked(d) = {}
         /\ Unlinked(calls[p]) = {} /\ WorkedAt(d) = WorkedAt(calls[p])
    BY <1>1, <1>6, <1>7 DEF OpenedBy, Unlinked, WorkedAt, Reserving, Closing
  <1>17. Opened(p)' = {} /\ Opened(p) = {} /\ Works(p)' = Works(p)
    BY <1>8, <1>16 DEF Opened, Works
  <1>18. ThreadInv(p)'
    <2>1. Wanted(d) = 0 /\ Wanted(calls[p]) = 0 BY <1>1, <1>3, <1>6, <1>7 DEF Wanted
    <2>2. d.back \in BackOf(d.pc) BY <1>3, <1>4, <1>6, <1>7 DEF BackOf
    <2>3. CallInv(p)' BY <1>1, <1>2, <1>3, <1>6, <1>7, <1>8, <2>1, <2>2 DEF CallInv
    <2>4. ChildInv(p)' BY <1>1, <1>2, <1>3, <1>6, <1>7, <1>8 DEF ChildInv
    <2>5. WorkOf(p)'
      BY <1>1, <1>2, <1>3, <1>4, <1>6, <1>7, <1>8, <1>17 DEF WorkOf, Closing, Reserving, sb
    <2>6. OpenOf(p)' BY <1>7, <1>8, <1>17 DEF OpenOf
    <2> QED BY <2>3, <2>4, <2>5, <2>6 DEF ThreadInv
  <1>19. ASSUME NEW other \in FsTypes
         PROVE  /\ Linked(other)' = Linked(other)
                /\ Leaving(other)' = IF other = sb THEN Leaving(sb) \ {p} ELSE Leaving(other)
    <2>1. \A q \in Processes : q # p => calls'[q] = calls[q] BY <1>8 DEF CallsAlone
    <2>2. \A q \in Processes : Unlinked(calls'[q]) = Unlinked(calls[q])
      BY <1>8, <1>16, <2>1
    <2>3. Linked(other)' = Linked(other) BY <1>2, <2>2 DEF Linked
    <2>4. \A q \in Processes : q \in Leaving(other)' <=> q \in Leaving(other) /\ q # p
      BY <1>2, <1>7, <1>8, <2>1 DEF Leaving
    <2>5. other # sb => p \notin Leaving(other) BY DEF Leaving, sb
    <2> QED BY <2>3, <2>4, <2>5 DEF Leaving
  <1>20. ASSUME NEW other \in FsTypes
         PROVE  connections'[other] = Cardinality(Linked(other)') + Cardinality(Leaving(other)')
    <2>1. CASE other = sb
      <3>1. Cardinality(Leaving(sb) \ {p}) = Cardinality(Leaving(sb)) - 1
        BY <1>4, <1>9, LinkedAreFinite, FS_RemoveElement
      <3>2. Leaving(other)' = Leaving(sb) \ {p} BY <1>19, <2>1
      <3>3. Cardinality(Leaving(other)') = Cardinality(Leaving(sb) \ {p}) BY <3>2
      <3>4. Linked(other)' = Linked(other) BY <1>19
      <3>5. Cardinality(Linked(other)') = Cardinality(Linked(other)) BY <3>4
      <3>6. connections'[other] = connections[other] - 1
        BY <1>1, <1>2, <1>4, <1>10, <2>1 DEF TypeInv
      <3>7. Cardinality(Leaving(sb)) = Cardinality(Leaving(other)) BY <2>1
      <3> QED BY <1>11, <3>1, <3>3, <3>5, <3>6, <3>7
    <2>2. CASE other # sb
      <3>1. connections'[other] = connections[other] BY <1>1, <1>2, <2>2 DEF TypeInv
      <3> QED BY <1>11, <1>19, <2>2, <3>1
    <2> QED BY <2>1, <2>2
  <1>21. ConnectionsMatch' BY <1>20, ConnectionsAreNext DEF ConnectionsCounted
  <1>22. SpareOnly(p) BY <1>2, <1>15, <1>17 DEF SpareOnly
  <1>23. FilesInv' /\ WorkApart' /\ UsersInv' BY <1>13, <1>14, <1>22, SpareKept
  <1>24. ChildrenApart' BY <1>6, <1>8, ChildrenStayApart
  <1>25. RecordInv' BY <1>2 DEF Core, RecordInv
  <1>26. ~Loaded(p)' BY <1>6, <1>8 DEF Loaded
  <1> QED BY <1>13, <1>14, <1>18, <1>21, <1>23, <1>24, <1>25, <1>26, CoreKept

-----------------------------------------------------------------------------
(* The steps that open descriptors, and that hand them over to the process. *)

LEMMA HandlesSame ==
  ASSUME HeldSame, NEW fd \in Fds
  PROVE  Handles(fd)' = Handles(fd)
  <1>1. Handles(fd)' = {ph \in Processes \X (1..MaxHandles) :
                            /\ ph[2] \in DOMAIN io_devices'[ph[1]]
                            /\ io_devices'[ph[1]][ph[2]] = fd
                            /\ ~Dropped(ph[1], ph[2])'}
    BY DEF Handles
  <1>2. Handles(fd)' = {ph \in Processes \X (1..MaxHandles) : Held(ph[1], ph[2])' = fd}
    BY <1>1, Ranges DEF Held
  <1> QED BY <1>2, HandlesAre DEF HeldSame

LEMMA ApartKept ==
  ASSUME Core, TypeInv', NEW p \in Processes, CallsAlone(p),
         \A fd \in Fds : fd \in Works(p)' =>
             fd \in Works(p) \/ files[fd].status = "idle" \/ files[fd].openCounter >= 1
  PROVE  WorkApart'
  <1>1. ASSUME NEW q \in Processes, q # p PROVE Works(q)' \cap Works(p)' = {}
    <2>1. WorkOf(q) /\ WorkApart /\ Works(q)' = Works(q)
      BY <1>1, Parts DEF CallsAlone, Works
    <2>2. Works(p)' \subseteq Fds BY DEF TypeInv, Works, WorkedAt, Call, Fd, Invalid
    <2>3. \A fd \in Works(q) : /\ files[fd].status # "idle" /\ ~(files[fd].openCounter >= 1)
                               /\ fd \notin Works(p)
      BY <1>1, <2>1 DEF WorkOf, WorkApart
    <2> QED BY <2>1, <2>2, <2>3
  <1>2. ASSUME NEW q \in Processes, NEW r \in Processes, q # r, q # p, r # p
        PROVE  Works(q)' \cap Works(r)' = {}
    BY <1>2, Parts DEF CallsAlone, Works, WorkApart
  <1>3. ASSUME NEW q \in Processes, NEW r \in Processes, q # r
        PROVE  Works(q)' \cap Works(r)' = {}
    <2>1. CASE q = p
      <3>1. r # p BY <1>3, <2>1
      <3>2. Works(r)' \cap Works(p)' = {} BY <1>1, <3>1
      <3> QED BY <2>1, <3>2
    <2>2. CASE r = p
      <3>1. q # p BY <1>3, <2>2
      <3> QED BY <1>1, <2>2, <3>1
    <2> QED BY <1>2, <1>3, <2>1, <2>2
  <1> QED BY <1>3 DEF WorkApart

LEMMA OpensStep ==
  ASSUME Core, NEW p \in Processes, NEW d, Sets(p, d), d.seen = Unseen,
         UNCHANGED <<connections, io_devices, alive, lost>>,
         pipes' \in [Slots -> (SUBSET Ends) \cup {NoPipe}], files' \in [Fds -> File],
         Opened(p) = {}, Unlinked(calls[p]) = {}, WorkedAt(d) = {},
         OpenedBy(d) = Works(p), Works(p) \subseteq Unlinked(d),
         Unlinked(d) \subseteq Works(p) \cup {Invalid},
         \A fd \in Fds : IF fd \notin Works(p) THEN files'[fd] = files[fd]
                         ELSE /\ files'[fd].openCounter = 1 /\ files'[fd].status # "idle"
                              /\ (files'[fd].sb = "pipe") <=> (files'[fd].status \in Ends),
         d.pc # "disconnect", calls[p].pc # "disconnect",
         d.back \in {"start", "reap"} => d.back = calls[p].back /\ d.child = calls[p].child,
         HeldSame, ThreadInv(p)'
  PROVE  Core'
  <1>1. calls' \in [Processes -> Call] /\ calls'[p] = d /\ CallsAlone(p) /\ TypeInv
        /\ FilesInv /\ UsersInv /\ WorkOf(p)
    BY SetsOne, Parts DEF CallsAlone
  <1>2. TypeInv' BY <1>1 DEF TypeInv
  <1>3. Alone(p)
    <2>1. RecordsAlone(p) BY RecordsStay
    <2> QED BY <1>1, <2>1 DEF Alone, FilesAlone, LostAlone
  <1>4. \A fd \in Works(p) : files[fd].openCounter = 0 /\ fd \notin lost BY <1>1 DEF WorkOf
  <1>5. LinkedStays(p)
    <2>1. ASSUME NEW fd \in Fds
          PROVE  /\ files'[fd].openCounter >= 1 /\ fd \notin Unlinked(calls'[p])
                      <=> files[fd].openCounter >= 1 /\ fd \notin Unlinked(calls[p])
                 /\ files[fd].openCounter >= 1 => files'[fd].sb = files[fd].sb
      <3>1. CASE fd \in Works(p) BY <1>1, <1>4, <3>1
      <3>2. CASE fd \notin Works(p)
        <4>1. fd \notin Unlinked(d) BY <3>2, Ranges
        <4> QED BY <1>1, <3>2, <4>1
      <3> QED BY <3>1, <3>2
    <2> QED BY <1>1, <2>1 DEF LinkedStays
  <1>6. ChildrenApart' BY <1>1, ChildrenStayApart
  <1>7. RecordInv' BY DEF Core, RecordInv
  <1>8. Works(p)' = {} /\ Opened(p)' = Works(p) BY <1>1 DEF Works, Opened
  <1>9. WorkApart' BY <1>1, <1>2, <1>8, ApartKept
  <1>10. FilesInv' BY <1>1 DEF FilesInv
  <1>11. ASSUME NEW fd \in Fds
         PROVE  IF fd \in lost'
                THEN \/ files'[fd].openCounter >= Users(fd)' + 1
                     \/ files'[fd] = Reserved /\ Users(fd)' = 0
                ELSE files'[fd].openCounter = Users(fd)'
    <2>1. CASE fd \notin Works(p)
      <3>1. Users(fd)' = Users(fd) BY <1>1, <1>8, <2>1, UsersSame
      <3> QED BY <1>1, <2>1, <3>1 DEF UsersInv
    <2>2. CASE fd \in Works(p)
      <3>1. Users(fd) = 0 BY <1>1, <1>4, <2>2 DEF UsersInv
      <3>2. /\ Cardinality(Handles(fd)) \in Nat /\ Cardinality(Openers(fd)) \in Nat
            /\ Cardinality(Handles(fd)) + Cardinality(Openers(fd)) = 0
        BY <3>1, UsersAreFinite DEF Users
      <3>3. Cardinality(Openers(fd)') = Cardinality(Openers(fd)) + 1
        BY <1>1, <1>8, <2>2, OpenersStep
      <3>4. Handles(fd)' = Handles(fd) BY HandlesSame
      <3>5. Users(fd)' = Cardinality(Handles(fd)) + Cardinality(Openers(fd)')
        BY <3>4 DEF Users
      <3>6. Users(fd)' = 1 BY <3>2, <3>3, <3>5
      <3> QED BY <1>4, <2>2, <3>6
    <2> QED BY <2>1, <2>2
  <1>12. UsersInv' BY <1>11 DEF UsersInv
  <1>13. ConnectionsMatch' BY <1>2, <1>3, <1>5, ConnectionsKept
  <1>14. ~Loaded(p)'
    <2>1. calls'[p] = d BY <1>1
    <2> QED BY <2>1, Zenon DEF Loaded
  <1> QED BY <1>2, <1>3, <1>6, <1>7, <1>9, <1>10, <1>12, <1>13, <1>14, CoreKept


\* The driver of the file system finds or creates the file.
OpenFinds(p) ==
    /\ At(p, "driver")
    /\ files' = [files EXCEPT ![calls[p].fd].openCounter = 1, ![calls[p].fd].sb = "file"]
    /\ Goto(p, "connect")
    /\ UNCHANGED <<connections, pipes, io_devices, alive, lost>>

LEMMA OpenFindsKeeps ==
  ASSUME Core, NEW p \in Processes, OpenFinds(p)
  PROVE  Core'
  <1> DEFINE d == [calls[p] EXCEPT !.pc = "connect", !.seen = Unseen]
  <1>1. /\ TypeInv /\ CallInv(p) /\ ChildInv(p) /\ WorkOf(p) /\ calls[p] \in Call
        /\ calls[p].pc = "driver" /\ "connect" \in Labels
    BY Parts DEF OpenFinds, At, Labels
  <1>2. /\ files' = [files EXCEPT ![calls[p].fd].openCounter = 1,
                                  ![calls[p].fd].sb = "file"]
        /\ Goto(p, "connect") /\ UNCHANGED <<connections, pipes, io_devices, alive, lost>>
    BY DEF OpenFinds
  <1>3. calls[p].back \in {"install", "start"} /\ calls[p].fd \in Fds
        /\ alive[p] = "running" /\ calls[p].out = Invalid
    BY <1>1 DEF CallInv, BackOf, WorkOf, Call, Fd
  <1>4. Works(p) = {calls[p].fd} /\ Opened(p) = {} /\ Unlinked(calls[p]) = {}
    BY <1>1, <1>3, Ranges DEF Opened, OpenedBy, Unlinked, Works, WorkedAt, Reserving
  <1>5. files[calls[p].fd] = Reserved BY <1>1, <1>4 DEF WorkOf, Reserving
  <1>6. files[calls[p].fd] \in File BY <1>1, <1>3 DEF TypeInv
  <1>7. /\ files' \in [Fds -> File]
        /\ \A fd \in Fds : fd # calls[p].fd => files'[fd] = files[fd]
        /\ files'[calls[p].fd] = [files[calls[p].fd] EXCEPT !.openCounter = 1, !.sb = "file"]
    <2>1. [files[calls[p].fd] EXCEPT !.openCounter = 1, !.sb = "file"] \in File
      BY <1>6 DEF File, FsTypes
    <2>2. files' = [files EXCEPT ![calls[p].fd] =
                      [files[calls[p].fd] EXCEPT !.openCounter = 1, !.sb = "file"]]
      BY <1>1, <1>2, <1>3, <1>6 DEF TypeInv, File
    <2> QED BY <1>1, <1>3, <2>1, <2>2 DEF TypeInv
  <1>8. /\ files'[calls[p].fd].openCounter = 1 /\ files'[calls[p].fd].sb = "file"
        /\ files'[calls[p].fd].status = "reserved"
    BY <1>5, <1>7 DEF Reserved, Idle
  <1>9. Sets(p, d) BY <1>1, <1>2, GotoSets
  <1>10. /\ d.pc = "connect" /\ d.fd = calls[p].fd /\ d.out = Invalid
         /\ d.handle = calls[p].handle /\ d.child = calls[p].child
         /\ d.back = calls[p].back /\ d.seen = Unseen
    BY <1>1, <1>3 DEF Call
  <1> HIDE DEF d
  <1>11. calls'[p] = d /\ CallsAlone(p) BY <1>1, <1>9, SetsOne DEF CallsAlone
  <1>12. HeldSame
    <2>1. \A r, h : DroppedBy(p, r, h)' <=> DroppedBy(p, r, h)
      BY <1>3, <1>10, <1>11 DEF DroppedBy
    <2> QED BY <1>2, <1>11, <2>1, HeldStay
  <1>13. /\ OpenedBy(d) = {calls[p].fd} /\ WorkedAt(d) = {}
         /\ Unlinked(d) = {calls[p].fd, Invalid}
    BY <1>10 DEF OpenedBy, WorkedAt, Reserving, Closing, Unlinked
  <1>14. ThreadInv(p)'
    <2>1. Opened(p)' = {calls[p].fd} /\ Works(p)' = {} BY <1>11, <1>13 DEF Opened, Works
    <2>2. Wanted(d) = Wanted(calls[p]) BY <1>1, <1>3, <1>10 DEF Wanted
    <2>3. CallInv(p)' BY <1>1, <1>2, <1>3, <1>10, <1>11, <2>2 DEF CallInv, BackOf
    <2>4. ChildInv(p)' BY <1>1, <1>2, <1>3, <1>10, <1>11 DEF ChildInv
    <2>5. WorkOf(p)' BY <1>10, <1>11, <2>1 DEF WorkOf, Closing
    <2>6. calls[p].fd \notin lost' BY <1>1, <1>2, <1>4 DEF WorkOf
    <2>7. OpenOf(p)' BY <1>3, <1>8, <1>10, <1>11, <2>1, <2>6 DEF OpenOf
    <2> QED BY <2>3, <2>4, <2>5, <2>7 DEF ThreadInv
  <1>15. pipes' \in [Slots -> (SUBSET Ends) \cup {NoPipe}] BY <1>1, <1>2 DEF TypeInv
  <1>16. \A fd \in Fds : IF fd \notin Works(p) THEN files'[fd] = files[fd]
                         ELSE /\ files'[fd].openCounter = 1 /\ files'[fd].status # "idle"
                              /\ (files'[fd].sb = "pipe") <=> (files'[fd].status \in Ends)
    BY <1>4, <1>7, <1>8 DEF Ends
  <1> QED BY <1>1, <1>2, <1>4, <1>7, <1>9, <1>10, <1>12, <1>13, <1>14, <1>15, <1>16, OpensStep

LEMMA OpenDriverStep ==
  ASSUME Core, NEW p \in Processes, OpenDriver(p)
  PROVE  Core'
  <1>1. OpenFinds(p) \/ OpenFails(p) BY DEF OpenDriver, OpenFinds, OpenFails
  <1> QED BY <1>1, OpenFindsKeeps, OpenFailsKeeps

LEMMA PipeEndIsFile ==
  ASSUME NEW end \in Ends, NEW i \in Slots
  PROVE  /\ PipeEnd(end, i) \in File /\ PipeEnd(end, i).status = end
         /\ PipeEnd(end, i).openCounter = 1 /\ PipeEnd(end, i).sb = "pipe"
         /\ PipeEnd(end, i).inode = i
  BY DEF PipeEnd, File, Status, FsTypes, Ends

LEMMA PipeClaimFiles ==
  ASSUME Core, NEW p \in Processes, PipeClaim(p)
  PROVE  /\ calls[p].fd \in Fds /\ calls[p].out \in Fds /\ calls[p].fd # calls[p].out
         /\ Works(p) = {calls[p].fd, calls[p].out}
         /\ files' \in [Fds -> File]
         /\ files'[calls[p].fd] = PipeEnd("openWrite", calls[p].slot)
         /\ files'[calls[p].out] = PipeEnd("openRead", calls[p].slot)
         /\ \A fd \in Fds : fd \notin Works(p) => files'[fd] = files[fd]
         /\ pipes' = [pipes EXCEPT ![calls[p].slot] = Ends]
  <1>1. /\ TypeInv /\ CallInv(p) /\ WorkOf(p) /\ calls[p] \in Call /\ calls[p].pc = "claim"
        /\ calls[p].slot \in Slots
    BY Parts DEF PipeClaim, At
  <1>2. calls[p].fd \in Fds /\ calls[p].out \in Fds /\ calls[p].fd # calls[p].out
    BY <1>1 DEF WorkOf, Call, Fd
  <1>3. Works(p) = {calls[p].fd, calls[p].out}
    BY <1>1, <1>2, Ranges DEF Works, WorkedAt, Reserving
  <1>4. files' = [files EXCEPT ![calls[p].fd] = PipeEnd("openWrite", calls[p].slot),
                               ![calls[p].out] = PipeEnd("openRead", calls[p].slot)]
    BY DEF PipeClaim
  <1>5. "openWrite" \in Ends /\ "openRead" \in Ends BY DEF Ends
  <1>6. /\ PipeEnd("openWrite", calls[p].slot) \in File
        /\ PipeEnd("openRead", calls[p].slot) \in File
    BY <1>1, <1>5, PipeEndIsFile
  <1>7. files \in [Fds -> File] BY <1>1 DEF TypeInv
  <1>8. /\ files' \in [Fds -> File]
        /\ files'[calls[p].fd] = PipeEnd("openWrite", calls[p].slot)
        /\ files'[calls[p].out] = PipeEnd("openRead", calls[p].slot)
        /\ \A fd \in Fds : fd # calls[p].fd /\ fd # calls[p].out => files'[fd] = files[fd]
    BY <1>2, <1>4, <1>6, <1>7
  <1>9. \A fd \in Fds : fd \notin Works(p) => files'[fd] = files[fd] BY <1>3, <1>8
  <1>10. pipes' = [pipes EXCEPT ![calls[p].slot] = Ends] BY DEF PipeClaim
  <1> QED BY <1>2, <1>3, <1>8, <1>9, <1>10

LEMMA PipeClaimKeeps ==
  ASSUME Core, NEW p \in Processes, PipeClaim(p)
  PROVE  Core'
  <1> DEFINE d == [calls[p] EXCEPT !.pc = "connectPipe", !.seen = Unseen]
  <1>1. /\ TypeInv /\ CallInv(p) /\ ChildInv(p) /\ WorkOf(p) /\ calls[p] \in Call
        /\ calls[p].pc = "claim" /\ "connectPipe" \in Labels /\ calls[p].slot \in Slots
    BY Parts DEF PipeClaim, At, Labels
  <1>2. Goto(p, "connectPipe") /\ UNCHANGED <<connections, io_devices, alive, lost>>
    BY DEF PipeClaim
  <1>3. calls[p].back = "user" /\ alive[p] = "running" BY <1>1 DEF CallInv, BackOf
  <1>4. /\ calls[p].fd \in Fds /\ calls[p].out \in Fds /\ calls[p].fd # calls[p].out
        /\ Works(p) = {calls[p].fd, calls[p].out}
        /\ files' \in [Fds -> File]
        /\ files'[calls[p].fd] = PipeEnd("openWrite", calls[p].slot)
        /\ files'[calls[p].out] = PipeEnd("openRead", calls[p].slot)
        /\ \A fd \in Fds : fd \notin Works(p) => files'[fd] = files[fd]
        /\ pipes' = [pipes EXCEPT ![calls[p].slot] = Ends]
    BY PipeClaimFiles
  <1>5. Opened(p) = {} /\ Unlinked(calls[p]) = {} BY <1>1 DEF Opened, OpenedBy, Unlinked
  <1>6. /\ files'[calls[p].fd].openCounter = 1 /\ files'[calls[p].fd].sb = "pipe"
        /\ files'[calls[p].fd].status = "openWrite"
        /\ files'[calls[p].out].openCounter = 1 /\ files'[calls[p].out].sb = "pipe"
        /\ files'[calls[p].out].status = "openRead"
    BY <1>4 DEF PipeEnd
  <1>7. Sets(p, d) BY <1>1, <1>2, GotoSets
  <1>8. /\ d.pc = "connectPipe" /\ d.fd = calls[p].fd /\ d.out = calls[p].out
        /\ d.handle = calls[p].handle /\ d.child = calls[p].child
        /\ d.back = calls[p].back /\ d.seen = Unseen
    BY <1>1 DEF Call
  <1> HIDE DEF d
  <1>9. calls'[p] = d /\ CallsAlone(p) BY <1>1, <1>7, SetsOne DEF CallsAlone
  <1>10. HeldSame
    <2>1. \A r, h : DroppedBy(p, r, h)' <=> DroppedBy(p, r, h)
      BY <1>3, <1>8, <1>9 DEF DroppedBy
    <2> QED BY <1>2, <1>9, <2>1, HeldStay
  <1>11. /\ OpenedBy(d) = {calls[p].fd, calls[p].out} /\ WorkedAt(d) = {}
         /\ Unlinked(d) = {calls[p].fd, calls[p].out}
    BY <1>8 DEF OpenedBy, WorkedAt, Reserving, Closing, Unlinked
  <1>12. ThreadInv(p)'
    <2>1. Opened(p)' = {calls[p].fd, calls[p].out} /\ Works(p)' = {}
      BY <1>9, <1>11 DEF Opened, Works
    <2>2. Wanted(d) = Wanted(calls[p]) BY <1>1, <1>3, <1>8 DEF Wanted
    <2>3. CallInv(p)' BY <1>1, <1>2, <1>3, <1>8, <1>9, <2>2 DEF CallInv, BackOf
    <2>4. ChildInv(p)' BY <1>1, <1>2, <1>3, <1>8, <1>9 DEF ChildInv
    <2>5. WorkOf(p)' BY <1>8, <1>9, <2>1 DEF WorkOf, Closing
    <2>6. calls[p].fd \notin lost' /\ calls[p].out \notin lost'
      BY <1>1, <1>2, <1>4 DEF WorkOf
    <2>7. OpenOf(p)' BY <1>3, <1>4, <1>6, <1>8, <1>9, <2>1, <2>6 DEF OpenOf
    <2> QED BY <2>3, <2>4, <2>5, <2>7 DEF ThreadInv
  <1>13. pipes' \in [Slots -> (SUBSET Ends) \cup {NoPipe}] BY <1>1, <1>4 DEF TypeInv
  <1>14. \A fd \in Fds : IF fd \notin Works(p) THEN files'[fd] = files[fd]
                         ELSE /\ files'[fd].openCounter = 1 /\ files'[fd].status # "idle"
                              /\ (files'[fd].sb = "pipe") <=> (files'[fd].status \in Ends)
    BY <1>4, <1>6 DEF Ends
  <1> QED
    BY <1>1, <1>2, <1>3, <1>4, <1>5, <1>7, <1>8, <1>10, <1>11, <1>12, <1>13, <1>14, OpensStep

\* One more handle at the end of the table.
LEMMA SeqAppend ==
  ASSUME NEW s \in Seq(Fd), NEW v \in Fd
  PROVE  /\ Append(s, v) \in Seq(Fd) /\ Len(Append(s, v)) = Len(s) + 1
         /\ DOMAIN Append(s, v) = 1..(Len(s) + 1) /\ DOMAIN s = 1..Len(s)
         /\ Append(s, v)[Len(s) + 1] = v
         /\ \A h \in DOMAIN s : Append(s, v)[h] = s[h]
  OBVIOUS

LEMMA HandOverStep ==
  ASSUME Core, NEW p \in Processes, NEW x \in Opened(p), NEW d, Sets(p, d),
         d.seen = Unseen, d.back = "user", calls[p].back \in {"install", "user"},
         alive[p] = "running", Len(io_devices[p]) + 1 <= MaxHandles,
         io_devices' = [io_devices EXCEPT ![p] = Append(@, x)],
         UNCHANGED <<files, connections, pipes, alive, lost>>,
         Unlinked(d) = {}, Unlinked(calls[p]) = {},
         WorkedAt(d) = {}, WorkedAt(calls[p]) = {}, OpenedBy(d) = Opened(p) \ {x},
         d.pc # "disconnect", calls[p].pc # "disconnect", ThreadInv(p)'
  PROVE  Core'
  <1> DEFINE s == Append(io_devices[p], x)
  <1>1. /\ calls' \in [Processes -> Call] /\ calls'[p] = d /\ CallsAlone(p) /\ TypeInv
        /\ RecordInv /\ FilesInv /\ UsersInv /\ OpenOf(p) /\ io_devices[p] \in Seq(Fd)
        /\ \A q \in Processes : CallInv(q) /\ ChildInv(q)
    BY SetsOne, Parts DEF CallsAlone
  <1>2. x \in Fds /\ x # Invalid BY <1>1, Ranges DEF OpenOf
  <1>3. /\ s \in Seq(Fd) /\ Len(s) = Len(io_devices[p]) + 1
        /\ DOMAIN s = 1..(Len(io_devices[p]) + 1)
        /\ DOMAIN io_devices[p] = 1..Len(io_devices[p])
        /\ s[Len(io_devices[p]) + 1] = x /\ \A h \in DOMAIN io_devices[p] : s[h] = io_devices[p][h]
    BY <1>1, <1>2, SeqAppend DEF Fd
  <1>4. PICK k \in 1..MaxHandles : Len(io_devices[p]) \in Nat /\ k = Len(io_devices[p]) + 1
    BY <1>1, Ranges
  <1> HIDE DEF s
  <1>5. /\ io_devices' \in [Processes -> Seq(Fd)] /\ io_devices'[p] = s
        /\ \A q \in Processes : q # p => io_devices'[q] = io_devices[q]
    BY <1>1, <1>3 DEF TypeInv, s
  <1>6. TypeInv' BY <1>1, <1>5 DEF TypeInv
  <1>7. RecordsAlone(p)
    <2>1. \A q \in Processes : q # p /\ calls[q].back \in {"start", "reap"} => calls[q].child # p
      BY ChildAlone
    <2>2. \A q \in Processes : Len(io_devices[q]) <= MaxHandles BY <1>1, HandleRange, Ranges
    <2>3. \A q \in Processes : calls[q].child \in Processes BY Parts
    <2> QED BY <1>5, <2>1, <2>2, <2>3 DEF RecordsAlone
  <1>8. Alone(p) BY <1>1, <1>7 DEF Alone, FilesAlone, LostAlone
  <1>9. \A r \in Processes, h \in 1..MaxHandles : Dropped(r, h)' <=> Dropped(r, h)
    <2>1. \A r, h : DroppedBy(p, r, h)' <=> DroppedBy(p, r, h) BY <1>1 DEF DroppedBy
    <2> QED BY <1>1, <2>1, DroppedStay
  <1>10. ~Dropped(p, k)
    <2>1. \A t \in Processes : calls[t].back = "reap" => calls[t].child # p
      BY <1>1 DEF ChildInv
    <2> QED BY <2>1 DEF Dropped
  <1>11. Held(p, k) = Invalid /\ Held(p, k)' = x
    <2>1. k \notin DOMAIN io_devices[p] /\ k \in DOMAIN s BY <1>3, <1>4
    <2>2. Held(p, k) = Invalid BY <2>1 DEF Held
    <2>3. io_devices'[p] = s /\ s[k] = x /\ ~Dropped(p, k)'
      BY <1>3, <1>4, <1>5, <1>9, <1>10
    <2>4. Held(p, k)' = x BY <2>1, <2>3 DEF Held
    <2> QED BY <2>2, <2>4
  <1>12. ASSUME NEW r \in Processes, NEW h \in 1..MaxHandles, r # p \/ h # k
         PROVE  Held(r, h)' = Held(r, h)
    <2>1. CASE r # p BY <1>5, <1>9, <2>1 DEF Held
    <2>2. CASE r = p
      <3>1. h \in DOMAIN s <=> h \in DOMAIN io_devices[p]
        BY <1>3, <1>4, <1>12, <2>2
      <3> QED BY <1>3, <1>5, <1>9, <2>2, <3>1 DEF Held
    <2> QED BY <2>1, <2>2
  <1>13. \A r \in Processes, h \in 1..MaxHandles :
            r # p \/ h # k => Held(r, h)' = Held(r, h)
    BY <1>12
  <1>14. Opened(p)' = Opened(p) \ {x} /\ Works(p)' = {} /\ Works(p) = {}
    BY <1>1 DEF Opened, Works
  <1>15. ASSUME NEW fd \in Fds PROVE Users(fd)' = Users(fd)
    <2>1. Users(fd)' = Cardinality(Handles(fd)') + Cardinality(Openers(fd)') BY DEF Users
    <2>2. /\ Cardinality(Handles(fd)) \in Nat /\ Cardinality(Openers(fd)) \in Nat
          /\ Cardinality(Handles(fd)') \in Nat /\ Cardinality(Openers(fd)') \in Nat
      BY <1>1, <1>4, <1>12, UsersAreFinite, HandlesStep, OpenersStep
    <2>3. CASE fd = x
      <3>1. Cardinality(Handles(fd)') = Cardinality(Handles(fd)) + 1
        <4>1. Held(p, k) # fd /\ Held(p, k)' = fd BY <1>2, <1>11, <2>3
        <4> QED BY <1>4, <1>13, <4>1, HandlesStep
      <3>2. Cardinality(Openers(fd)) = Cardinality(Openers(fd)') + 1
        BY <1>1, <1>14, <2>3, OpenersStep
      <3> QED BY <2>1, <2>2, <3>1, <3>2 DEF Users
    <2>4. CASE fd # x
      <3>1. Cardinality(Handles(fd)') = Cardinality(Handles(fd))
        <4>1. Held(p, k) # fd /\ Held(p, k)' # fd BY <1>11, <2>4, Ranges
        <4> QED BY <1>4, <1>13, <4>1, HandlesStep
      <3>2. Cardinality(Openers(fd)') = Cardinality(Openers(fd))
        BY <1>1, <1>14, <2>4, OpenersStep
      <3> QED BY <2>1, <3>1, <3>2 DEF Users
    <2> QED BY <2>3, <2>4
  <1>16. UsersInv' BY <1>1, <1>15 DEF UsersInv
  <1>17. FilesInv' BY <1>1 DEF FilesInv
  <1>18. WorkApart' BY <1>1, <1>6, <1>14, ApartKept
  <1>19. ChildrenApart' BY <1>1, ChildrenStayApart
  <1>20. RecordInv'
    <2>1. Len(io_devices[p]) >= StdHandles BY <1>1 DEF RecordInv
    <2>2. Len(io_devices'[p]) >= StdHandles BY <1>3, <1>4, <1>5, <2>1, Ranges
    <2> QED BY <1>1, <1>5, <2>2 DEF RecordInv
  <1>21. LinkedStays(p) BY <1>1 DEF LinkedStays
  <1>22. ConnectionsMatch' BY <1>6, <1>8, <1>21, ConnectionsKept
  <1>23. ~Loaded(p)' BY <1>1 DEF Loaded
  <1> QED BY <1>6, <1>8, <1>16, <1>17, <1>18, <1>19, <1>20, <1>22, <1>23, CoreKept

LEMMA HandOverAll ==
  ASSUME Core, NEW p \in Processes, Return(p),
         calls[p].pc \in {"install", "installOut"},
         NEW x, Opened(p) = {x},
         io_devices' = [io_devices EXCEPT ![p] = Append(@, x)],
         UNCHANGED <<files, connections, pipes, alive, lost>>
  PROVE  Core'
  <1>1. /\ TypeInv /\ CallInv(p) /\ OpenOf(p) /\ calls[p] \in Call
        /\ io_devices[p] \in Seq(Fd)
    BY Parts
  <1>2. calls[p].back \in {"install", "user"} /\ alive[p] = "running"
    BY <1>1 DEF CallInv, BackOf
  <1>3. Wanted(calls[p]) = 1 BY <1>1 DEF Wanted, CallInv, BackOf
  <1>4. Len(io_devices[p]) + 1 <= MaxHandles BY <1>1, <1>3 DEF CallInv
  <1>5. x \in Fds BY <1>1 DEF OpenOf
  <1>6. Sets(p, NoCall) /\ calls'[p] = NoCall BY <1>1, ReturnSets, SetsOne
  <1>7. /\ OpenedBy(NoCall) = {} /\ WorkedAt(NoCall) = {} /\ Unlinked(NoCall) = {}
        /\ NoCall.seen = Unseen /\ NoCall.back = "user" /\ NoCall.pc = "user"
    BY DEF NoCall, OpenedBy, WorkedAt, Unlinked, Reserving, Closing
  <1>8. WorkedAt(calls[p]) = {} /\ Unlinked(calls[p]) = {}
    BY DEF WorkedAt, Unlinked, Reserving, Closing
  <1>9. io_devices' \in [Processes -> Seq(Fd)] /\ Len(io_devices'[p]) <= MaxHandles
    <2>1. Append(io_devices[p], x) \in Seq(Fd) BY <1>1, <1>5 DEF Fd
    <2>2. Len(Append(io_devices[p], x)) = Len(io_devices[p]) + 1
      BY <1>1, <1>5, SeqAppend DEF Fd
    <2>3. io_devices'[p] = Append(io_devices[p], x) BY <1>1 DEF TypeInv
    <2> QED BY <1>1, <1>4, <2>1, <2>2, <2>3 DEF TypeInv
  <1>10. calls' \in [Processes -> Call] BY <1>1, <1>6, SetsOne
  <1>11. TypeInv' BY <1>1, <1>9, <1>10 DEF TypeInv
  <1>12. ThreadInv(p)' BY <1>6, <1>9, <1>11, Returned
  <1> QED BY <1>2, <1>4, <1>6, <1>7, <1>8, <1>12, HandOverStep

LEMMA OpenInstallKeeps ==
  ASSUME Core, NEW p \in Processes, OpenInstall(p)
  PROVE  Core'
  <1>1. Opened(p) = {calls[p].fd} BY DEF OpenInstall, At, Opened, OpenedBy
  <1> QED BY <1>1, HandOverAll DEF OpenInstall, At

LEMMA PipeInstallOutKeeps ==
  ASSUME Core, NEW p \in Processes, PipeInstallOut(p)
  PROVE  Core'
  <1>1. Opened(p) = {calls[p].out} BY DEF PipeInstallOut, At, Opened, OpenedBy
  <1> QED BY <1>1, HandOverAll DEF PipeInstallOut, At

LEMMA PipeInstallInKeeps ==
  ASSUME Core, NEW p \in Processes, PipeInstallIn(p)
  PROVE  Core'
  <1> DEFINE d == [calls[p] EXCEPT !.pc = "installOut", !.seen = Unseen]
             s == Append(io_devices[p], calls[p].fd)
  <1>1. /\ TypeInv /\ CallInv(p) /\ ChildInv(p) /\ OpenOf(p) /\ calls[p] \in Call
        /\ io_devices[p] \in Seq(Fd) /\ calls[p].pc = "installIn" /\ "installOut" \in Labels
    BY Parts DEF PipeInstallIn, At, Labels
  <1>2. /\ Goto(p, "installOut") /\ UNCHANGED <<files, connections, pipes, alive, lost>>
        /\ io_devices' = [io_devices EXCEPT ![p] = Append(@, calls[p].fd)]
    BY DEF PipeInstallIn
  <1>3. calls[p].back = "user" /\ alive[p] = "running" BY <1>1 DEF CallInv, BackOf
  <1>4. Opened(p) = {calls[p].fd, calls[p].out} /\ calls[p].fd # calls[p].out
    BY <1>1 DEF Opened, OpenedBy, OpenOf
  <1>5. /\ calls[p].fd \in Fds /\ calls[p].out \in Fds /\ files[calls[p].out].sb = "pipe"
        /\ files[calls[p].out].openCounter = 1 /\ calls[p].out \notin lost
    BY <1>1, <1>4 DEF OpenOf
  <1>6. Wanted(calls[p]) = 2 BY <1>1, <1>3 DEF Wanted
  <1>7. Len(io_devices[p]) + 2 <= MaxHandles /\ Len(io_devices[p]) \in Nat
    BY <1>1, <1>6 DEF CallInv
  <1>8. Sets(p, d) BY <1>1, <1>2, GotoSets
  <1>9. /\ d.pc = "installOut" /\ d.fd = calls[p].fd /\ d.out = calls[p].out
        /\ d.handle = calls[p].handle /\ d.child = calls[p].child
        /\ d.back = "user" /\ d.seen = Unseen
    BY <1>1, <1>3 DEF Call
  <1> HIDE DEF d
  <1>10. calls'[p] = d BY <1>1, <1>8, SetsOne
  <1>11. /\ OpenedBy(d) = {calls[p].out} /\ WorkedAt(d) = {} /\ Unlinked(d) = {}
         /\ WorkedAt(calls[p]) = {} /\ Unlinked(calls[p]) = {}
    BY <1>1, <1>9 DEF OpenedBy, WorkedAt, Unlinked, Reserving, Closing
  <1>12. io_devices'[p] = s /\ Len(s) = Len(io_devices[p]) + 1
    <2>1. Len(s) = Len(io_devices[p]) + 1 BY <1>1, <1>5, SeqAppend DEF Fd
    <2> QED BY <1>1, <1>2, <2>1 DEF TypeInv
  <1> HIDE DEF s
  <1>13. ThreadInv(p)'
    <2>1. Opened(p)' = {calls[p].out} /\ Works(p)' = {} BY <1>10, <1>11 DEF Opened, Works
    <2>2. Wanted(d) = 1 BY <1>9 DEF Wanted
    <2>3. Len(io_devices'[p]) + Wanted(d) <= MaxHandles BY <1>7, <1>12, <2>2
    <2>4. CallInv(p)' BY <1>2, <1>3, <1>9, <1>10, <2>3 DEF CallInv, BackOf
    <2>5. ChildInv(p)' BY <1>9, <1>10 DEF ChildInv
    <2>6. WorkOf(p)' BY <1>9, <1>10, <2>1 DEF WorkOf, Closing
    <2>7. OpenOf(p)' BY <1>2, <1>5, <1>9, <1>10, <2>1 DEF OpenOf
    <2> QED BY <2>4, <2>5, <2>6, <2>7 DEF ThreadInv
  <1>14. /\ calls[p].fd \in Opened(p) /\ OpenedBy(d) = Opened(p) \ {calls[p].fd}
         /\ Len(io_devices[p]) + 1 <= MaxHandles
    BY <1>4, <1>7, <1>11, Ranges
  <1> QED BY <1>1, <1>2, <1>3, <1>8, <1>9, <1>11, <1>13, <1>14, HandOverStep

-----------------------------------------------------------------------------
(* The steps that count handles.                                            *)

LEMMA CountedFile ==
  ASSUME Core, NEW f \in Fds, NEW n \in Nat,
         files' = [files EXCEPT ![f].openCounter = n]
  PROVE  /\ files' \in [Fds -> File] /\ files'[f].openCounter = n
         /\ files'[f].sb = files[f].sb /\ files'[f].status = files[f].status
         /\ files'[f].inode = files[f].inode
         /\ \A fd \in Fds : fd # f => files'[fd] = files[fd]
  <1>1. files \in [Fds -> File] /\ files[f] \in File BY DEF Core, TypeInv
  <1>2. [files[f] EXCEPT !.openCounter = n] \in File BY <1>1 DEF File
  <1>3. files'[f] = [files[f] EXCEPT !.openCounter = n] BY <1>1
  <1>4. files' = [files EXCEPT ![f] = [files[f] EXCEPT !.openCounter = n]] BY <1>1
  <1> QED BY <1>1, <1>2, <1>3, <1>4 DEF File

\* The handle that is closed, and no other, no longer leads anywhere.
LEMMA DropOne ==
  ASSUME Core, NEW p \in Processes, At(p, "close"), calls[p].back \in {"remove", "reap"},
         NEW d, Sets(p, d), d.pc \in {calls[p].back, "disconnect"},
         d.back = calls[p].back, d.handle = calls[p].handle, d.child = calls[p].child,
         io_devices' = io_devices,
         NEW r \in Processes, NEW k \in 1..MaxHandles, r = ClosesOf(p), k = calls[p].handle
  PROVE  /\ Held(r, k)' = Invalid
         /\ \A q \in Processes, h \in 1..MaxHandles :
                q # r \/ h # k => Held(q, h)' = Held(q, h)
  <1>1. calls'[p] = d /\ CallsAlone(p) BY SetsOne, Parts DEF CallsAlone
  <1>2. Dropped(r, k)'
    <2>1. CASE calls[p].back = "remove"
      BY <1>1, <2>1 DEF Dropped, ClosesOf, Closing
    <2>2. CASE calls[p].back = "reap"
      <3>1. ~At(p, "close")' /\ r = d.child /\ k = d.handle /\ d.back = "reap"
        BY <1>1, <2>2 DEF At, ClosesOf
      <3> QED BY <1>1, <3>1 DEF Dropped
    <2> QED BY <2>1, <2>2
  <1>3. ASSUME NEW q \in Processes, NEW h \in 1..MaxHandles, q # r \/ h # k
        PROVE  Held(q, h)' = Held(q, h)
    <2>1. DroppedBy(p, q, h)' <=> DroppedBy(p, q, h)
      BY <1>1, <1>3 DEF DroppedBy, ClosesOf, Closing, At
    <2>2. Dropped(q, h)' <=> Dropped(q, h) BY <1>1, <2>1, DroppedStay
    <2> QED BY <2>2 DEF Held
  <1> QED BY <1>2, <1>3 DEF Held

\* One user less of the descriptor that is closed.
LEMMA OneUserLess ==
  ASSUME Core, NEW p \in Processes, At(p, "close"), NEW f \in Fds, f = calls[p].fd,
         NEW d, Sets(p, d), d.pc \in {calls[p].back, "disconnect"},
         d.back = calls[p].back, d.handle = calls[p].handle, d.child = calls[p].child,
         io_devices' = io_devices
  PROVE  /\ Users(f) = Users(f)' + 1 /\ Users(f)' \in Nat
         /\ \A fd \in Fds : fd # f => Users(fd)' = Users(fd)
  <1>1. calls'[p] = d /\ CallsAlone(p) /\ CallInv(p) /\ calls[p].back \in {"start", "remove", "reap"}
    <2>1. TypeInv /\ CallInv(p) BY Parts
    <2>2. calls'[p] = d /\ CallsAlone(p) BY <2>1, SetsOne DEF CallsAlone
    <2>3. calls[p].pc = "close" /\ calls[p].back \in BackOf(calls[p].pc)
      BY <2>1 DEF CallInv, At
    <2>4. BackOf("close") = {"start", "remove", "reap"} BY DEF BackOf
    <2> QED BY <2>1, <2>2, <2>3, <2>4
  <1>2. OpenedBy(d) = {} BY <1>1 DEF OpenedBy
  <1>3. Opened(p)' = {} BY <1>1, <1>2 DEF Opened
  <1>4. \A fd \in Fds : Users(fd)' = Cardinality(Handles(fd)') + Cardinality(Openers(fd)')
    BY DEF Users
  <1>5. CASE calls[p].back = "start"
    <2>1. Opened(p) = {f} BY <1>5 DEF Opened, OpenedBy, At
    <2>2. HeldSame
      <3>1. \A r, h : DroppedBy(p, r, h)' <=> DroppedBy(p, r, h)
        BY <1>1, <1>5 DEF DroppedBy
      <3> QED BY <1>1, <3>1, HeldStay
    <2>3. Handles(f)' = Handles(f) BY <2>2, HandlesSame
    <2>4. Cardinality(Handles(f)') = Cardinality(Handles(f)) BY <2>3
    <2>5. Cardinality(Openers(f)) = Cardinality(Openers(f)') + 1
          /\ Cardinality(Openers(f)') \in Nat
      BY <1>1, <1>3, <2>1, OpenersStep
    <2>6. Cardinality(Handles(f)) \in Nat BY UsersAreFinite
    <2>7. Users(f) = Users(f)' + 1 /\ Users(f)' \in Nat
      BY <1>4, <2>4, <2>5, <2>6 DEF Users
    <2>8. \A fd \in Fds : fd # f => Users(fd)' = Users(fd)
      BY <1>1, <1>3, <2>1, <2>2, UsersSame
    <2> QED BY <2>7, <2>8
  <1>6. CASE calls[p].back \in {"remove", "reap"}
    <2>1. PICK r \in Processes, k \in 1..MaxHandles :
            r = ClosesOf(p) /\ k = calls[p].handle /\ Held(r, k) = f
      BY <1>6, ClosingHeld
    <2>2. /\ Held(r, k)' = Invalid
          /\ \A q \in Processes, h \in 1..MaxHandles :
                q # r \/ h # k => Held(q, h)' = Held(q, h)
      BY <1>6, <2>1, DropOne
    <2>3. OpenedBy(calls[p]) = {} BY <1>6 DEF OpenedBy, At
    <2>4. Opened(p) = {} BY <2>3 DEF Opened
    <2>5. Held(r, k) = f /\ Held(r, k)' # f BY <2>1, <2>2, Ranges
    <2>6. Cardinality(Handles(f)) = Cardinality(Handles(f)') + 1
          /\ Cardinality(Handles(f)') \in Nat
      BY <2>2, <2>5, HandlesStep
    <2>7. Cardinality(Openers(f)') = Cardinality(Openers(f))
      BY <1>1, <1>3, <2>4, OpenersStep
    <2>8. Cardinality(Openers(f)) \in Nat BY UsersAreFinite
    <2>9. Users(f) = Users(f)' + 1 /\ Users(f)' \in Nat
      BY <1>4, <2>6, <2>7, <2>8 DEF Users
    <2>10. ASSUME NEW fd \in Fds, fd # f PROVE Users(fd)' = Users(fd)
      <3>1. Held(r, k) # fd /\ Held(r, k)' # fd BY <2>1, <2>2, <2>10, Ranges
      <3>2. Cardinality(Handles(fd)') = Cardinality(Handles(fd))
        BY <2>2, <3>1, HandlesStep
      <3>3. Cardinality(Openers(fd)') = Cardinality(Openers(fd))
        BY <1>1, <1>3, <2>4, OpenersStep
      <3> QED BY <1>4, <3>2, <3>3 DEF Users
    <2> QED BY <2>9, <2>10
  <1> QED BY <1>1, <1>5, <1>6

\* A descriptor that is closed is connected.
LEMMA ClosedIsLinked ==
  ASSUME Core, NEW p \in Processes, At(p, "close"), calls[p].fd # Invalid
  PROVE  /\ \A q \in Processes : calls[p].fd \notin Unlinked(calls[q])
         /\ calls[p].fd \in Opened(p) \/ HeldBySome(calls[p].fd)
         /\ Unlinked(calls[p]) = {}
  <1>1. /\ CallInv(p) /\ calls[p].back \in {"start", "remove", "reap"}
        /\ Unlinked(calls[p]) = {} /\ calls[p].fd \in Fds
    BY Parts DEF CallInv, BackOf, At, Unlinked, Fd
  <1>2. calls[p].fd \in Opened(p) \/ HeldBySome(calls[p].fd)
    <2>1. CASE calls[p].back = "start" BY <2>1 DEF Opened, OpenedBy, At
    <2>2. CASE calls[p].back # "start" BY <1>1, <2>2, ClosingHeld DEF HeldBySome
    <2> QED BY <2>1, <2>2
  <1>3. ASSUME NEW q \in Processes, calls[p].fd \in Unlinked(calls[q]) PROVE FALSE
    <2>1. q # p BY <1>1, <1>3
    <2>2. calls[p].fd \in Opened(q) BY <1>1, <1>3, Ranges, Parts
      DEF Unlinked, Opened, OpenedBy, CallInv
    <2> QED BY <1>2, <2>1, <2>2, OpenedAlone DEF Core, ThreadInv, HeldBySome
  <1> QED BY <1>1, <1>2, <1>3

LEMMA CountDownStep ==
  ASSUME Core, NEW p \in Processes, At(p, "close"), Loaded(p), NEW f \in Fds, f = calls[p].fd,
         NEW d, Sets(p, d),
         d.pc = IF calls[p].seen > 1 THEN calls[p].back ELSE "disconnect",
         d.fd = IF calls[p].seen > 1 THEN Invalid ELSE f,
         d.out = calls[p].out, d.handle = calls[p].handle, d.child = calls[p].child,
         d.back = calls[p].back, d.seen = Unseen,
         files' = [files EXCEPT ![f].openCounter = calls[p].seen - 1],
         UNCHANGED <<connections, pipes, io_devices, alive, lost>>
  PROVE  Core'
  <1>1. /\ TypeInv /\ CallInv(p) /\ ChildInv(p) /\ OpenOf(p) /\ calls[p] \in Call
        /\ FilesInv /\ UsersInv /\ SeenInv /\ RecordInv /\ calls[p].pc = "close"
        /\ calls[p].fd # Invalid /\ files[f] \in File
    BY Parts, Ranges DEF At, TypeInv
  <1>2. calls[p].back \in {"start", "remove", "reap"} /\ alive[p] = "running"
    BY <1>1 DEF CallInv, BackOf
  <1>3. files[f].openCounter \in Nat /\ files[f].openCounter >= 1
        /\ calls[p].seen = files[f].openCounter
    <2>1. calls[p].seen = Counter(p) BY <1>1 DEF SeenInv
    <2> QED BY <1>1, <2>1, CloseResolves DEF Counter, File
  <1>4. calls[p].seen - 1 \in Nat BY <1>3
  <1>5. /\ files' \in [Fds -> File] /\ files'[f].openCounter = calls[p].seen - 1
        /\ files'[f].sb = files[f].sb /\ files'[f].status = files[f].status
        /\ files'[f].inode = files[f].inode
        /\ \A fd \in Fds : fd # f => files'[fd] = files[fd]
    BY <1>4, CountedFile
  <1>6. calls' \in [Processes -> Call] /\ calls'[p] = d /\ CallsAlone(p)
    BY <1>1, SetsOne DEF CallsAlone
  <1>7. TypeInv' BY <1>1, <1>5, <1>6 DEF TypeInv
  <1>8. /\ \A q \in Processes : f \notin Unlinked(calls[q])
        /\ f \in Opened(p) \/ HeldBySome(f)
        /\ Unlinked(calls[p]) = {}
    BY <1>1, ClosedIsLinked
  <1>9. Alone(p)
    <2>1. RecordsAlone(p) BY RecordsStay
    <2>2. FilesAlone(p) BY <1>3, <1>5, <1>8 DEF FilesAlone
    <2> QED BY <1>6, <2>1, <2>2 DEF Alone, LostAlone
  <1>10. files[f].status # "idle" BY <1>1, <1>3 DEF FilesInv, Idle
  <1>11. calls[p].back = "start" => files[f].openCounter = 1 /\ files[f].sb = "file"
    <2>1. calls[p].back = "start" => f \in Opened(p) BY <1>1 DEF Opened, OpenedBy
    <2> QED BY <1>1, <2>1 DEF OpenOf
  <1>12. /\ Users(f) = Users(f)' + 1 /\ Users(f)' \in Nat
         /\ \A fd \in Fds : fd # f => Users(fd)' = Users(fd)
    BY OneUserLess
  <1>13. f \in lost => files[f].openCounter >= Users(f) + 1
    BY <1>1, <1>3 DEF UsersInv, Reserved, Idle
  <1>14. UsersInv'
    <2>1. IF f \in lost' THEN files'[f].openCounter >= Users(f)' + 1
                         ELSE files'[f].openCounter = Users(f)'
      <3>1. f \notin lost => files[f].openCounter = Users(f) BY <1>1 DEF UsersInv
      <3> QED BY <1>3, <1>5, <1>12, <1>13, <3>1
    <2>2. ASSUME NEW fd \in Fds, fd # f
          PROVE  IF fd \in lost'
                 THEN \/ files'[fd].openCounter >= Users(fd)' + 1
                      \/ files'[fd] = Reserved /\ Users(fd)' = 0
                 ELSE files'[fd].openCounter = Users(fd)'
      BY <1>1, <1>5, <1>12, <2>2 DEF UsersInv
    <2> QED BY <2>1, <2>2 DEF UsersInv
  <1>15. Unlinked(d) = {} /\ OpenedBy(d) = {} BY <1>2 DEF Unlinked, OpenedBy
  <1>16. Opened(p)' = {} BY <1>6, <1>15 DEF Opened
  <1>17. FilesInv' BY <1>1, <1>5, <1>10 DEF FilesInv
  <1>18. ChildrenApart' BY <1>6, ChildrenStayApart
  <1>19. RecordInv' BY <1>1 DEF RecordInv
  <1>20. ~Loaded(p)' BY <1>6 DEF Loaded
  <1>21. Wanted(d) = 0 /\ Wanted(calls[p]) = 0 BY <1>1, <1>2 DEF Wanted
  <1>22. CallInv(p)' /\ ChildInv(p)'
    <2>1. d.back \in BackOf(d.pc) BY <1>2, <1>3, <1>11 DEF BackOf
    <2>2. CallInv(p)' BY <1>1, <1>2, <1>6, <1>21, <2>1 DEF CallInv
    <2>3. ChildInv(p)' BY <1>1, <1>2, <1>6 DEF ChildInv
    <2> QED BY <2>2, <2>3
  <1>23. CASE calls[p].seen > 1
    <2>1. d.pc = calls[p].back /\ d.fd = Invalid /\ Plain(d) BY <1>2, <1>23 DEF Plain
    <2>2. ThreadInv(p)' BY <1>6, <1>22, <2>1, PlainThread
    <2>3. Works(p)' = {} BY <1>6, <2>1, PlainCall DEF Works
    <2>4. WorkApart' BY <1>6, <1>7, <2>3, ApartKept
    <2>5. files'[f].openCounter >= 1 BY <1>3, <1>5, <1>23
    <2>6. LinkedStays(p)
      <3>1. ASSUME NEW fd \in Fds
            PROVE  /\ files'[fd].openCounter >= 1 <=> files[fd].openCounter >= 1
                   /\ files'[fd].sb = files[fd].sb
        BY <1>3, <1>5, <2>5
      <3>2. d.pc # "disconnect" BY <1>2, <2>1
      <3> QED BY <1>1, <1>6, <1>8, <1>15, <3>1, <3>2 DEF LinkedStays
    <2>7. ConnectionsMatch' BY <1>7, <1>9, <2>6, ConnectionsKept
    <2> QED BY <1>7, <1>9, <1>14, <1>17, <1>18, <1>19, <1>20, <2>2, <2>4, <2>7, CoreKept
  <1>24. CASE ~(calls[p].seen > 1)
    <2>1. d.pc = "disconnect" /\ d.fd = f BY <1>24
    <2>2. files[f].openCounter = 1 /\ files'[f].openCounter = 0 BY <1>3, <1>5, <1>24
    <2>3. f \notin lost
      <3>1. Users(f) >= 1 BY <1>12
      <3> QED BY <1>12, <1>13, <2>2, <3>1
    <2>4. Works(p)' = {f}
      BY <1>1, <1>6, <2>1 DEF Works, WorkedAt, Closing, Reserving
    <2>5. WorkOf(p)'
      BY <1>1, <1>5, <1>6, <1>10, <1>11, <2>1, <2>2, <2>3, <2>4 DEF WorkOf, Closing, Reserving
    <2>6. OpenOf(p)' BY <1>6, <1>16, <2>1 DEF OpenOf
    <2>7. ThreadInv(p)' BY <1>22, <2>5, <2>6 DEF ThreadInv
    <2>8. WorkApart' BY <1>3, <1>6, <1>7, <2>4, ApartKept
    <2>9. ASSUME NEW sb \in FsTypes
          PROVE  /\ Linked(sb)' = Linked(sb) \ {f}
                 /\ Leaving(sb)' = IF sb = files[f].sb THEN Leaving(sb) \cup {p} ELSE Leaving(sb)
                 /\ f \in Linked(sb) <=> sb = files[f].sb
                 /\ p \notin Leaving(sb)
      <3>1. \A q \in Processes : q # p => calls'[q] = calls[q] BY <1>6 DEF CallsAlone
      <3>2. \A q \in Processes : Unlinked(calls'[q]) = Unlinked(calls[q])
        BY <1>6, <1>8, <1>15, <3>1
      <3>3. \A fd \in Fds : fd \in Linked(sb)' <=> fd \in Linked(sb) /\ fd # f
        BY <1>5, <2>2, <3>2 DEF Linked
      <3>4. f \in Linked(sb) <=> sb = files[f].sb BY <1>3, <1>8 DEF Linked
      <3>5. \A q \in Processes : q # p => (q \in Leaving(sb)' <=> q \in Leaving(sb))
        BY <1>9, <3>1, LeavingOthers DEF Leaving
      <3>6. p \in Leaving(sb)' <=> sb = files[f].sb BY <1>5, <1>6, <2>1 DEF Leaving
      <3>7. p \notin Leaving(sb) BY <1>1 DEF Leaving
      <3>8. Linked(sb)' = Linked(sb) \ {f} BY <3>3 DEF Linked
      <3>9. Leaving(sb)' = IF sb = files[f].sb THEN Leaving(sb) \cup {p} ELSE Leaving(sb)
        BY <3>5, <3>6, <3>7 DEF Leaving
      <3> QED BY <3>4, <3>7, <3>8, <3>9
    <2>10. ASSUME NEW sb \in FsTypes
           PROVE  connections'[sb] = Cardinality(Linked(sb)') + Cardinality(Leaving(sb)')
      <3>1. /\ connections[sb] = Cardinality(Linked(sb)) + Cardinality(Leaving(sb))
            /\ IsFiniteSet(Linked(sb)) /\ IsFiniteSet(Leaving(sb))
            /\ Cardinality(Linked(sb)) \in Nat /\ Cardinality(Leaving(sb)) \in Nat
        BY LinkedAreFinite, ConnectionsAre DEF Core, ConnectionsCounted
      <3>2. CASE sb = files[f].sb
        <4>1. Cardinality(Linked(sb) \ {f}) = Cardinality(Linked(sb)) - 1
          BY <2>9, <3>1, <3>2, FS_RemoveElement
        <4>2. Cardinality(Leaving(sb) \cup {p}) = Cardinality(Leaving(sb)) + 1
          BY <2>9, <3>1, FS_AddElement
        <4>3. Linked(sb)' = Linked(sb) \ {f} /\ Leaving(sb)' = Leaving(sb) \cup {p}
          BY <2>9, <3>2
        <4>4. /\ Cardinality(Linked(sb)') = Cardinality(Linked(sb) \ {f})
              /\ Cardinality(Leaving(sb)') = Cardinality(Leaving(sb) \cup {p})
          BY <4>3
        <4> QED BY <3>1, <4>1, <4>2, <4>4
      <3>3. CASE sb # files[f].sb
        <4>1. Linked(sb)' = Linked(sb) /\ Leaving(sb)' = Leaving(sb) BY <2>9, <3>3
        <4>2. /\ Cardinality(Linked(sb)') = Cardinality(Linked(sb))
              /\ Cardinality(Leaving(sb)') = Cardinality(Leaving(sb))
          BY <4>1
        <4> QED BY <3>1, <4>2
      <3> QED BY <3>2, <3>3
    <2>11. ConnectionsMatch' BY <2>10, ConnectionsAreNext DEF ConnectionsCounted
    <2> QED BY <1>7, <1>9, <1>14, <1>17, <1>18, <1>19, <1>20, <2>7, <2>8, <2>11, CoreKept
  <1> QED BY <1>23, <1>24

LEMMA CloseCountKeeps ==
  ASSUME Core, NEW p \in Processes, CloseCount(p)
  PROVE  Core'
  <1>1. /\ TypeInv /\ CallInv(p) /\ ChildInv(p) /\ OpenOf(p) /\ SeenInv /\ calls[p] \in Call
        /\ calls[p].pc = "close" /\ calls[p].fd \in Fd
    BY Parts DEF CloseCount, At
  <1>2. /\ Loaded(p) \/ ~CountsNow(p)
        /\ UNCHANGED <<connections, pipes, io_devices, alive, lost>>
        /\ IF ~Loaded(p) THEN AfterClose(p) /\ UNCHANGED files
           ELSE /\ files' = [files EXCEPT ![calls[p].fd].openCounter = calls[p].seen - 1]
                /\ IF calls[p].seen > 1 THEN AfterClose(p) ELSE Goto(p, "disconnect")
    BY DEF CloseCount
  <1>3. calls[p].back \in {"start", "remove", "reap"} /\ calls[p].back \in Labels
        /\ alive[p] = "running" /\ "disconnect" \in Labels
    BY <1>1 DEF CallInv, BackOf, Labels
  <1> DEFINE d == [calls[p] EXCEPT !.pc = calls[p].back, !.fd = Invalid, !.seen = Unseen]
             e == [calls[p] EXCEPT !.pc = "disconnect", !.seen = Unseen]
  <1>4. /\ d.pc = calls[p].back /\ d.fd = Invalid /\ d.out = calls[p].out
        /\ d.handle = calls[p].handle /\ d.child = calls[p].child
        /\ d.back = calls[p].back /\ d.seen = Unseen
    BY <1>1 DEF Call
  <1>5. /\ e.pc = "disconnect" /\ e.fd = calls[p].fd /\ e.out = calls[p].out
        /\ e.handle = calls[p].handle /\ e.child = calls[p].child
        /\ e.back = calls[p].back /\ e.seen = Unseen
    BY <1>1 DEF Call
  <1>6. AfterClose(p) => Sets(p, d) BY <1>1, <1>3, AfterCloseSets
  <1>7. Goto(p, "disconnect") => Sets(p, e) BY <1>1, <1>3, GotoSets
  <1> HIDE DEF d, e
  <1>8. CASE Loaded(p)
    <2>1. CountsNow(p) BY <1>1, <1>8 DEF SeenInv
    <2>2. PICK f \in Fds : f = calls[p].fd
      BY <1>1, <2>1 DEF CountsNow, Resolves, Fd
    <2>3. CASE calls[p].seen > 1
      BY <1>1, <1>2, <1>4, <1>6, <1>8, <2>2, <2>3, CountDownStep DEF At
    <2>4. CASE ~(calls[p].seen > 1)
      BY <1>1, <1>2, <1>5, <1>7, <1>8, <2>2, <2>4, CountDownStep DEF At
    <2> QED BY <2>3, <2>4
  <1>9. CASE ~Loaded(p)
    <2>1. calls[p].fd = Invalid BY <1>1, <1>2, <1>9, CloseResolves DEF At
    <2>2. calls[p].back # "start"
      <3>1. calls[p].back = "start" => calls[p].fd \in Opened(p)
        BY <1>1 DEF Opened, OpenedBy
      <3> QED BY <1>1, <2>1, <3>1, Ranges DEF OpenOf
    <2>3. Sets(p, d) BY <1>2, <1>6, <1>9
    <2>4. calls'[p] = d BY <1>1, <2>3, SetsOne
    <2>5. PICK r \in Processes, k \in 1..MaxHandles :
            r = ClosesOf(p) /\ k = calls[p].handle /\ Held(r, k) = Invalid
      BY <1>1, <1>3, <2>1, <2>2, ClosingHeld DEF At
    <2>6. HeldSame
      <3>1. /\ Held(r, k)' = Invalid
            /\ \A q \in Processes, h \in 1..MaxHandles :
                  q # r \/ h # k => Held(q, h)' = Held(q, h)
        BY <1>1, <1>2, <1>3, <1>4, <2>2, <2>3, <2>5, DropOne DEF At
      <3>2. ASSUME NEW q \in Processes, NEW h \in 1..MaxHandles
            PROVE  Held(q, h)' = Held(q, h)
        BY <2>5, <3>1
      <3> QED BY <3>2 DEF HeldSame
    <2>7. Plain(calls[p]) /\ Plain(d) BY <1>1, <1>3, <1>4, <2>2 DEF Plain
    <2>8. Wanted(d) = 0 /\ Wanted(calls[p]) = 0 BY <1>1, <1>3, <1>4 DEF Wanted
    <2>9. CallInv(p)' BY <1>1, <1>2, <1>3, <1>4, <2>4, <2>8 DEF CallInv, BackOf
    <2>10. ChildInv(p)' BY <1>1, <1>2, <1>3, <1>4, <2>2, <2>4 DEF ChildInv
    <2> QED BY <1>2, <1>4, <1>9, <2>3, <2>6, <2>7, <2>9, <2>10, PlainStep
  <1> QED BY <1>8, <1>9

\* The handles of a process that is not running yet.
LEMMA StartingHolds ==
  ASSUME Core, NEW q \in Processes, alive[q] = "starting"
  PROVE  /\ calls[q] = NoCall
         /\ \A h \in 1..MaxHandles : ~Dropped(q, h)
         /\ \A h \in DOMAIN io_devices[q] : Held(q, h) = io_devices[q][h]
  <1>1. calls[q] = NoCall BY Parts DEF CallInv
  <1>2. \A t \in Processes : ChildInv(t) BY Parts
  <1>3. ASSUME NEW h PROVE ~Dropped(q, h) BY <1>1, <1>2 DEF Dropped, NoCall, ChildInv
  <1> QED BY <1>1, <1>3 DEF Held

\* The child has one handle more, and its descriptor is counted.
LEMMA CountUpStep ==
  ASSUME Core, NEW p \in Processes, At(p, "count"), Loaded(p),
         NEW f \in Fds, f = calls[p].fd, NEW q \in Processes, q = calls[p].child,
         NEW k \in 1..MaxHandles, k = calls[p].handle,
         NEW d, Sets(p, d), d.fd = Invalid, d.out = calls[p].out, d.back = calls[p].back,
         d.child = q, d.seen = Unseen, d.pc \in {"inherit", "record"},
         files' = [files EXCEPT ![f].openCounter = calls[p].seen + 1],
         io_devices' = [io_devices EXCEPT ![q] = [io_devices[q] EXCEPT ![k] = f]],
         UNCHANGED <<connections, pipes, alive, lost>>,
         CallInv(p)', ChildInv(p)'
  PROVE  Core'
  <1> DEFINE s == [io_devices[q] EXCEPT ![k] = f]
  <1>1. /\ TypeInv /\ CallInv(p) /\ ChildInv(p) /\ calls[p] \in Call /\ FilesInv /\ UsersInv
        /\ SeenInv /\ RecordInv /\ calls[p].pc = "count" /\ files[f] \in File
        /\ io_devices[q] \in Seq(Fd) /\ \A r \in Processes : CallInv(r)
    BY Parts DEF At, TypeInv
  <1>2. /\ calls[p].back = "start" /\ alive[p] = "running" /\ alive[q] = "starting"
        /\ Len(io_devices[q]) = StdHandles /\ k \in 1..StdHandles
        /\ io_devices[q][k] = Invalid
    <2>1. BackOf("count") = {"start"} BY DEF BackOf
    <2>2. calls[p].back = "start" /\ alive[p] = "running" BY <1>1, <2>1 DEF CallInv
    <2>3. /\ alive[q] = "starting" /\ Len(io_devices[q]) = StdHandles /\ k \in 1..StdHandles
          /\ \A h \in k..StdHandles : io_devices[q][h] = Invalid
      BY <1>1, <2>2 DEF ChildInv
    <2>4. StdHandles \in Nat BY Ranges
    <2>5. k \in k..StdHandles BY <2>3, <2>4
    <2> QED BY <2>2, <2>3, <2>5
  <1>3. k \in DOMAIN io_devices[q] BY <1>1, <1>2
  <1>4. s \in Seq(Fd) /\ Len(s) = Len(io_devices[q]) /\ DOMAIN s = DOMAIN io_devices[q]
        /\ s[k] = f /\ \A h \in DOMAIN io_devices[q] : h # k => s[h] = io_devices[q][h]
    BY <1>1, <1>3, SeqEdit DEF Fd
  <1>5. files[f].openCounter \in Nat /\ files[f].openCounter >= 1
        /\ calls[p].seen = files[f].openCounter
    <2>1. calls[p].seen = Counter(p) /\ CountsNow(p) BY <1>1 DEF SeenInv
    <2> QED BY <1>1, <2>1 DEF Counter, CountsNow, File
  <1>6. calls[p].seen + 1 \in Nat BY <1>5
  <1>7. /\ files' \in [Fds -> File] /\ files'[f].openCounter = calls[p].seen + 1
        /\ files'[f].sb = files[f].sb /\ files'[f].status = files[f].status
        /\ files'[f].inode = files[f].inode
        /\ \A fd \in Fds : fd # f => files'[fd] = files[fd]
    BY <1>6, CountedFile
  <1>8. calls' \in [Processes -> Call] /\ calls'[p] = d /\ CallsAlone(p)
    BY <1>1, SetsOne DEF CallsAlone
  <1> HIDE DEF s
  <1>9. /\ io_devices' \in [Processes -> Seq(Fd)] /\ io_devices'[q] = s
        /\ \A r \in Processes : r # q => io_devices'[r] = io_devices[r]
    BY <1>1, <1>4 DEF TypeInv, s
  <1>10. TypeInv' BY <1>1, <1>7, <1>8, <1>9 DEF TypeInv
  <1>11. p # q /\ calls[p].back # "remove" BY <1>2
  <1>12. HeldBySome(f)
    <2>1. PICK h \in DOMAIN io_devices[p] : io_devices[p][h] = f
      BY <1>1, Ranges DEF CallInv
    <2>2. h \in 1..MaxHandles BY <1>1, HandleRange
    <2>3. \A r \in Processes : ChildInv(r) BY Parts
    <2>4. Held(p, h) = f BY <1>1, <1>2, <1>11, <2>1, <2>3, RunningHolds
    <2> QED BY <2>2, <2>4 DEF HeldBySome
  <1>13. \A r \in Processes : r # p /\ calls[r].back \in {"start", "reap"} =>
            calls[r].child # q /\ calls[r].child \in Processes
    BY <1>2, ChildAlone, Parts
  <1>14. Alone(p)
    <2>1. \A r \in Processes : Len(io_devices[r]) <= MaxHandles BY <1>1, HandleRange, Ranges
    <2>2. \A r \in Processes : Len(io_devices'[r]) <= MaxHandles
      BY <1>4, <1>9, <2>1
    <2>3. RecordsAlone(p) BY <1>2, <1>9, <1>13, <2>2 DEF RecordsAlone
    <2>4. FilesAlone(p) BY <1>5, <1>7, <1>12 DEF FilesAlone
    <2> QED BY <1>8, <2>3, <2>4 DEF Alone, LostAlone
  <1>15. OpenedBy(d) = {} /\ WorkedAt(d) = {} /\ Unlinked(d) = {} /\ d.pc # "disconnect"
         /\ OpenedBy(calls[p]) = {} /\ Unlinked(calls[p]) = {} /\ Plain(d)
    BY <1>1 DEF OpenedBy, WorkedAt, Unlinked, Reserving, Closing, Plain
  <1>16. Opened(p)' = {} /\ Opened(p) = {} /\ Works(p)' = {}
    BY <1>8, <1>15 DEF Opened, Works
  <1>17. \A r \in Processes, h \in 1..MaxHandles : Dropped(r, h)' <=> Dropped(r, h)
    <2>1. \A r, h : DroppedBy(p, r, h)' <=> DroppedBy(p, r, h)
      BY <1>2, <1>8 DEF DroppedBy
    <2> QED BY <1>8, <2>1, DroppedStay
  <1>18. Held(q, k) = Invalid /\ Held(q, k)' = f
    <2>1. ~Dropped(q, k) /\ Held(q, k) = io_devices[q][k] BY <1>2, <1>3, StartingHolds
    <2>2. k \in DOMAIN io_devices'[q] /\ io_devices'[q][k] = f BY <1>3, <1>4, <1>9
    <2> QED BY <1>2, <1>17, <2>1, <2>2 DEF Held
  <1>19. ASSUME NEW r \in Processes, NEW h \in 1..MaxHandles, r # q \/ h # k
         PROVE  Held(r, h)' = Held(r, h)
    <2>1. CASE r # q BY <1>9, <1>17, <2>1 DEF Held
    <2>2. CASE r = q BY <1>4, <1>9, <1>17, <1>19, <2>2 DEF Held
    <2> QED BY <2>1, <2>2
  <1>20. \A r \in Processes, h \in 1..MaxHandles :
            r # q \/ h # k => Held(r, h)' = Held(r, h)
    BY <1>19
  <1>21. ASSUME NEW fd \in Fds
         PROVE  Users(fd)' = (IF fd = f THEN Users(fd) + 1 ELSE Users(fd))
    <2>1. Users(fd)' = Cardinality(Handles(fd)') + Cardinality(Openers(fd)') BY DEF Users
    <2>2. Cardinality(Openers(fd)') = Cardinality(Openers(fd))
      BY <1>8, <1>16, OpenersStep
    <2>3. Cardinality(Openers(fd)) \in Nat /\ Cardinality(Handles(fd)) \in Nat
      BY UsersAreFinite
    <2>4. CASE fd = f
      <3>1. Held(q, k) # fd /\ Held(q, k)' = fd BY <1>18, <2>4, Ranges
      <3>2. Cardinality(Handles(fd)') = Cardinality(Handles(fd)) + 1
        BY <1>20, <3>1, HandlesStep
      <3> QED BY <2>1, <2>2, <2>3, <2>4, <3>2 DEF Users
    <2>5. CASE fd # f
      <3>1. Held(q, k) # fd /\ Held(q, k)' # fd BY <1>18, <2>5, Ranges
      <3>2. Cardinality(Handles(fd)') = Cardinality(Handles(fd))
        BY <1>20, <3>1, HandlesStep
      <3> QED BY <2>1, <2>2, <2>5, <3>2 DEF Users
    <2> QED BY <2>4, <2>5
  <1>22. UsersInv'
    <2>1. IF f \in lost' THEN files'[f].openCounter >= Users(f)' + 1
                         ELSE files'[f].openCounter = Users(f)'
      <3>1. f \in lost => files[f].openCounter >= Users(f) + 1
        BY <1>1, <1>5 DEF UsersInv, Reserved, Idle
      <3>2. f \notin lost => files[f].openCounter = Users(f) BY <1>1 DEF UsersInv
      <3>3. Users(f) \in Nat /\ Users(f)' = Users(f) + 1 BY <1>21, UsersAreFinite
      <3> QED BY <1>5, <1>7, <3>1, <3>2, <3>3
    <2>2. ASSUME NEW fd \in Fds, fd # f
          PROVE  IF fd \in lost'
                 THEN \/ files'[fd].openCounter >= Users(fd)' + 1
                      \/ files'[fd] = Reserved /\ Users(fd)' = 0
                 ELSE files'[fd].openCounter = Users(fd)'
      BY <1>1, <1>7, <1>21, <2>2 DEF UsersInv
    <2> QED BY <2>1, <2>2 DEF UsersInv
  <1>23. files[f].status # "idle" BY <1>1, <1>5 DEF FilesInv, Idle
  <1>24. FilesInv' BY <1>1, <1>7, <1>23 DEF FilesInv
  <1>25. ThreadInv(p)' BY <1>8, <1>15, PlainThread
  <1>26. WorkApart' BY <1>8, <1>10, <1>16, ApartKept
  <1>27. ChildrenApart' BY <1>8, ChildrenStayApart
  <1>28. RecordInv'
    <2>1. Len(io_devices'[q]) >= StdHandles BY <1>2, <1>4, <1>9, Ranges
    <2> QED BY <1>1, <1>2, <1>9, <2>1 DEF RecordInv
  <1>29. LinkedStays(p)
    <2>1. \A fd \in Fds : /\ files'[fd].openCounter >= 1 <=> files[fd].openCounter >= 1
                          /\ files'[fd].sb = files[fd].sb
      BY <1>5, <1>7
    <2> QED BY <1>1, <1>8, <1>15, <2>1 DEF LinkedStays
  <1>30. ConnectionsMatch' BY <1>10, <1>14, <1>29, ConnectionsKept
  <1>31. ~Loaded(p)' BY <1>8 DEF Loaded
  <1> QED
    BY <1>10, <1>14, <1>22, <1>24, <1>25, <1>26, <1>27, <1>28, <1>30, <1>31, CoreKept

LEMMA SeqSame ==
  ASSUME NEW s \in Seq(Fd), NEW k, s[k] = Invalid
  PROVE  [s EXCEPT ![k] = Invalid] = s
  <1>1. s \in [1..Len(s) -> Fd] OBVIOUS
  <1> QED BY <1>1

LEMMA InheritCountKeeps ==
  ASSUME Core, NEW p \in Processes, InheritCount(p)
  PROVE  Core'
  <1>1. /\ TypeInv /\ CallInv(p) /\ ChildInv(p) /\ SeenInv /\ calls[p] \in Call
        /\ calls[p].pc = "count" /\ calls[p].fd \in Fd
        /\ io_devices \in [Processes -> Seq(Fd)]
    BY Parts DEF InheritCount, At, TypeInv
  <1>2. PICK q \in Processes, k \in 1..MaxHandles :
          /\ q = calls[p].child /\ k = calls[p].handle
          /\ calls[p].back = "start" /\ alive[p] = "running" /\ alive[q] = "starting"
          /\ Len(io_devices[q]) = StdHandles /\ k \in 1..StdHandles
          /\ \A h \in k..StdHandles : io_devices[q][h] = Invalid
    <2>1. calls[p].back = "start" /\ alive[p] = "running" BY <1>1 DEF CallInv, BackOf
    <2>2. /\ alive[calls[p].child] = "starting"
          /\ Len(io_devices[calls[p].child]) = StdHandles
          /\ calls[p].handle \in 1..StdHandles
          /\ \A h \in calls[p].handle..StdHandles : io_devices[calls[p].child][h] = Invalid
      BY <1>1, <2>1 DEF ChildInv
    <2>3. calls[p].child \in Processes /\ calls[p].handle \in 1..MaxHandles
      BY <2>2, Parts, Ranges
    <2> QED BY <2>1, <2>2, <2>3
  <1> DEFINE d == [calls[p] EXCEPT
                      !.pc = IF k < StdHandles THEN "inherit" ELSE "record",
                      !.handle = IF k < StdHandles THEN k + 1 ELSE k,
                      !.fd = Invalid, !.seen = Unseen]
  <1>3. /\ Loaded(p) \/ ~CountsNow(p)
        /\ files' = IF Loaded(p)
                    THEN [files EXCEPT ![calls[p].fd].openCounter = calls[p].seen + 1]
                    ELSE files
        /\ io_devices' = [io_devices EXCEPT ![q] = [io_devices[q] EXCEPT ![k] = calls[p].fd]]
        /\ calls' = [calls EXCEPT ![p] = d]
        /\ UNCHANGED <<connections, pipes, alive, lost>>
    BY <1>2 DEF InheritCount
  <1>4. /\ d.pc = (IF k < StdHandles THEN "inherit" ELSE "record") /\ d.fd = Invalid
        /\ d.out = calls[p].out /\ d.back = calls[p].back /\ d.child = q /\ d.seen = Unseen
        /\ d.handle = (IF k < StdHandles THEN k + 1 ELSE k)
    BY <1>1, <1>2 DEF Call
  <1>5. d \in Call
    <2>1. (IF k < StdHandles THEN k + 1 ELSE k) \in 0..MaxHandles BY <1>2, Ranges
    <2>2. (IF k < StdHandles THEN "inherit" ELSE "record") \in Labels BY DEF Labels
    <2> QED BY <1>1, <2>1, <2>2 DEF Call, Fd
  <1> HIDE DEF d
  <1>6. Sets(p, d) BY <1>3, <1>5 DEF Sets
  <1>7. calls'[p] = d BY <1>1, <1>6, SetsOne
  <1>8. io_devices[q] \in Seq(Fd) /\ k \in DOMAIN io_devices[q] BY <1>1, <1>2
  <1>9. /\ io_devices'[p] = io_devices[p]
        /\ Len(io_devices'[q]) = StdHandles
        /\ \A h \in (k + 1)..StdHandles : io_devices'[q][h] = Invalid
    <2>1. p # q BY <1>2
    <2>2. Len([io_devices[q] EXCEPT ![k] = calls[p].fd]) = Len(io_devices[q])
      BY <1>1, <1>8, SeqEdit
    <2>3. ASSUME NEW h \in (k + 1)..StdHandles PROVE io_devices'[q][h] = Invalid
      <3>1. h \in k..StdHandles /\ h # k /\ h \in 1..StdHandles BY <1>2, Ranges
      <3>2. h \in DOMAIN io_devices[q] BY <1>2, <1>8, <3>1
      <3> QED BY <1>1, <1>2, <1>3, <3>1, <3>2
    <2> QED BY <1>1, <1>2, <1>3, <2>1, <2>2, <2>3
  <1>10. Wanted(d) = 0 /\ Wanted(calls[p]) = 0 BY <1>1, <1>2, <1>4 DEF Wanted
  <1>11. d.pc \in {"inherit", "record"} /\ d.back \in BackOf(d.pc) BY <1>2, <1>4 DEF BackOf
  <1>12. CallInv(p)' BY <1>1, <1>2, <1>3, <1>4, <1>7, <1>9, <1>10, <1>11 DEF CallInv
  <1>13. ChildInv(p)'
    <2>1. d.pc = "inherit" => /\ d.handle \in 1..StdHandles /\ d.handle = k + 1
      BY <1>2, <1>4, Ranges
    <2> QED BY <1>2, <1>3, <1>4, <1>7, <1>9, <1>11, <2>1 DEF ChildInv
  <1>14. CASE Loaded(p)
    <2>1. CountsNow(p) BY <1>1, <1>14 DEF SeenInv
    <2>2. PICK f \in Fds : f = calls[p].fd BY <1>1, <2>1 DEF CountsNow, Fd
    <2> QED BY <1>1, <1>2, <1>3, <1>4, <1>6, <1>11, <1>12, <1>13, <1>14, <2>2, CountUpStep DEF At
  <1>15. CASE ~Loaded(p)
    <2>1. calls[p].fd = Invalid
      <3>1. SUFFICES ASSUME calls[p].fd # Invalid PROVE FALSE OBVIOUS
      <3>2. calls[p].fd \in Fds BY <1>1, <3>1 DEF Fd
      <3>3. PICK h \in DOMAIN io_devices[p] : io_devices[p][h] = calls[p].fd
        BY <1>1, <3>1 DEF CallInv
      <3>4. h \in 1..MaxHandles BY <1>1, HandleRange
      <3>5. \A r \in Processes : ChildInv(r) BY Parts
      <3>6. Held(p, h) = calls[p].fd BY <1>1, <1>2, <3>3, <3>5, RunningHolds
      <3>7. HeldBySome(calls[p].fd) BY <3>4, <3>6 DEF HeldBySome
      <3> QED BY <1>1, <1>3, <1>15, <3>1, <3>2, <3>7, HeldResolves DEF CountsNow
    <2>2. [io_devices[q] EXCEPT ![k] = Invalid] = io_devices[q]
      <3>1. io_devices[q][k] = Invalid BY <1>2, Ranges
      <3> QED BY <1>8, <3>1, SeqSame
    <2>3. io_devices' = io_devices BY <1>1, <1>3, <2>1, <2>2
    <2>4. HeldSame
      <3>1. \A r, h : DroppedBy(p, r, h)' <=> DroppedBy(p, r, h)
        BY <1>2, <1>4, <1>7 DEF DroppedBy
      <3>2. CallsAlone(p) BY <1>1, <1>6, SetsOne DEF CallsAlone
      <3> QED BY <2>3, <3>1, <3>2, HeldStay
    <2>5. Plain(calls[p]) /\ Plain(d) BY <1>1, <1>11 DEF Plain
    <2> QED BY <1>2, <1>3, <1>4, <1>6, <1>12, <1>13, <1>15, <2>3, <2>4, <2>5, PlainStep
  <1> QED BY <1>14, <1>15

\* A program that does not exist leaves what its process has inherited.
LEMMA UnknownProgramKeeps ==
  ASSUME Core, NEW p \in Processes, UnknownProgram(p)
  PROVE  Core'
  <1>1. /\ TypeInv /\ CallInv(p) /\ ChildInv(p) /\ calls[p] \in Call /\ FilesInv /\ UsersInv
        /\ RecordInv /\ calls[p].pc = "record" /\ io_devices \in [Processes -> Seq(Fd)]
        /\ \A r \in Processes : CallInv(r)
    BY Parts DEF UnknownProgram, At, TypeInv
  <1>2. PICK q \in Processes : /\ q = calls[p].child /\ calls[p].back = "start"
                               /\ alive[p] = "running" /\ alive[q] = "starting"
    <2>1. calls[p].back = "start" /\ alive[p] = "running" BY <1>1 DEF CallInv, BackOf
    <2>2. alive[calls[p].child] = "starting" /\ calls[p].child \in Processes
      BY <1>1, <2>1, Parts DEF ChildInv
    <2> QED BY <2>1, <2>2
  <1> DEFINE inherited == {io_devices[q][h] : h \in DOMAIN io_devices[q]} \ {Invalid}
  <1>3. /\ lost \cap inherited = {} /\ lost' = lost \cup inherited
        /\ alive' = [alive EXCEPT ![q] = "none"]
        /\ io_devices' = [io_devices EXCEPT ![q] = <<>>]
        /\ Return(p) /\ UNCHANGED <<files, connections, pipes>>
    BY <1>2 DEF UnknownProgram
  <1>4. Sets(p, NoCall) /\ calls' \in [Processes -> Call] /\ calls'[p] = NoCall /\ CallsAlone(p)
    BY <1>1, <1>3, ReturnSets, SetsOne DEF CallsAlone
  <1>5. inherited \subseteq Fds
    BY <1>1, HandleRange DEF Fd
  <1>6. ASSUME NEW fd \in inherited
        PROVE  \E h \in 1..MaxHandles : Held(q, h) = fd
    <2>1. PICK h \in DOMAIN io_devices[q] : io_devices[q][h] = fd OBVIOUS
    <2>2. h \in 1..MaxHandles BY <1>1, HandleRange
    <2> QED BY <1>2, <2>1, <2>2, StartingHolds
  <1>7. ASSUME NEW fd \in Fds, fd \notin inherited, NEW h \in 1..MaxHandles
        PROVE  Held(q, h) # fd
    BY <1>7, Ranges DEF Held
  <1> HIDE DEF inherited
  <1>8. /\ io_devices' \in [Processes -> Seq(Fd)] /\ io_devices'[q] = <<>>
        /\ \A r \in Processes : r # q => io_devices'[r] = io_devices[r] /\ alive'[r] = alive[r]
        /\ alive'[q] = "none" /\ p # q
        /\ alive' \in [Processes -> {"none", "starting", "running", "exited", "cleaned"}]
    BY <1>1, <1>2, <1>3 DEF TypeInv
  <1>9. TypeInv' BY <1>1, <1>3, <1>4, <1>5, <1>8 DEF TypeInv
  <1>10. \A r \in Processes : r # p /\ calls[r].back \in {"start", "reap"} =>
            calls[r].child # q /\ calls[r].child \in Processes
    BY <1>2, ChildAlone, Parts
  <1>11. Alone(p)
    <2>1. \A r \in Processes : Len(io_devices[r]) <= MaxHandles BY <1>1, HandleRange, Ranges
    <2>2. \A r \in Processes : Len(io_devices'[r]) <= MaxHandles
      <3>1. Len(<<>>) = 0 OBVIOUS
      <3>2. Len(io_devices'[q]) <= MaxHandles BY <1>8, <3>1, Ranges
      <3> QED BY <1>8, <2>1, <3>2
    <2>3. RecordsAlone(p) BY <1>2, <1>8, <1>10, <2>2 DEF RecordsAlone
    <2>4. LostAlone(p) BY <1>3, <1>6 DEF LostAlone, HeldBySome
    <2> QED BY <1>3, <1>4, <2>3, <2>4 DEF Alone, FilesAlone
  <1>12. \A r \in Processes, h \in 1..MaxHandles : Dropped(r, h)' <=> Dropped(r, h)
    <2>1. \A r, h : DroppedBy(p, r, h)' <=> DroppedBy(p, r, h)
      BY <1>2, <1>4 DEF DroppedBy, NoCall
    <2> QED BY <1>4, <2>1, DroppedStay
  <1>13. \A r \in Processes, h \in 1..MaxHandles :
            Held(r, h)' = IF r = q THEN Invalid ELSE Held(r, h)
    BY <1>8, <1>12 DEF Held
  <1>14. Opened(p)' = {} /\ Opened(p) = {} /\ Works(p)' = {} /\ Works(p) = {}
         /\ Unlinked(NoCall) = {} /\ Unlinked(calls[p]) = {} /\ NoCall.pc = "user"
    BY <1>1, <1>4 DEF Opened, OpenedBy, Works, WorkedAt, NoCall, Reserving, Closing, Unlinked
  <1>15. ASSUME NEW fd \in Fds
         PROVE  /\ Users(fd)' \in Nat
                /\ fd \in inherited => Users(fd) >= Users(fd)' + 1
                /\ fd \notin inherited => Users(fd)' = Users(fd)
    <2>1. Users(fd)' = Cardinality(Handles(fd)') + Cardinality(Openers(fd)') BY DEF Users
    <2>2. Cardinality(Openers(fd)') = Cardinality(Openers(fd))
      BY <1>4, <1>14, OpenersStep
    <2>3. /\ Cardinality(Openers(fd)) \in Nat /\ Cardinality(Handles(fd)) \in Nat
          /\ IsFiniteSet(Handles(fd))
      BY UsersAreFinite
    <2>4. Handles(fd)' = {ph \in Processes \X (1..MaxHandles) :
                             /\ ph[2] \in DOMAIN io_devices'[ph[1]]
                             /\ io_devices'[ph[1]][ph[2]] = fd
                             /\ ~Dropped(ph[1], ph[2])'}
      BY DEF Handles
    <2>5. Handles(fd)' = {ph \in Processes \X (1..MaxHandles) : Held(ph[1], ph[2])' = fd}
      BY <2>4, Ranges DEF Held
    <2>6. Handles(fd)' = {ph \in Handles(fd) : ph[1] # q}
      BY <1>13, <2>5, HandlesAre, Ranges
    <2>7. CASE fd \in inherited
      <3>1. PICK h \in 1..MaxHandles : Held(q, h) = fd BY <1>6, <2>7
      <3>2. <<q, h>> \in Handles(fd) BY <3>1, HandlesAre
      <3>3. Handles(fd)' \subseteq Handles(fd) \ {<<q, h>>} BY <2>6
      <3>4. /\ IsFiniteSet(Handles(fd) \ {<<q, h>>})
            /\ Cardinality(Handles(fd) \ {<<q, h>>}) = Cardinality(Handles(fd)) - 1
        BY <2>3, <3>2, FS_RemoveElement
      <3>5. /\ IsFiniteSet(Handles(fd)')
            /\ Cardinality(Handles(fd)') <= Cardinality(Handles(fd) \ {<<q, h>>})
        BY <3>3, <3>4, FS_Subset
      <3>6. Cardinality(Handles(fd)') \in Nat BY <3>5, FS_CardinalityType
      <3> QED BY <2>1, <2>2, <2>3, <2>7, <3>4, <3>5, <3>6 DEF Users
    <2>8. CASE fd \notin inherited
      <3>1. \A h \in 1..MaxHandles : <<q, h>> \notin Handles(fd)
        BY <1>7, <2>8, HandlesAre
      <3>2. \A ph \in Handles(fd) : ph[1] # q
        <4>1. \A ph \in Processes \X (1..MaxHandles) : ph = <<ph[1], ph[2]>> OBVIOUS
        <4> QED BY <3>1, <4>1 DEF Handles
      <3>3. Handles(fd)' = Handles(fd) BY <2>6, <3>2
      <3>4. Cardinality(Handles(fd)') = Cardinality(Handles(fd)) BY <3>3
      <3> QED BY <2>1, <2>2, <2>3, <2>8, <3>4 DEF Users
    <2> QED BY <2>7, <2>8
  <1>16. UsersInv'
    <2>1. ASSUME NEW fd \in Fds
          PROVE  IF fd \in lost'
                 THEN \/ files'[fd].openCounter >= Users(fd)' + 1
                      \/ files'[fd] = Reserved /\ Users(fd)' = 0
                 ELSE files'[fd].openCounter = Users(fd)'
      <3>1. files[fd].openCounter \in Nat BY <1>1 DEF TypeInv, File
      <3>2. CASE fd \in inherited
        <4>1. fd \notin lost /\ fd \in lost' BY <1>3, <3>2
        <4>2. files[fd].openCounter = Users(fd) BY <1>1, <4>1 DEF UsersInv
        <4> QED BY <1>3, <1>15, <3>2, <4>1, <4>2
      <3>3. CASE fd \notin inherited
        BY <1>1, <1>3, <1>15, <3>3 DEF UsersInv
      <3> QED BY <3>2, <3>3
    <2> QED BY <2>1 DEF UsersInv
  <1>17. Len(io_devices'[p]) <= MaxHandles BY <1>1, <1>8, HandleRange, Ranges
  <1>18. ThreadInv(p)' BY <1>4, <1>9, <1>17, Returned
  <1>19. FilesInv' BY <1>1, <1>3 DEF FilesInv
  <1>20. WorkApart' BY <1>4, <1>9, <1>14, ApartKept
  <1>21. ChildrenApart' BY <1>4, ChildrenStayApart DEF NoCall
  <1>22. RecordInv' BY <1>1, <1>8 DEF RecordInv
  <1>23. LinkedStays(p) BY <1>1, <1>3, <1>4, <1>14 DEF LinkedStays
  <1>24. ConnectionsMatch' BY <1>9, <1>11, <1>23, ConnectionsKept
  <1>25. ~Loaded(p)' BY <1>4 DEF Loaded, NoCall
  <1> QED
    BY <1>9, <1>11, <1>16, <1>18, <1>19, <1>20, <1>21, <1>22, <1>24, <1>25, CoreKept

-----------------------------------------------------------------------------
(* The invariant at the start, and from step to step.                       *)

LEMMA StepKeepsCore ==
  ASSUME Core, NEW p \in Processes, ThreadStep(p),
         "count at the same time" \notin Liberties
  PROVE  Core'
  <1>1. CASE OpenReserve(p) BY <1>1, OpenReserveKeeps
  <1>2. CASE OpenDriver(p) BY <1>2, OpenDriverStep
  <1>3. CASE OpenConnect(p) \/ OpenInstall(p) BY <1>3, OpenConnectKeeps, OpenInstallKeeps
  <1>4. CASE PipeReserveIn(p) \/ PipeReserveOut(p)
    BY <1>4, ReserveNothingKeeps, PipeReserveInKeeps, PipeReserveOutKeeps
  <1>5. CASE PipeScan(p) BY <1>5, PipeScanKeeps, PipeScanFailsKeeps
  <1>6. CASE PipeClaim(p) \/ PipeConnect(p) BY <1>6, PipeClaimKeeps, PipeConnectKeeps
  <1>7. CASE PipeInstallIn(p) \/ PipeInstallOut(p)
    BY <1>7, PipeInstallInKeeps, PipeInstallOutKeeps
  <1>8. CASE \E h \in 0..MaxHandles : CloseHandle(p, h) \/ InheritResolve(p, h) \/ UseHandle(p, h)
    BY <1>8, HandleCallKeeps, InheritResolveKeeps
  <1>9. CASE CloseStep(p)
    BY <1>9, CloseCountKeeps, CloseDisconnectKeeps, CloseEndKeeps, CloseFreePipeKeeps,
       CloseClearKeeps, RemoveHandleKeeps
    DEF CloseStep
  <1>10. CASE LoadCounter(p) BY <1>10, LoadCounterKeeps
  <1>11. CASE \E q \in Processes : CreateProcess(p, q) \/ Clean(p, q)
    BY <1>11, CreateProcessKeeps, CleanKeeps
  <1>12. CASE InheritCount(p) \/ UnknownProgram(p)
    BY <1>12, InheritCountKeeps, UnknownProgramKeeps
  <1>13. CASE AddToProcFS(p)
    BY <1>13, AddToProcFSKeeps, AddNothingKeeps
  <1>14. CASE StartProcess(p) \/ Exit(p) BY <1>14, StartProcessKeeps, ExitKeeps
  <1>15. CASE CleanNext(p) BY <1>15, CleanHandleKeeps, CleanEndKeeps
  <1>16. CASE EnterPipe(p) \/ LeavePipe(p) BY <1>16, EnterPipeKeeps
  <1> QED
    BY <1>1, <1>2, <1>3, <1>4, <1>5, <1>6, <1>7, <1>8, <1>9, <1>10, <1>11, <1>12, <1>13,
       <1>14, <1>15, <1>16
    DEF ThreadStep

LEMMA InitCore ==
  ASSUME Init
  PROVE  Core
  <1>1. /\ files = [fd \in Fds |->
                  IF fd < StdHandles
                  THEN [Idle EXCEPT !.status = "reserved", !.openCounter = 1]
                  ELSE Idle]
        /\ connections = [sb \in FsTypes |-> IF sb = "file" THEN StdHandles ELSE 0]
        /\ pipes = [i \in Slots |-> NoPipe]
        /\ io_devices = [p \in Processes |->
                       IF p = init THEN [h \in 1..StdHandles |-> h - 1] ELSE <<>>]
        /\ alive = [p \in Processes |-> IF p = init THEN "running" ELSE "none"]
        /\ calls = [p \in Processes |-> NoCall] /\ lost = {}
    BY DEF Init, Slots
  <1> DEFINE std == [h \in 1..StdHandles |-> h - 1]
             open == [Idle EXCEPT !.status = "reserved", !.openCounter = 1]
  <1>2. /\ open \in File /\ open.status = "reserved" /\ open.openCounter = 1
        /\ open.sb = "file"
    <2>1. Idle \in File BY IdleIsFile
    <2>2. "reserved" \in Status BY DEF Status
    <2>3. open \in File BY <2>1, <2>2 DEF File
    <2> QED BY <2>1, <2>3 DEF Idle, File
  <1>3. /\ std \in Seq(Fd) /\ Len(std) = StdHandles /\ DOMAIN std = 1..StdHandles
        /\ \A h \in 1..StdHandles : std[h] = h - 1 /\ h - 1 \in Fds
    <2>1. \A h \in 1..StdHandles : h - 1 \in Fds BY DescriptorsAssumption DEF Fds
    <2>2. std \in [1..StdHandles -> Fd] BY <2>1 DEF Fd
    <2> QED BY <2>1, <2>2, Ranges
  <1> HIDE DEF std, open
  <1>4. /\ \A fd \in Fds : files[fd] = IF fd < StdHandles THEN open ELSE Idle
        /\ io_devices[init] = std /\ \A p \in Processes : p # init => io_devices[p] = <<>>
        /\ io_devices \in [Processes -> Seq(Fd)]
    <2>1. \A fd \in Fds : files[fd] = IF fd < StdHandles THEN open ELSE Idle
      BY <1>1 DEF open
    <2>2. io_devices = [p \in Processes |-> IF p = init THEN std ELSE <<>>]
      BY <1>1 DEF std
    <2>3. <<>> \in Seq(Fd) OBVIOUS
    <2> QED BY <1>3, <2>1, <2>2, <2>3, Ranges
  <1>5. TypeInv
    <2>1. files \in [Fds -> File] BY <1>1, <1>2, IdleIsFile DEF open
    <2> QED BY <1>1, <1>4, <2>1, NoCallIsCall, Ranges DEF TypeInv, FsTypes
  <1>6. ASSUME NEW p \in Processes PROVE ThreadInv(p) /\ Opened(p) = {} /\ Works(p) = {}
    <2>1. calls[p] = NoCall BY <1>1
    <2>2. Opened(p) = {} /\ Works(p) = {}
      BY <2>1 DEF Opened, OpenedBy, Works, WorkedAt, NoCall, Reserving, Closing
    <2>3. Len(io_devices[p]) + 0 <= MaxHandles
      <3>1. Len(<<>>) = 0 OBVIOUS
      <3> QED BY <1>3, <1>4, <3>1, Ranges
    <2>4. CallInv(p) BY <2>1, <2>3 DEF CallInv, NoCall, BackOf, Wanted
    <2>5. ChildInv(p) BY <2>1 DEF ChildInv, NoCall
    <2>6. WorkOf(p) BY <2>1, <2>2 DEF WorkOf, NoCall, Closing, Reserving
    <2>7. OpenOf(p) BY <2>1, <2>2 DEF OpenOf, NoCall
    <2> QED BY <2>2, <2>4, <2>5, <2>6, <2>7 DEF ThreadInv
  <1>7. ChildrenApart BY <1>1 DEF ChildrenApart, NoCall
  <1>8. RecordInv BY <1>1, <1>3, <1>4, Ranges DEF RecordInv
  <1>9. FilesInv BY <1>2, <1>4 DEF FilesInv, Idle, Ends
  <1>10. WorkApart BY <1>6 DEF WorkApart
  <1>11. \A r \in Processes, h \in 1..MaxHandles :
            Held(r, h) = IF r = init /\ h \in 1..StdHandles THEN h - 1 ELSE Invalid
    <2>1. \A r, h : ~Dropped(r, h) BY <1>1 DEF Dropped, NoCall
    <2> QED BY <1>3, <1>4, <2>1 DEF Held
  <1>12. ASSUME NEW fd \in Fds PROVE files[fd].openCounter = Users(fd)
    <2>1. Openers(fd) = {} BY <1>6, OpenersAre
    <2>2. fd \in Nat BY Ranges
    <2>3. CASE fd < StdHandles
      <3>1. fd + 1 \in 1..StdHandles /\ fd + 1 \in 1..MaxHandles BY <2>2, <2>3, Ranges
      <3>2. \A h \in 1..StdHandles : h - 1 = fd <=> h = fd + 1 BY <2>2
      <3>3. \A r \in Processes, h \in 1..MaxHandles :
               Held(r, h) = fd <=> r = init /\ h = fd + 1
        BY <1>11, <3>1, <3>2, Ranges
      <3>4. Handles(fd) = {<<init, fd + 1>>} BY <3>1, <3>3, HandlesAre, Ranges
      <3>5. Cardinality(Handles(fd)) = 1 BY <3>4, OneOf
      <3>6. Cardinality(Openers(fd)) = 0 BY <2>1, NoneMeansZero
      <3> QED BY <1>2, <1>4, <2>3, <3>5, <3>6 DEF Users
    <2>4. CASE ~(fd < StdHandles)
      <3>1. \A h \in 1..StdHandles : h - 1 # fd BY <2>2, <2>4, Ranges
      <3>2. \A r \in Processes, h \in 1..MaxHandles : Held(r, h) # fd
        BY <1>11, <3>1, Ranges
      <3>3. Handles(fd) = {} BY <3>2, HandlesAre
      <3>4. Cardinality(Handles(fd)) = 0 /\ Cardinality(Openers(fd)) = 0
        BY <2>1, <3>3, NoneMeansZero
      <3>5. files[fd].openCounter = 0 BY <1>4, <2>4 DEF Idle
      <3> QED BY <3>4, <3>5 DEF Users
    <2> QED BY <2>3, <2>4
  <1>13. UsersInv BY <1>1, <1>12 DEF UsersInv
  <1>14. ASSUME NEW sb \in FsTypes
         PROVE  connections[sb] = Cardinality(Linked(sb)) + Cardinality(Leaving(sb))
    <2>1. Leaving(sb) = {} /\ \A p \in Processes : Unlinked(calls[p]) = {}
      BY <1>1 DEF Leaving, Unlinked, NoCall
    <2>2. Cardinality(Leaving(sb)) = 0 BY <2>1, NoneMeansZero
    <2>3. CASE sb = "file"
      <3>1. \A fd \in Fds : fd \in Linked(sb) <=> fd < StdHandles
        <4>1. Idle.openCounter = 0 BY DEF Idle
        <4>2. ~(0 >= 1) /\ 1 >= 1 OBVIOUS
        <4> QED BY <1>2, <1>4, <2>1, <2>3, <4>1, <4>2 DEF Linked
      <3>2. Linked(sb) = 0..(StdHandles - 1)
        BY <3>1, DescriptorsAssumption DEF Linked, Fds
      <3>3. Cardinality(0..(StdHandles - 1)) = StdHandles BY Ranges, FS_Interval
      <3>4. Cardinality(Linked(sb)) = StdHandles BY <3>2, <3>3
      <3> QED BY <1>1, <2>2, <2>3, <3>4, Ranges
    <2>4. CASE sb = "pipe"
      <3>1. Linked(sb) = {} BY <1>2, <1>4, <2>4 DEF Linked, Idle
      <3>2. Cardinality(Linked(sb)) = 0 BY <3>1, NoneMeansZero
      <3> QED BY <1>1, <2>2, <2>4, <3>2
    <2> QED BY <2>3, <2>4 DEF FsTypes
  <1>15. ConnectionsMatch BY <1>14, ConnectionsAre DEF ConnectionsCounted
  <1>16. SeenInv BY <1>1 DEF SeenInv, Loaded, NoCall
  <1> QED BY <1>5, <1>6, <1>7, <1>8, <1>9, <1>10, <1>13, <1>15, <1>16 DEF Core

LEMMA StutterKeepsCore ==
  ASSUME Core, UNCHANGED vars
  PROVE  Core'
  <1>1. /\ files' = files /\ connections' = connections /\ pipes' = pipes
        /\ io_devices' = io_devices /\ alive' = alive /\ calls' = calls /\ lost' = lost
    BY DEF vars
  <1>2. TypeInv' /\ ChildrenApart' /\ RecordInv' /\ FilesInv'
    BY <1>1 DEF Core, TypeInv, ChildrenApart, RecordInv, FilesInv
  <1>3. ASSUME NEW p \in Processes PROVE ThreadInv(p)'
    <2>1. CallInv(p) /\ ChildInv(p) /\ WorkOf(p) /\ OpenOf(p) BY DEF Core, ThreadInv
    <2>2. CallInv(p)' BY <1>1, <2>1 DEF CallInv
    <2>3. ChildInv(p)' BY <1>1, <2>1 DEF ChildInv
    <2>4. Works(p)' = Works(p) /\ Opened(p)' = Opened(p) BY <1>1 DEF Works, Opened
    <2>5. WorkOf(p)' BY <1>1, <2>1, <2>4 DEF WorkOf
    <2>6. OpenOf(p)' BY <1>1, <2>1, <2>4 DEF OpenOf
    <2> QED BY <2>2, <2>3, <2>5, <2>6 DEF ThreadInv
  <1>4. WorkApart' BY <1>1 DEF Core, WorkApart, Works
  <1>5. UsersInv' BY <1>1 DEF Core, UsersInv, Users, Handles, Openers, Dropped, At
  <1>6. ConnectionsMatch' BY <1>1 DEF Core, ConnectionsMatch, At
  <1>7. SeenInv' BY <1>1 DEF Core, SeenInv, Loaded, CountsNow, Counter, Resolves
  <1> QED BY <1>2, <1>3, <1>4, <1>5, <1>6, <1>7 DEF Core

-----------------------------------------------------------------------------
(* What a step does to the descriptors that are in use, whatever else.      *)

Touches(p) ==
    \A fd \in Fds :
        \/ files'[fd] = files[fd]
        \/ files[fd].status = "idle" \/ fd \in Works(p)
        \/ /\ files[fd].openCounter >= 1
           /\ files'[fd].status = files[fd].status /\ files'[fd].sb = files[fd].sb
           /\ files'[fd].inode = files[fd].inode

LEMMA ReserveTouches ==
  ASSUME Core, NEW p \in Processes, NEW from \in Nat, NEW f, f = getFreeDescriptorIndex(from),
         files' = files \/ files' = [files EXCEPT ![f].status = "reserved"]
  PROVE  Touches(p)
  <1>1. f = Invalid \/ (f \in Fds /\ files[f].status = "idle") BY FreeDescriptor
  <1>2. files \in [Fds -> File] BY DEF Core, TypeInv
  <1>3. \A fd \in Fds : fd # f => files'[fd] = files[fd] BY <1>2
  <1> QED BY <1>1, <1>3, Ranges DEF Touches

LEMMA OneWorkTouches ==
  ASSUME Core, NEW p \in Processes, calls[p].fd \in Works(p),
         \A fd \in Fds : fd # calls[p].fd => files'[fd] = files[fd]
  PROVE  Touches(p)
  BY DEF Touches

LEMMA StepTouches ==
  ASSUME Core, NEW p \in Processes, ThreadStep(p)
  PROVE  Touches(p)
  <1>1. /\ TypeInv /\ WorkOf(p) /\ CallInv(p) /\ SeenInv /\ calls[p] \in Call
        /\ files \in [Fds -> File] /\ calls[p].fd \in Fd
    BY Parts DEF TypeInv
  <1>2. files' = files => Touches(p) BY DEF Touches
  <1>3. 0 \in Nat /\ calls[p].fd + 1 \in Nat BY <1>1, Ranges DEF Fd, Invalid, Fds
  <1>4. CASE OpenReserve(p) BY <1>3, <1>4, ReserveTouches DEF OpenReserve
  <1>5. CASE OpenDriver(p)
    <2>1. calls[p].fd \in Works(p)
      BY <1>1, <1>5 DEF OpenDriver, At, WorkOf, Works, WorkedAt, Reserving
    <2>2. \A fd \in Fds : fd # calls[p].fd => files'[fd] = files[fd]
      BY <1>1, <1>5 DEF OpenDriver
    <2> QED BY <2>1, <2>2, OneWorkTouches
  <1>6. CASE PipeReserveIn(p) BY <1>3, <1>6, ReserveTouches DEF PipeReserveIn
  <1>7. CASE PipeReserveOut(p) BY <1>3, <1>7, ReserveTouches DEF PipeReserveOut
  <1>8. CASE PipeClaim(p) BY <1>8, PipeClaimFiles DEF Touches
  <1>9. CASE CloseCount(p) \/ InheritCount(p)
    <2>1. CASE ~Loaded(p) BY <1>2, <1>9, <2>1 DEF CloseCount, InheritCount
    <2>2. CASE Loaded(p)
      <3>1. CountsNow(p) /\ calls[p].seen = Counter(p) BY <1>1, <2>2 DEF SeenInv
      <3>2. calls[p].fd \in Fds /\ files[calls[p].fd].openCounter >= 1
        BY <1>1, <1>9, <3>1 DEF CloseCount, InheritCount, At, CountsNow, Resolves, Fd
      <3>3. PICK n : files' = [files EXCEPT ![calls[p].fd].openCounter = n]
        BY <1>9, <2>2 DEF CloseCount, InheritCount
      <3>4. /\ \A fd \in Fds : fd # calls[p].fd => files'[fd] = files[fd]
            /\ files'[calls[p].fd] = [files[calls[p].fd] EXCEPT !.openCounter = n]
        BY <1>1, <3>2, <3>3
      <3>5. files[calls[p].fd] \in File BY <1>1, <3>2
      <3>6. /\ files'[calls[p].fd].status = files[calls[p].fd].status
            /\ files'[calls[p].fd].sb = files[calls[p].fd].sb
            /\ files'[calls[p].fd].inode = files[calls[p].fd].inode
        BY <3>4, <3>5 DEF File
      <3> QED BY <3>2, <3>4, <3>6 DEF Touches
    <2> QED BY <2>1, <2>2
  <1>10. CASE CloseClear(p)
    <2>1. calls[p].fd \in Works(p)
      BY <1>1, <1>10 DEF CloseClear, At, WorkOf, Works, WorkedAt, Closing
    <2>2. \A fd \in Fds : fd # calls[p].fd => files'[fd] = files[fd]
      BY <1>1, <1>10 DEF CloseClear
    <2> QED BY <2>1, <2>2, OneWorkTouches
  <1>11. CASE AddToProcFS(p) BY <1>3, <1>11, ReserveTouches DEF AddToProcFS
  <1>12. CASE OpenConnect(p) \/ OpenInstall(p) \/ PipeScan(p) \/ PipeConnect(p)
                \/ PipeInstallIn(p) \/ PipeInstallOut(p)
    BY <1>2, <1>12
    DEF OpenConnect, OpenInstall, PipeScan, PipeConnect, PipeInstallIn, PipeInstallOut
  <1>13. CASE \E h \in 0..MaxHandles : CloseHandle(p, h) \/ InheritResolve(p, h) \/ UseHandle(p, h)
    <2>1. PICK h : CloseHandle(p, h) \/ InheritResolve(p, h) \/ UseHandle(p, h) BY <1>13
    <2>2. files' = files
      <3>1. CASE CloseHandle(p, h) BY <3>1 DEF CloseHandle
      <3>2. CASE InheritResolve(p, h) BY <3>2 DEF InheritResolve
      <3>3. CASE UseHandle(p, h) BY <3>3 DEF UseHandle
      <3> QED BY <2>1, <3>1, <3>2, <3>3
    <2> QED BY <1>2, <2>2
  <1>14. CASE CloseDisconnect(p) \/ CloseEnd(p) \/ CloseFreePipe(p) \/ RemoveHandle(p)
                \/ LoadCounter(p)
    BY <1>2, <1>14 DEF CloseDisconnect, CloseEnd, CloseFreePipe, RemoveHandle, LoadCounter
  <1>15. CASE \E q \in Processes : CreateProcess(p, q) \/ Clean(p, q)
    BY <1>2, <1>15 DEF CreateProcess, Clean
  <1>16. CASE UnknownProgram(p) \/ StartProcess(p) \/ Exit(p) \/ CleanNext(p)
                \/ EnterPipe(p) \/ LeavePipe(p)
    BY <1>2, <1>16 DEF UnknownProgram, StartProcess, Exit, CleanNext, EnterPipe, LeavePipe
  <1> QED
    BY <1>4, <1>5, <1>6, <1>7, <1>8, <1>9, <1>10, <1>11, <1>12, <1>13, <1>14, <1>15, <1>16
    DEF ThreadStep, CloseStep

\* An open descriptor is neither idle nor worked at.
LEMMA OpenKept ==
  ASSUME Core, NEW p \in Processes, Touches(p), NEW fd \in Fds, files[fd].openCounter >= 1
  PROVE  /\ files'[fd].sb = files[fd].sb /\ files'[fd].inode = files[fd].inode
         /\ files'[fd].status = files[fd].status
  <1>1. FilesInv /\ WorkOf(p) BY Parts
  <1>2. files[fd].status # "idle" /\ fd \notin Works(p) BY <1>1 DEF FilesInv, Idle, WorkOf
  <1> QED BY <1>2 DEF Touches

-----------------------------------------------------------------------------
(* The theorems. Two threads that count at the same time lose a count; the  *)
(* other liberties do no harm to what these state.                          *)

CountsAlone == "count at the same time" \notin Liberties

LEMMA CoreHolds ==
  ASSUME CountsAlone
  PROVE  Spec => []Core
  <1>1. Init => Core BY InitCore
  <1>2. ASSUME Core, [Next]_vars PROVE Core'
    <2>1. CASE Next BY <1>2, <2>1, StepKeepsCore DEF Next, CountsAlone
    <2>2. CASE UNCHANGED vars BY <1>2, <2>2, StutterKeepsCore
    <2> QED BY <1>2, <2>1, <2>2
  <1> QED BY <1>1, <1>2, PTL DEF Spec

(* The counter of a descriptor is the number of handles, in all the         *)
(* processes, that lead to it, and the connections of a superblock are its  *)
(* open descriptors (VFS.cpp openFile, close, increaseFDescOpenCounter).    *)
THEOREM CountersAreRight ==
  ASSUME CountsAlone
  PROVE  Spec => []CountersMatch
  <1>1. Core => CountersMatch
    <2> SUFFICES ASSUME Core PROVE CountersMatch OBVIOUS
    <2>1. ConnectionsMatch /\ UsersInv /\ TypeInv BY DEF Core
    <2>2. ASSUME NEW fd \in Fds
          PROVE  IF fd \in lost THEN files[fd].openCounter >= Users(fd)
                 ELSE files[fd].openCounter = Users(fd)
      <3>1. files[fd].openCounter \in Nat /\ Users(fd) \in Nat
        BY <2>1, UsersAreFinite DEF TypeInv, File
      <3> QED BY <2>1, <3>1 DEF UsersInv
    <2>3. OpeningsMatch BY <2>2 DEF OpeningsMatch, Users
    <2> QED BY <2>1, <2>3 DEF CountersMatch
  <1> QED BY <1>1, CoreHolds, PTL

(* Counters do not go below 0, no process gets more handles than there is   *)
(* room for, and a descriptor that can be taken is all zeros.               *)
THEOREM DescriptorsTypeCorrect ==
  ASSUME CountsAlone
  PROVE  Spec => []TypeOK
  <1>1. Core => TypeOK
    <2> SUFFICES ASSUME Core PROVE TypeOK OBVIOUS
    <2>1. TypeInv /\ FilesInv /\ \A p \in Processes : CallInv(p) BY DEF Core, ThreadInv
    <2>2. DOMAIN pipes = Slots BY <2>1 DEF TypeInv
    <2>3. files \in [Fds -> [status : Status, openCounter : Nat, sb : FsTypes,
                             inode : DOMAIN pipes]]
      BY <2>1, <2>2 DEF TypeInv, File
    <2>4. ASSUME NEW p \in Processes
          PROVE  /\ Len(io_devices[p]) <= MaxHandles
                 /\ \A h \in DOMAIN io_devices[p] : io_devices[p][h] \in Fds \cup {Invalid}
                 /\ calls[p].pc \in Labels
      <3>1. calls[p].pc \in Labels BY <2>1 DEF TypeInv, Call
      <3> QED BY <2>1, <3>1, HandleRange, Ranges DEF Fd
    <2> QED BY <2>1, <2>3, <2>4 DEF TypeOK, TypeInv, FilesInv, Slots
  <1> QED BY <1>1, CoreHolds, PTL

(* As long as a process has a handle, its descriptor is not given to        *)
(* another file or pipe (VFS.cpp close, getFreeDescriptorIndex).            *)
THEOREM HandlesAreStable ==
  ASSUME CountsAlone
  PROVE  Spec => HandlesStable
  <1> DEFINE Kept == \A p \in Processes, h \in 1..MaxHandles :
          /\ h \in DOMAIN io_devices[p] /\ h \in DOMAIN io_devices'[p]
          /\ io_devices[p][h] # Invalid /\ io_devices[p][h] = io_devices'[p][h]
          /\ ~Dropped(p, h) /\ ~Dropped(p, h)'
          => /\ files[io_devices[p][h]].sb = files'[io_devices[p][h]].sb
             /\ files[io_devices[p][h]].inode = files'[io_devices[p][h]].inode
             /\ files[io_devices[p][h]].status = files'[io_devices[p][h]].status
  <1>1. ASSUME Core, [Next]_vars PROVE [Kept]_vars
    <2>1. CASE Next
      <3>1. PICK t \in Processes : ThreadStep(t) BY <2>1 DEF Next
      <3>2. Touches(t) BY <1>1, <3>1, StepTouches
      <3>3. ASSUME NEW p \in Processes, NEW h \in 1..MaxHandles,
                   h \in DOMAIN io_devices[p], io_devices[p][h] # Invalid, ~Dropped(p, h)
            PROVE  /\ files[io_devices[p][h]].sb = files'[io_devices[p][h]].sb
                   /\ files[io_devices[p][h]].inode = files'[io_devices[p][h]].inode
                   /\ files[io_devices[p][h]].status = files'[io_devices[p][h]].status
        <4>1. TypeInv /\ UsersInv /\ CallInv(p) BY <1>1, Parts
        <4>2. PICK fd \in Fds : fd = io_devices[p][h]
          BY <3>3, <4>1, HandleRange DEF Fd
        <4>3. Held(p, h) = fd BY <3>3, <4>2 DEF Held
        <4>4. files[fd].openCounter >= 1 BY <4>1, <4>3, HeldOpen
        <4> QED BY <1>1, <3>2, <4>2, <4>4, OpenKept
      <3> QED BY <3>3
    <2>2. CASE UNCHANGED vars BY <2>2
    <2> QED BY <1>1, <2>1, <2>2
  <1>2. Spec => []Core BY CoreHolds
  <1> QED BY <1>1, <1>2, PTL DEF Spec, HandlesStable

-----------------------------------------------------------------------------
(* The pipes. A descriptor is on its pipe until its close has reached the   *)
(* end of the pipe.                                                         *)

Parting(c) == IF c.pc \in {"disconnect", "cleanup"} THEN {c.fd} ELSE {}

Active(fd) ==
    /\ files[fd].status \in Ends
    /\ files[fd].openCounter >= 1 \/ \E p \in Processes : fd \in Parting(calls[p])

LEMMA OnEndIs ==
  ASSUME NEW end \in Ends, NEW i
  PROVE  OnEnd(end, i) =
           {fd \in Fds : files[fd].status = end /\ files[fd].inode = i /\ Active(fd)}
  BY DEF OnEnd, Active, Parting

LEMMA OnEndIsNext ==
  ASSUME NEW end \in Ends, NEW i
  PROVE  OnEnd(end, i)' =
           {fd \in Fds : files'[fd].status = end /\ files'[fd].inode = i /\ Active(fd)'}
  BY DEF OnEnd, Active, Parting

LEMMA StepCallsAlone ==
  ASSUME TypeInv, NEW p \in Processes, ThreadStep(p)
  PROVE  CallsAlone(p)
  <1>1. calls \in [Processes -> Call] BY DEF TypeInv
  <1>3. /\ (\A pc : Goto(p, pc) => CallsAlone(p)) /\ (Return(p) => CallsAlone(p))
        /\ (AfterClose(p) => CallsAlone(p))
    BY <1>1 DEF Goto, Return, AfterClose, CallsAlone
  <1>4. CASE OpenReserve(p) \/ OpenDriver(p) \/ OpenConnect(p) \/ OpenInstall(p)
    BY <1>1, <1>3, <1>4 DEF OpenReserve, OpenDriver, OpenConnect, OpenInstall, CallsAlone
  <1>5. CASE PipeReserveIn(p) \/ PipeReserveOut(p) \/ PipeScan(p)
    BY <1>1, <1>3, <1>5 DEF PipeReserveIn, PipeReserveOut, PipeScan, CallsAlone
  <1>6. CASE PipeClaim(p) \/ PipeConnect(p) \/ PipeInstallIn(p) \/ PipeInstallOut(p)
    BY <1>3, <1>6 DEF PipeClaim, PipeConnect, PipeInstallIn, PipeInstallOut
  <1>7. CASE \E h \in 0..MaxHandles : CloseHandle(p, h) \/ InheritResolve(p, h) \/ UseHandle(p, h)
    <2>1. PICK h : CloseHandle(p, h) \/ InheritResolve(p, h) \/ UseHandle(p, h) BY <1>7
    <2>2. CASE CloseHandle(p, h) BY <1>1, <2>2 DEF CloseHandle, CallsAlone
    <2>3. CASE InheritResolve(p, h) BY <1>1, <2>3 DEF InheritResolve, CallsAlone
    <2>4. CASE UseHandle(p, h) BY <1>1, <2>4 DEF UseHandle, CallsAlone
    <2> QED BY <2>1, <2>2, <2>3, <2>4
  <1>8. CASE CloseStep(p)
    BY <1>3, <1>8 DEF CloseStep, CloseCount, CloseDisconnect, CloseEnd, CloseFreePipe,
                      CloseClear, RemoveHandle
  <1>9. CASE LoadCounter(p) \/ InheritCount(p) \/ AddToProcFS(p)
    BY <1>1, <1>3, <1>9 DEF LoadCounter, InheritCount, AddToProcFS, CallsAlone
  <1>10. CASE \E q \in Processes : CreateProcess(p, q) \/ Clean(p, q)
    BY <1>1, <1>10 DEF CreateProcess, Clean, CallsAlone
  <1>11. CASE UnknownProgram(p) \/ StartProcess(p) \/ Exit(p) \/ CleanNext(p)
                \/ EnterPipe(p) \/ LeavePipe(p)
    BY <1>1, <1>3, <1>11
    DEF UnknownProgram, StartProcess, Exit, CleanNext, EnterPipe, LeavePipe, CallsAlone
  <1> QED
    BY <1>4, <1>5, <1>6, <1>7, <1>8, <1>9, <1>10, <1>11 DEF ThreadStep

\* What is neither idle nor open stays worked at, or is lost.
LEMMA RestKept ==
  ASSUME RestInv, NEW p \in Processes, CallsAlone(p), lost \subseteq lost',
         \A fd \in Fds : files'[fd].status # "idle" /\ files'[fd].openCounter = 0 =>
             \/ fd \in lost' \/ fd \in Works(p)'
             \/ files'[fd] = files[fd] /\ fd \notin Works(p)
  PROVE  RestInv'
  <1> SUFFICES ASSUME NEW fd \in Fds, files'[fd].status # "idle", files'[fd].openCounter = 0,
                      fd \notin lost'
               PROVE  \E q \in Processes : fd \in Works(q)'
    BY DEF RestInv
  <1>1. CASE fd \in Works(p)' BY <1>1
  <1>2. CASE files'[fd] = files[fd] /\ fd \notin Works(p)
    <2>1. PICK q \in Processes : fd \in Works(q) BY <1>2 DEF RestInv
    <2>2. q # p BY <1>2, <2>1
    <2>3. fd \in Works(q)' BY <2>1, <2>2 DEF CallsAlone, Works
    <2> QED BY <2>3
  <1> QED BY <1>1, <1>2

LEMMA ClaimKept ==
  ASSUME ClaimInv, NEW p \in Processes, CallsAlone(p),
         \A i : pipes[i] = NoPipe => pipes'[i] = NoPipe,
         calls'[p].pc = "claim" => calls[p].pc = "claim" /\ calls'[p].slot = calls[p].slot
  PROVE  ClaimInv'
  BY DEF ClaimInv, CallsAlone, At

\* The threads that are about to free a pipe keep their descriptor.
LEMMA FreeingOthers ==
  ASSUME Core, NEW p \in Processes, CallsAlone(p), Touches(p), NEW q \in Processes, q # p,
         NEW i
  PROVE  q \in Freeing(i)' <=> q \in Freeing(i)
  <1>1. calls'[q] = calls[q] BY DEF CallsAlone
  <1>2. CASE calls[q].pc = "freePipe"
    <2>1. WorkOf(q) /\ calls[q].fd \in Fd /\ WorkApart BY Parts
    <2>2. calls[q].fd \in Works(q) /\ calls[q].fd \in Fds
      BY <1>2, <2>1 DEF WorkOf, Works, WorkedAt, Closing, Fd
    <2>3. /\ files[calls[q].fd].status # "idle" /\ calls[q].fd \notin Works(p)
      BY <2>1, <2>2 DEF WorkOf, WorkApart
    <2>4. files'[calls[q].fd].inode = files[calls[q].fd].inode BY <2>2, <2>3 DEF Touches
    <2> QED BY <1>1, <2>4 DEF Freeing, At
  <1>3. CASE calls[q].pc # "freePipe" BY <1>1, <1>3 DEF Freeing, At
  <1> QED BY <1>2, <1>3

LEMMA FreeingSame ==
  ASSUME Core, NEW p \in Processes, CallsAlone(p), Touches(p),
         calls[p].pc # "freePipe", calls'[p].pc # "freePipe", NEW i
  PROVE  Freeing(i)' = Freeing(i)
  <1>1. p \notin Freeing(i) /\ p \notin Freeing(i)' BY DEF Freeing, At
  <1>2. \A q \in Processes : q \in Freeing(i)' <=> q \in Freeing(i) BY <1>1, FreeingOthers
  <1> QED BY <1>2 DEF Freeing

LEMMA PipesKept ==
  ASSUME Core, PipesInv, NEW p \in Processes, CallsAlone(p), Touches(p), pipes' = pipes,
         calls[p].pc # "freePipe", calls'[p].pc # "freePipe",
         \A fd \in Fds : /\ Active(fd)' <=> Active(fd)
                         /\ Active(fd) => /\ files'[fd].status = files[fd].status
                                          /\ files'[fd].inode = files[fd].inode
  PROVE  PipesInv'
  <1>1. ASSUME NEW end \in Ends, NEW i PROVE OnEnd(end, i)' = OnEnd(end, i)
    <2>1. \A fd \in Fds :
             files'[fd].status = end /\ files'[fd].inode = i /\ Active(fd)'
               <=> files[fd].status = end /\ files[fd].inode = i /\ Active(fd)
      OBVIOUS
    <2>2. OnEnd(end, i) =
           {fd \in Fds : files[fd].status = end /\ files[fd].inode = i /\ Active(fd)}
      BY OnEndIs
    <2>3. OnEnd(end, i)' =
           {fd \in Fds : files'[fd].status = end /\ files'[fd].inode = i /\ Active(fd)'}
      BY OnEndIsNext
    <2> QED BY <2>1, <2>2, <2>3
  <1>2. \A i : Freeing(i)' = Freeing(i) BY FreeingSame
  <1> QED BY <1>1, <1>2 DEF PipesInv

LEMMA RestOfStep ==
  ASSUME IInv, NEW p \in Processes, CallsAlone(p), Touches(p), pipes' = pipes,
         lost \subseteq lost',
         \A fd \in Fds : files'[fd].status # "idle" /\ files'[fd].openCounter = 0 =>
             \/ fd \in lost' \/ fd \in Works(p)'
             \/ files'[fd] = files[fd] /\ fd \notin Works(p),
         calls'[p].pc # "claim", calls[p].pc # "freePipe", calls'[p].pc # "freePipe",
         \A fd \in Fds : /\ Active(fd)' <=> Active(fd)
                         /\ Active(fd) => /\ files'[fd].status = files[fd].status
                                          /\ files'[fd].inode = files[fd].inode
  PROVE  RestInv' /\ ClaimInv' /\ PipesInv'
  <1>1. Core /\ RestInv /\ ClaimInv /\ PipesInv BY DEF IInv
  <1>2. RestInv' BY <1>1, RestKept
  <1>3. ClaimInv' BY <1>1, ClaimKept
  <1>4. PipesInv' BY <1>1, PipesKept
  <1> QED BY <1>2, <1>3, <1>4

\* A step that changes no file and no pipe.
LEMMA QuietStep ==
  ASSUME IInv, NEW p \in Processes, CallsAlone(p), UNCHANGED <<files, pipes>>,
         lost \subseteq lost', Works(p) \subseteq Works(p)' \cup lost',
         calls'[p].pc # "claim", calls[p].pc # "freePipe", calls'[p].pc # "freePipe",
         Parting(calls'[p]) = Parting(calls[p])
  PROVE  RestInv' /\ ClaimInv' /\ PipesInv'
  <1>1. Touches(p) BY DEF Touches
  <1>2. \A q \in Processes : Parting(calls'[q]) = Parting(calls[q]) BY DEF CallsAlone
  <1>3. \A fd \in Fds : Active(fd)' <=> Active(fd) BY <1>2 DEF Active
  <1> QED BY <1>1, <1>3, RestOfStep

\* An idle descriptor is reserved, or one that is worked at is cleared.
LEMMA SpareRest ==
  ASSUME IInv, NEW p \in Processes, CallsAlone(p), Touches(p), pipes' = pipes,
         lost \subseteq lost',
         \A fd \in Fds :
             \/ files'[fd] = files[fd] /\ (fd \in Works(p) => fd \in Works(p)' \cup lost')
             \/ /\ files[fd].status \notin Ends /\ files'[fd].status \notin Ends
                /\ fd \in Works(p)' \cup lost' \/ files'[fd] = Idle
                     \/ files'[fd].openCounter >= 1,
         calls'[p].pc # "claim", calls[p].pc # "freePipe", calls'[p].pc # "freePipe",
         Parting(calls'[p]) = Parting(calls[p])
  PROVE  RestInv' /\ ClaimInv' /\ PipesInv'
  <1>1. \A q \in Processes : Parting(calls'[q]) = Parting(calls[q]) BY DEF CallsAlone
  <1>2. \A fd \in Fds : Active(fd)' <=> Active(fd) BY <1>1 DEF Active
  <1>3. \A fd \in Fds : Active(fd) => files'[fd] = files[fd] BY DEF Active
  <1>4. Idle.status = "idle" BY DEF Idle
  <1>5. ~(0 >= 1) OBVIOUS
  <1>6. \A fd \in Fds : files'[fd].status # "idle" /\ files'[fd].openCounter = 0 =>
             \/ fd \in lost' \/ fd \in Works(p)'
             \/ files'[fd] = files[fd] /\ fd \notin Works(p)
    BY <1>4, <1>5
  <1> QED BY <1>2, <1>3, <1>6, RestOfStep

\* Most labels have nothing to do with what is reserved or parted from.
Elsewhere == Labels \ (Reserving \cup Closing)

LEMMA ElsewhereIs ==
  ASSUME NEW c, c.pc \in Elsewhere
  PROVE  /\ WorkedAt(c) = {} /\ Parting(c) = {}
         /\ c.pc # "claim" /\ c.pc # "freePipe"
  BY DEF Elsewhere, WorkedAt, Parting, Reserving, Closing

\* From elsewhere to elsewhere.
LEMMA ElsewhereStep ==
  ASSUME IInv, NEW p \in Processes, CallsAlone(p), UNCHANGED <<files, pipes>>,
         lost \subseteq lost', calls[p].pc \in Elsewhere, calls'[p].pc \in Elsewhere
  PROVE  RestInv' /\ ClaimInv' /\ PipesInv'
  <1>1. Works(p) = {} BY ElsewhereIs DEF Works
  <1> QED BY <1>1, ElsewhereIs, QuietStep

LEMMA ElsewhereLabels ==
  {"user", "connect", "install", "connectPipe", "installIn", "installOut", "close", "remove",
   "inherit", "count", "record", "start", "reap", "use", "inside"} \subseteq Elsewhere
  BY DEF Elsewhere, Labels, Reserving, Closing

\* The call of a thread, and no other, gets these values.
LEMMA CallIs ==
  ASSUME TypeInv, NEW p \in Processes
  PROVE  /\ Return(p) => calls'[p].pc = "user"
         /\ \A pc : Goto(p, pc) => /\ calls'[p].pc = pc /\ calls'[p].fd = calls[p].fd
                                   /\ calls'[p].out = calls[p].out
                                   /\ calls'[p].slot = calls[p].slot
         /\ AfterClose(p) => calls'[p].pc = calls[p].back
  <1>1. calls \in [Processes -> Call] /\ calls[p] \in Call BY DEF TypeInv
  <1> QED BY <1>1 DEF Return, Goto, AfterClose, NoCall, Call

LEMMA QuietSteps ==
  ASSUME IInv, NEW p \in Processes, ThreadStep(p),
         \/ OpenConnect(p) \/ OpenInstall(p) \/ PipeConnect(p)
         \/ PipeInstallIn(p) \/ PipeInstallOut(p) \/ RemoveHandle(p)
         \/ \E h \in 0..MaxHandles : CloseHandle(p, h) \/ InheritResolve(p, h) \/ UseHandle(p, h)
         \/ \E q \in Processes : CreateProcess(p, q) \/ Clean(p, q)
         \/ UnknownProgram(p) \/ StartProcess(p) \/ Exit(p) \/ CleanNext(p)
         \/ EnterPipe(p) \/ LeavePipe(p)
  PROVE  RestInv' /\ ClaimInv' /\ PipesInv'
  <1>1. TypeInv /\ CallsAlone(p) /\ calls \in [Processes -> Call] /\ calls[p] \in Call
    BY StepCallsAlone DEF IInv, Core, TypeInv
  <1>2. CASE OpenConnect(p) \/ OpenInstall(p) \/ PipeConnect(p)
    <2>1. calls[p].pc \in {"connect", "install", "connectPipe"}
      BY <1>2 DEF OpenConnect, OpenInstall, PipeConnect, At
    <2>2. calls'[p].pc \in {"install", "close", "user", "installIn"}
      BY <1>1, <1>2, CallIs DEF OpenConnect, OpenInstall, PipeConnect
    <2>3. UNCHANGED <<files, pipes>> /\ lost \subseteq lost'
      BY <1>2 DEF OpenConnect, OpenInstall, PipeConnect
    <2> QED BY <1>1, <2>1, <2>2, <2>3, ElsewhereLabels, ElsewhereStep
  <1>3. CASE PipeInstallIn(p) \/ PipeInstallOut(p) \/ RemoveHandle(p)
    <2>1. calls[p].pc \in {"installIn", "installOut", "remove"}
      BY <1>3 DEF PipeInstallIn, PipeInstallOut, RemoveHandle, At
    <2>2. calls'[p].pc \in {"installOut", "user"}
      BY <1>1, <1>3, CallIs DEF PipeInstallIn, PipeInstallOut, RemoveHandle
    <2>3. UNCHANGED <<files, pipes>> /\ lost \subseteq lost'
      BY <1>3 DEF PipeInstallIn, PipeInstallOut, RemoveHandle
    <2> QED BY <1>1, <2>1, <2>2, <2>3, ElsewhereLabels, ElsewhereStep
  <1>4. CASE \E h \in 0..MaxHandles :
                CloseHandle(p, h) \/ InheritResolve(p, h) \/ UseHandle(p, h)
    <2>1. calls[p].pc \in {"user", "inherit"}
      BY <1>4 DEF CloseHandle, InheritResolve, UseHandle, MayCall, At
    <2>2. calls'[p].pc \in {"close", "count", "use"}
      <3>1. PICK h \in 0..MaxHandles :
              CloseHandle(p, h) \/ InheritResolve(p, h) \/ UseHandle(p, h)
        BY <1>4
      <3>2. CASE CloseHandle(p, h) BY <1>1, <3>2 DEF CloseHandle, Call
      <3>3. CASE InheritResolve(p, h) BY <1>1, <3>3 DEF InheritResolve, Call
      <3>4. CASE UseHandle(p, h) BY <1>1, <3>4 DEF UseHandle, Call
      <3> QED BY <3>1, <3>2, <3>3, <3>4
    <2>3. UNCHANGED <<files, pipes>> /\ lost \subseteq lost'
      BY <1>4 DEF CloseHandle, InheritResolve, UseHandle
    <2>4. calls[p].pc \in Elsewhere /\ calls'[p].pc \in Elsewhere
      BY <2>1, <2>2, ElsewhereLabels
    <2> QED BY <1>1, <2>3, <2>4, ElsewhereStep
  <1>5. CASE \E q \in Processes : CreateProcess(p, q) \/ Clean(p, q)
    <2>1. calls[p].pc = "user" BY <1>5 DEF CreateProcess, Clean, MayCall, At
    <2>2. calls'[p].pc \in {"inherit", "reap"}
      <3>1. PICK q \in Processes : CreateProcess(p, q) \/ Clean(p, q) BY <1>5
      <3>2. CASE CreateProcess(p, q) BY <1>1, <3>2 DEF CreateProcess, Call
      <3>3. CASE Clean(p, q) BY <1>1, <3>3 DEF Clean, Call
      <3> QED BY <3>1, <3>2, <3>3
    <2>3. UNCHANGED <<files, pipes>> /\ lost \subseteq lost'
      BY <1>5 DEF CreateProcess, Clean
    <2> QED BY <1>1, <2>1, <2>2, <2>3, ElsewhereLabels, ElsewhereStep
  <1>6. CASE UnknownProgram(p) \/ StartProcess(p) \/ Exit(p)
    <2>1. calls[p].pc \in {"record", "start", "user"}
      BY <1>6 DEF UnknownProgram, StartProcess, Exit, MayCall, At
    <2>2. calls'[p].pc = "user"
      BY <1>1, <1>6, CallIs DEF UnknownProgram, StartProcess, Exit, MayCall, At
    <2>3. UNCHANGED <<files, pipes>> /\ lost \subseteq lost'
      BY <1>6 DEF UnknownProgram, StartProcess, Exit
    <2> QED BY <1>1, <2>1, <2>2, <2>3, ElsewhereLabels, ElsewhereStep
  <1>7. CASE CleanNext(p) \/ EnterPipe(p) \/ LeavePipe(p)
    <2>1. calls[p].pc \in {"reap", "use", "inside"}
      BY <1>7 DEF CleanNext, EnterPipe, LeavePipe, At
    <2>2. calls'[p].pc \in {"close", "user", "inside"}
      BY <1>1, <1>7, CallIs DEF CleanNext, EnterPipe, LeavePipe, Call
    <2>3. UNCHANGED <<files, pipes>> /\ lost \subseteq lost'
      BY <1>7 DEF CleanNext, EnterPipe, LeavePipe
    <2> QED BY <1>1, <2>1, <2>2, <2>3, ElsewhereLabels, ElsewhereStep
  <1> QED BY <1>2, <1>3, <1>4, <1>5, <1>6, <1>7

LEMMA LoadRest ==
  ASSUME IInv, NEW p \in Processes, ThreadStep(p), LoadCounter(p)
  PROVE  RestInv' /\ ClaimInv' /\ PipesInv'
  <1>1. TypeInv /\ CallsAlone(p) /\ calls \in [Processes -> Call] /\ calls[p] \in Call
    BY StepCallsAlone DEF IInv, Core, TypeInv
  <1>2. /\ calls' = [calls EXCEPT ![p].seen = Counter(p)] /\ CountsNow(p)
        /\ UNCHANGED <<files, pipes, lost>>
    BY DEF LoadCounter
  <1>3. /\ calls'[p].pc = calls[p].pc /\ calls'[p].fd = calls[p].fd
        /\ calls'[p].out = calls[p].out
    BY <1>1, <1>2 DEF Call
  <1>4. calls[p].pc \in {"count", "close", "connect", "connectPipe", "disconnect"}
    BY <1>2 DEF CountsNow
  <1>5. Works(p)' = Works(p) /\ Parting(calls'[p]) = Parting(calls[p])
    BY <1>3 DEF Works, WorkedAt, Parting
  <1> QED BY <1>1, <1>2, <1>3, <1>4, <1>5, QuietStep

LEMMA ReservesRest ==
  ASSUME IInv, NEW p \in Processes, ThreadStep(p),
         OpenReserve(p) \/ PipeReserveIn(p) \/ AddToProcFS(p)
  PROVE  RestInv' /\ ClaimInv' /\ PipesInv'
  <1> DEFINE f == getFreeDescriptorIndex(0)
  <1>1. /\ TypeInv /\ CallsAlone(p) /\ calls \in [Processes -> Call] /\ calls[p] \in Call
        /\ Touches(p) /\ FilesInv /\ files \in [Fds -> File]
    BY StepCallsAlone, StepTouches DEF IInv, Core, TypeInv
  <1>2. f = Invalid \/ (f \in Fds /\ files[f].status = "idle") BY FreeDescriptor
  <1>3. calls[p].pc \in {"user", "record"}
    BY DEF OpenReserve, PipeReserveIn, AddToProcFS, MayCall, At
  <1>4. /\ files' = IF f = Invalid THEN files ELSE [files EXCEPT ![f].status = "reserved"]
        /\ calls'[p].pc \in {"driver", "reserveOut", "start"}
        /\ f # Invalid => calls'[p].fd = f /\ calls'[p].pc # "start"
        /\ UNCHANGED <<pipes, lost>>
    <2>1. CASE OpenReserve(p) BY <1>1, <2>1 DEF OpenReserve, Call
    <2>2. CASE PipeReserveIn(p) BY <1>1, <2>2 DEF PipeReserveIn, Call
    <2>3. CASE AddToProcFS(p)
      <3>1. CASE f = Invalid BY <1>1, <2>3, <3>1, CallIs DEF AddToProcFS
      <3>2. CASE f # Invalid BY <1>1, <2>3, <3>2 DEF AddToProcFS, Call
      <3> QED BY <3>1, <3>2
    <2> QED BY <2>1, <2>2, <2>3
  <1> HIDE DEF f
  <1>5. Works(p) = {} /\ Parting(calls[p]) = {} /\ Parting(calls'[p]) = {}
        /\ calls'[p].pc # "claim" /\ calls[p].pc # "freePipe" /\ calls'[p].pc # "freePipe"
    BY <1>3, <1>4 DEF Works, WorkedAt, Parting, Reserving, Closing
  <1>6. ASSUME NEW fd \in Fds
        PROVE  \/ files'[fd] = files[fd]
               \/ /\ files[fd].status \notin Ends /\ files'[fd].status \notin Ends
                  /\ fd \in Works(p)'
    <2>1. CASE fd = f
      <3>1. f # Invalid BY <2>1, Ranges
      <3>2. files[f].status = "idle" /\ files'[f].status = "reserved"
        BY <1>1, <1>2, <1>4, <3>1 DEF File
      <3>3. f \in Works(p)' BY <1>4, <3>1 DEF Works, WorkedAt, Reserving
      <3> QED BY <2>1, <3>2, <3>3 DEF Ends
    <2>2. CASE fd # f BY <1>1, <1>4, <2>2
    <2> QED BY <2>1, <2>2
  <1> QED BY <1>1, <1>4, <1>5, <1>6, SpareRest

LEMMA ReserveOutRest ==
  ASSUME IInv, NEW p \in Processes, ThreadStep(p), PipeReserveOut(p)
  PROVE  RestInv' /\ ClaimInv' /\ PipesInv'
  <1> DEFINE f == getFreeDescriptorIndex(calls[p].fd + 1)
  <1>1. /\ TypeInv /\ CallsAlone(p) /\ calls \in [Processes -> Call] /\ calls[p] \in Call
        /\ Touches(p) /\ FilesInv /\ files \in [Fds -> File] /\ calls[p].pc = "reserveOut"
        /\ calls[p].fd \in Fd
    BY StepCallsAlone, StepTouches DEF IInv, Core, TypeInv, PipeReserveOut, At, Call
  <1>2. f = Invalid \/ (f \in Fds /\ files[f].status = "idle")
    <2>1. calls[p].fd + 1 \in Nat BY <1>1, Ranges DEF Fd, Invalid, Fds
    <2> QED BY <2>1, FreeDescriptor
  <1>3. /\ files' = IF f = Invalid THEN files ELSE [files EXCEPT ![f].status = "reserved"]
        /\ pipes' = pipes
        /\ IF Invalid \in {f, calls[p].fd}
           THEN lost' = lost \cup ({f, calls[p].fd} \ {Invalid}) /\ Return(p)
           ELSE lost' = lost /\ calls' = [calls EXCEPT ![p].pc = "scan", ![p].out = f]
    BY DEF PipeReserveOut
  <1> HIDE DEF f
  <1>4. Works(p) = {calls[p].fd} \ {Invalid} /\ Parting(calls[p]) = {}
    BY <1>1 DEF Works, WorkedAt, Parting, Reserving, Closing
  <1>5. /\ calls'[p].pc \in {"user", "scan"}
        /\ calls'[p].pc = "scan" => calls'[p].fd = calls[p].fd /\ calls'[p].out = f
        /\ calls'[p].pc = "user" => lost' = lost \cup ({f, calls[p].fd} \ {Invalid})
        /\ lost \subseteq lost'
    <2>1. CASE Invalid \in {f, calls[p].fd} BY <1>1, <1>3, <2>1, CallIs
    <2>2. CASE ~(Invalid \in {f, calls[p].fd}) BY <1>1, <1>3, <2>2 DEF Call
    <2> QED BY <2>1, <2>2
  <1>6. Parting(calls'[p]) = {} BY <1>5 DEF Parting
  <1>7. {f, calls[p].fd} \ {Invalid} \subseteq Works(p)' \cup lost'
    <2>1. CASE calls'[p].pc = "scan" BY <1>5, <2>1 DEF Works, WorkedAt, Reserving
    <2>2. CASE calls'[p].pc = "user" BY <1>5, <2>2
    <2> QED BY <1>5, <2>1, <2>2
  <1>8. ASSUME NEW fd \in Fds
        PROVE  \/ files'[fd] = files[fd] /\ (fd \in Works(p) => fd \in Works(p)' \cup lost')
               \/ /\ files[fd].status \notin Ends /\ files'[fd].status \notin Ends
                  /\ fd \in Works(p)' \cup lost'
    <2>1. CASE fd = f
      <3>1. f # Invalid BY <2>1, Ranges
      <3>2. files[f].status = "idle" /\ files'[f].status = "reserved"
        BY <1>1, <1>2, <1>3, <3>1 DEF File
      <3> QED BY <1>7, <2>1, <3>1, <3>2 DEF Ends
    <2>2. CASE fd # f BY <1>1, <1>3, <1>4, <1>7, <2>2
    <2> QED BY <2>1, <2>2
  <1> QED BY <1>1, <1>3, <1>4, <1>5, <1>6, <1>8, SpareRest

LEMMA DriverRest ==
  ASSUME IInv, NEW p \in Processes, ThreadStep(p), OpenDriver(p)
  PROVE  RestInv' /\ ClaimInv' /\ PipesInv'
  <1>1. /\ TypeInv /\ CallsAlone(p) /\ calls \in [Processes -> Call] /\ calls[p] \in Call
        /\ Touches(p) /\ WorkOf(p) /\ files \in [Fds -> File] /\ calls[p].pc = "driver"
        /\ Core /\ calls[p].fd \in Fd
    BY StepCallsAlone, StepTouches, Parts DEF IInv, Core, TypeInv, OpenDriver, At, Call
  <1>2. /\ calls[p].fd \in Fds /\ Works(p) = {calls[p].fd} /\ Parting(calls[p]) = {}
        /\ files[calls[p].fd] = Reserved
    BY <1>1 DEF WorkOf, Works, WorkedAt, Parting, Reserving, Closing, Fd
  <1>3. UNCHANGED <<pipes, lost>> /\ calls'[p].pc \in {"connect", "start", "user"}
    BY <1>1, CallIs DEF OpenDriver
  <1>4. Parting(calls'[p]) = {} BY <1>3 DEF Parting
  <1>5. /\ \A fd \in Fds : fd # calls[p].fd => files'[fd] = files[fd]
        /\ \/ files'[calls[p].fd] = Idle
           \/ files'[calls[p].fd].openCounter >= 1 /\ files'[calls[p].fd].status = "reserved"
    <2>1. CASE files' = [files EXCEPT ![calls[p].fd] = Idle] BY <1>1, <1>2, <2>1
    <2>2. CASE files' = [files EXCEPT ![calls[p].fd].openCounter = 1,
                                      ![calls[p].fd].sb = "file"]
      <3>1. /\ \A fd \in Fds : fd # calls[p].fd => files'[fd] = files[fd]
            /\ files'[calls[p].fd] = [files[calls[p].fd] EXCEPT !.openCounter = 1, !.sb = "file"]
        BY <1>1, <1>2, <2>2 DEF File
      <3>2. files'[calls[p].fd].openCounter = 1 /\ files'[calls[p].fd].status = "reserved"
        BY <1>2, <3>1 DEF Reserved, Idle
      <3> QED BY <3>1, <3>2
    <2> QED BY <2>1, <2>2 DEF OpenDriver
  <1>6. ASSUME NEW fd \in Fds
        PROVE  \/ files'[fd] = files[fd] /\ (fd \in Works(p) => fd \in Works(p)' \cup lost')
               \/ /\ files[fd].status \notin Ends /\ files'[fd].status \notin Ends
                  /\ files'[fd] = Idle \/ files'[fd].openCounter >= 1
    BY <1>2, <1>5 DEF Reserved, Idle, Ends
  <1> QED BY <1>1, <1>2, <1>3, <1>4, <1>6, SpareRest

LEMMA ScanRest ==
  ASSUME IInv, NEW p \in Processes, ThreadStep(p), PipeScan(p), Liberties = {}
  PROVE  RestInv' /\ ClaimInv' /\ PipesInv'
  <1>1. /\ TypeInv /\ CallsAlone(p) /\ calls \in [Processes -> Call] /\ calls[p] \in Call
        /\ Core /\ RestInv /\ ClaimInv /\ PipesInv /\ calls[p].pc = "scan"
    BY StepCallsAlone DEF IInv, Core, TypeInv, PipeScan, At
  <1>2. UNCHANGED <<files, pipes>> /\ lost \subseteq lost' BY DEF PipeScan
  <1>3. Works(p) = {calls[p].fd, calls[p].out} \ {Invalid} /\ Parting(calls[p]) = {}
    BY <1>1 DEF Works, WorkedAt, Parting, Reserving, Closing
  <1>4. CASE FreePipes = {}
    <2>1. lost' = lost \cup {calls[p].fd, calls[p].out} /\ calls'[p].pc = "user"
      BY <1>1, <1>4, CallIs DEF PipeScan
    <2> QED BY <1>1, <1>2, <1>3, <2>1, QuietStep DEF Parting
  <1>5. CASE FreePipes # {}
    <2> DEFINE i == CHOOSE i \in FreePipes : \A j \in FreePipes : i <= j
    <2>1. calls' = [calls EXCEPT ![p].pc = "claim", ![p].slot = i] /\ lost' = lost
      BY <1>5 DEF PipeScan
    <2>2. i \in FreePipes
      <3>1. FreePipes \in SUBSET Nat BY <1>1, Ranges DEF FreePipes, TypeInv, Slots
      <3> QED BY <1>5, <3>1, Lowest
    <2> HIDE DEF i
    <2>3. /\ calls'[p].pc = "claim" /\ calls'[p].slot = i /\ calls'[p].fd = calls[p].fd
          /\ calls'[p].out = calls[p].out
      BY <1>1, <2>1 DEF Call
    <2>4. pipes[i] = NoPipe BY <2>2 DEF FreePipes
    <2>5. \A q \in Processes : calls[q].pc # "claim" BY DEF PipeScan, At
    <2>6. ClaimInv' BY <1>1, <1>2, <2>3, <2>4, <2>5 DEF ClaimInv, At, CallsAlone
    <2>7. Works(p)' = Works(p) BY <1>3, <2>3 DEF Works, WorkedAt, Reserving, Closing
    <2>8. RestInv' BY <1>1, <1>2, <2>7, RestKept
    <2>9. Touches(p) BY <1>2 DEF Touches
    <2>10. Parting(calls'[p]) = {} BY <2>3 DEF Parting
    <2>11. \A q \in Processes : Parting(calls'[q]) = Parting(calls[q])
      BY <1>1, <1>3, <2>10 DEF CallsAlone
    <2>12. \A fd \in Fds : Active(fd)' <=> Active(fd) BY <1>2, <2>11 DEF Active
    <2>13. PipesInv' BY <1>1, <1>2, <2>3, <2>9, <2>12, PipesKept
    <2> QED BY <2>6, <2>8, <2>13
  <1> QED BY <1>4, <1>5

\* A thread alone changes a counter it has read; the others' partings stay.
LEMMA CountRest ==
  ASSUME IInv, NEW p \in Processes, ThreadStep(p), CallsAlone(p), calls[p].pc \in Elsewhere,
         NEW f \in Fds, NEW n \in Nat, files[f].openCounter >= 1,
         files' = [files EXCEPT ![f].openCounter = n], UNCHANGED <<pipes, lost>>,
         \/ n >= 1 /\ calls'[p].pc \in Elsewhere
         \/ calls'[p].pc = "disconnect" /\ calls'[p].fd = f
  PROVE  RestInv' /\ ClaimInv' /\ PipesInv'
  <1>1. Core /\ Touches(p) BY StepTouches DEF IInv
  <1>2. /\ files'[f].openCounter = n /\ files'[f].status = files[f].status
        /\ files'[f].inode = files[f].inode
        /\ \A fd \in Fds : fd # f => files'[fd] = files[fd]
    BY <1>1, CountedFile
  <1>3. Works(p) = {} /\ Parting(calls[p]) = {} /\ calls[p].pc # "freePipe"
    BY ElsewhereIs DEF Works
  <1>4. calls'[p].pc # "claim" /\ calls'[p].pc # "freePipe" BY ElsewhereIs
  <1>5. \/ n >= 1 /\ Parting(calls'[p]) = {}
        \/ Parting(calls'[p]) = {f} /\ f \in Works(p)'
    BY ElsewhereIs, Ranges DEF Parting, Works, WorkedAt, Reserving, Closing
  <1>6. ASSUME NEW fd \in Fds PROVE Active(fd)' <=> Active(fd)
    <2>1. \A q \in Processes : q # p => Parting(calls'[q]) = Parting(calls[q])
      BY DEF CallsAlone
    <2>2. CASE fd = f BY <1>2, <1>5, <2>2 DEF Active
    <2>3. CASE fd # f
      <3>1. files'[fd] = files[fd] BY <1>2, <2>3
      <3>2. fd \notin Parting(calls[p]) /\ fd \notin Parting(calls'[p]) BY <1>3, <1>5, <2>3
      <3>3. (\E q \in Processes : fd \in Parting(calls'[q]))
              <=> \E q \in Processes : fd \in Parting(calls[q])
        BY <2>1, <3>2
      <3> QED BY <3>1, <3>3 DEF Active
    <2> QED BY <2>2, <2>3
  <1>7. \A fd \in Fds : files'[fd].status = files[fd].status /\ files'[fd].inode = files[fd].inode
    BY <1>2
  <1>8. \A fd \in Fds : files'[fd].status # "idle" /\ files'[fd].openCounter = 0 =>
             \/ fd \in lost' \/ fd \in Works(p)'
             \/ files'[fd] = files[fd] /\ fd \notin Works(p)
    BY <1>2, <1>3, <1>5
  <1> QED BY <1>1, <1>3, <1>4, <1>6, <1>7, <1>8, RestOfStep

LEMMA CloseCountRest ==
  ASSUME IInv, NEW p \in Processes, ThreadStep(p), CloseCount(p)
  PROVE  RestInv' /\ ClaimInv' /\ PipesInv'
  <1>1. /\ TypeInv /\ CallsAlone(p) /\ calls \in [Processes -> Call] /\ calls[p] \in Call
        /\ SeenInv /\ CallInv(p) /\ files \in [Fds -> File] /\ calls[p].pc = "close"
        /\ calls[p].fd \in Fd
    BY StepCallsAlone, Parts DEF IInv, Core, TypeInv, CloseCount, At, Call
  <1>2. calls[p].back \in Elsewhere /\ calls[p].pc \in Elsewhere
    BY <1>1, ElsewhereLabels DEF CallInv, BackOf
  <1>3. UNCHANGED <<pipes, lost>> BY DEF CloseCount
  <1>4. CASE ~Loaded(p)
    <2>1. files' = files /\ calls'[p].pc = calls[p].back BY <1>1, <1>4, CallIs DEF CloseCount
    <2> QED BY <1>1, <1>2, <1>3, <2>1, ElsewhereStep
  <1>5. CASE Loaded(p)
    <2>1. CountsNow(p) /\ calls[p].seen = Counter(p) BY <1>1, <1>5 DEF SeenInv
    <2>2. /\ calls[p].fd \in Fds /\ files[calls[p].fd].openCounter >= 1
          /\ calls[p].seen = files[calls[p].fd].openCounter
      BY <1>1, <2>1 DEF CountsNow, Resolves, Counter, Fd
    <2>3. calls[p].seen \in Nat /\ calls[p].seen >= 1 BY <1>1, <2>2 DEF File
    <2> DEFINE n == calls[p].seen - 1
    <2>4. n \in Nat /\ (calls[p].seen > 1 => n >= 1) BY <2>3
    <2>5. files' = [files EXCEPT ![calls[p].fd].openCounter = n] BY <1>5 DEF CloseCount
    <2>6. \/ n >= 1 /\ calls'[p].pc \in Elsewhere
          \/ calls'[p].pc = "disconnect" /\ calls'[p].fd = calls[p].fd
      BY <1>1, <1>2, <1>5, <2>4, CallIs DEF CloseCount
    <2> HIDE DEF n
    <2> QED BY <1>1, <1>2, <1>3, <2>2, <2>4, <2>5, <2>6, CountRest
  <1> QED BY <1>4, <1>5

LEMMA InheritCountRest ==
  ASSUME IInv, NEW p \in Processes, ThreadStep(p), InheritCount(p)
  PROVE  RestInv' /\ ClaimInv' /\ PipesInv'
  <1>1. /\ TypeInv /\ CallsAlone(p) /\ calls \in [Processes -> Call] /\ calls[p] \in Call
        /\ SeenInv /\ files \in [Fds -> File] /\ calls[p].pc = "count" /\ calls[p].fd \in Fd
    BY StepCallsAlone, Parts DEF IInv, Core, TypeInv, InheritCount, At, Call
  <1>2. calls[p].pc \in Elsewhere BY <1>1, ElsewhereLabels
  <1>3. UNCHANGED <<pipes, lost>> BY DEF InheritCount
  <1>4. calls'[p].pc \in {"inherit", "record"} BY <1>1 DEF InheritCount, Call
  <1>5. calls'[p].pc \in Elsewhere BY <1>4, ElsewhereLabels
  <1>6. CASE ~Loaded(p)
    <2>1. files' = files BY <1>6 DEF InheritCount
    <2> QED BY <1>1, <1>2, <1>3, <1>5, <2>1, ElsewhereStep
  <1>7. CASE Loaded(p)
    <2>1. CountsNow(p) /\ calls[p].seen = Counter(p) BY <1>1, <1>7 DEF SeenInv
    <2>2. /\ calls[p].fd \in Fds /\ files[calls[p].fd].openCounter >= 1
          /\ calls[p].seen = files[calls[p].fd].openCounter
      BY <1>1, <2>1 DEF CountsNow, Counter, Fd
    <2>3. calls[p].seen \in Nat BY <1>1, <2>2 DEF File
    <2> DEFINE n == calls[p].seen + 1
    <2>4. n \in Nat /\ n >= 1 BY <2>3
    <2>5. files' = [files EXCEPT ![calls[p].fd].openCounter = n] BY <1>7 DEF InheritCount
    <2> HIDE DEF n
    <2> QED BY <1>1, <1>2, <1>3, <1>5, <2>2, <2>4, <2>5, CountRest
  <1> QED BY <1>6, <1>7

\* A thread that closes works at one descriptor, which is not open.
LEMMA ClosingWork ==
  ASSUME Core, NEW p \in Processes, calls[p].pc \in Closing
  PROVE  /\ calls[p].fd \in Fds /\ Works(p) = {calls[p].fd}
         /\ files[calls[p].fd].openCounter = 0 /\ files[calls[p].fd].status # "idle"
         /\ \A q \in Processes : q # p =>
               calls[p].fd \notin Works(q) /\ calls[p].fd \notin Parting(calls[q])
  <1>1. WorkOf(p) /\ WorkApart /\ calls[p].fd \in Fd BY Parts
  <1>2. calls[p].fd \in Fds BY <1>1 DEF WorkOf, Fd
  <1>3. Works(p) = {calls[p].fd} BY <1>2, Ranges DEF Works, WorkedAt, Reserving, Closing
  <1>4. ASSUME NEW q \in Processes, q # p
        PROVE  calls[p].fd \notin Works(q) /\ calls[p].fd \notin Parting(calls[q])
    <2>1. calls[p].fd \notin Works(q) BY <1>1, <1>3, <1>4 DEF WorkApart
    <2>2. CASE calls[p].fd \in Parting(calls[q])
      <3>1. calls[p].fd \in Works(q) BY <1>2, <2>2, Ranges DEF Parting, Works, WorkedAt, Closing
      <3> QED BY <2>1, <3>1
    <2> QED BY <2>1, <2>2
  <1> QED BY <1>1, <1>2, <1>3, <1>4 DEF WorkOf

LEMMA CloseDisconnectRest ==
  ASSUME IInv, NEW p \in Processes, ThreadStep(p), CloseDisconnect(p)
  PROVE  RestInv' /\ ClaimInv' /\ PipesInv'
  <1> DEFINE f == calls[p].fd
  <1>1. /\ TypeInv /\ CallsAlone(p) /\ calls \in [Processes -> Call] /\ calls[p] \in Call
        /\ FilesInv /\ calls[p].pc = "disconnect" /\ Core /\ Touches(p)
    BY StepCallsAlone, StepTouches, Parts DEF IInv, Core, TypeInv, CloseDisconnect, At, Call
  <1>2. f \in Fds /\ Works(p) = {f} BY <1>1, ClosingWork DEF Closing
  <1>3. UNCHANGED <<files, pipes, lost>> BY DEF CloseDisconnect
  <1>4. /\ calls'[p].fd = f
        /\ calls'[p].pc = IF files[f].sb = "pipe" THEN "cleanup" ELSE "clear"
    BY <1>1, CallIs DEF CloseDisconnect
  <1>5. f \in Works(p)' BY <1>2, <1>4, Ranges DEF Works, WorkedAt, Closing
  <1>6. calls'[p].pc # "claim" /\ calls'[p].pc # "freePipe" BY <1>4
  <1>7. ASSUME NEW fd \in Fds PROVE Active(fd)' <=> Active(fd)
    <2>1. CASE files[fd].status \notin Ends BY <1>3, <2>1 DEF Active
    <2>2. CASE files[fd].status \in Ends
      <3>1. files[fd].sb = "pipe" BY <1>1, <2>2 DEF FilesInv
      <3>2. fd \in Parting(calls'[p]) <=> fd \in Parting(calls[p])
        BY <1>1, <1>4, <3>1 DEF Parting
      <3>3. \A q \in Processes : fd \in Parting(calls'[q]) <=> fd \in Parting(calls[q])
        BY <1>1, <3>2 DEF CallsAlone
      <3> QED BY <1>3, <3>3 DEF Active
    <2> QED BY <2>1, <2>2
  <1> QED BY <1>1, <1>2, <1>3, <1>5, <1>6, <1>7, RestOfStep

LEMMA CloseClearRest ==
  ASSUME IInv, NEW p \in Processes, ThreadStep(p), CloseClear(p)
  PROVE  RestInv' /\ ClaimInv' /\ PipesInv'
  <1>1. /\ TypeInv /\ CallsAlone(p) /\ calls \in [Processes -> Call] /\ calls[p] \in Call
        /\ CallInv(p) /\ calls[p].pc = "clear" /\ Core /\ Touches(p)
        /\ files \in [Fds -> File]
    BY StepCallsAlone, StepTouches, Parts DEF IInv, Core, TypeInv, CloseClear, At, Call
  <1>2. PICK f \in Fds : f = calls[p].fd BY <1>1, ClosingWork DEF Closing
  <1>3. /\ f \in Fds /\ Works(p) = {f} /\ files[f].openCounter = 0
        /\ \A q \in Processes : q # p => f \notin Parting(calls[q])
    BY <1>1, <1>2, ClosingWork DEF Closing
  <1>4. UNCHANGED <<pipes, lost>> BY DEF CloseClear
  <1>5. calls'[p].pc \in {"start", "remove", "reap"}
    BY <1>1, CallIs DEF CloseClear, CallInv, BackOf
  <1>6. files'[f] = Idle /\ \A fd \in Fds : fd # f => files'[fd] = files[fd]
    BY <1>1, <1>2 DEF CloseClear
  <1>7. Parting(calls[p]) = {} /\ Parting(calls'[p]) = {} BY <1>1, <1>5 DEF Parting
  <1>8. ~Active(f) /\ ~Active(f)'
    <2>1. ~Active(f) BY <1>7, <1>3 DEF Active
    <2>2. files'[f].status = "idle" BY <1>6 DEF Idle
    <2> QED BY <2>1, <2>2 DEF Active, Ends
  <1>9. \A q \in Processes : Parting(calls'[q]) = Parting(calls[q])
    BY <1>1, <1>7 DEF CallsAlone
  <1>10. \A fd \in Fds : fd # f => (Active(fd)' <=> Active(fd)) BY <1>6, <1>9 DEF Active
  <1>11. \A fd \in Fds : files'[fd].status # "idle" =>
             files'[fd] = files[fd] /\ fd \notin Works(p)
    BY <1>6, <1>3 DEF Idle
  <1>12. calls'[p].pc # "claim" /\ calls'[p].pc # "freePipe" /\ calls[p].pc # "freePipe"
    BY <1>1, <1>5
  <1>13. \A fd \in Fds : /\ Active(fd)' <=> Active(fd)
                         /\ Active(fd) => /\ files'[fd].status = files[fd].status
                                          /\ files'[fd].inode = files[fd].inode
    BY <1>6, <1>8, <1>10
  <1> QED BY <1>1, <1>4, <1>11, <1>12, <1>13, RestOfStep

\* The end of a pipe is found where its descriptor says.
LEMMA PipeHasEnd ==
  ASSUME PipesInv, TypeInv, NEW fd \in Fds, Active(fd)
  PROVE  /\ files[fd].inode \in Slots /\ files[fd].status \in Ends
         /\ files[fd].status \in pipes[files[fd].inode]
         /\ \A gd \in Fds : Active(gd) /\ files[gd].status = files[fd].status
                              /\ files[gd].inode = files[fd].inode => gd = fd
  <1>1. files[fd].inode \in Slots /\ files[fd].status \in Ends BY DEF TypeInv, File, Active
  <1> DEFINE end == files[fd].status
             i == files[fd].inode
             on == {gd \in Fds : files[gd].status = end /\ files[gd].inode = i /\ Active(gd)}
  <1>2. OnEnd(end, i) = on BY <1>1, OnEndIs
  <1>3. fd \in on OBVIOUS
  <1>4. /\ \A gd, hd \in OnEnd(end, i) : gd = hd
        /\ (end \in pipes[i]) <=> (OnEnd(end, i) # {})
    BY <1>1 DEF PipesInv
  <1> QED BY <1>1, <1>2, <1>3, <1>4

LEMMA CloseEndRest ==
  ASSUME IInv, NEW p \in Processes, ThreadStep(p), CloseEnd(p), Liberties = {}
  PROVE  RestInv' /\ ClaimInv' /\ PipesInv'
  <1>1. /\ TypeInv /\ CallsAlone(p) /\ calls \in [Processes -> Call] /\ calls[p] \in Call
        /\ Core /\ RestInv /\ ClaimInv /\ PipesInv /\ FilesInv /\ WorkOf(p)
        /\ calls[p].pc = "cleanup" /\ Touches(p) /\ files \in [Fds -> File]
        /\ pipes \in [Slots -> (SUBSET Ends) \cup {NoPipe}]
    BY StepCallsAlone, StepTouches, Parts DEF IInv, Core, TypeInv, CloseEnd, At, Call
  <1>2. PICK f \in Fds : f = calls[p].fd BY <1>1, ClosingWork DEF Closing
  <1>3. /\ Works(p) = {f} /\ files[f].openCounter = 0 /\ files[f].status \in Ends
        /\ \A q \in Processes : q # p => f \notin Parting(calls[q])
    BY <1>1, <1>2, ClosingWork DEF Closing, WorkOf
  <1>4. PICK i \in Slots : i = files[f].inode BY <1>1 DEF File
  <1>5. PICK e \in Ends : e = files[f].status BY <1>3
  <1>6. Active(f) /\ Parting(calls[p]) = {f} BY <1>1, <1>2, <1>3 DEF Active, Parting
  <1>7. /\ e \in pipes[i]
        /\ \A gd \in Fds : Active(gd) /\ files[gd].status = e /\ files[gd].inode = i => gd = f
    BY <1>1, <1>4, <1>5, <1>6, PipeHasEnd
  <1>8. /\ pipes' = [pipes EXCEPT ![i] = @ \ {e}] /\ Goto(p, "freePipe")
        /\ UNCHANGED <<files, lost>>
        /\ Freeing(i) = {}
    <2>1. Freeing(i) = {} BY <1>2, <1>4 DEF CloseEnd, Freeing
    <2> QED BY <1>2, <1>4, <1>5, <1>7, <2>1 DEF CloseEnd
  <1>9. calls'[p].pc = "freePipe" /\ calls'[p].fd = f BY <1>1, <1>2, <1>8, CallIs
  <1>10. pipes'[i] = pipes[i] \ {e} /\ \A j \in Slots : j # i => pipes'[j] = pipes[j]
    BY <1>1, <1>8
  <1>11. pipes[i] \in SUBSET Ends BY <1>1, <1>7 DEF NoPipe, Ends
  <1>12. pipes'[i] # NoPipe /\ pipes[i] # NoPipe BY <1>10, <1>11 DEF NoPipe, Ends
  <1>13. RestInv'
    <2>1. f \in Works(p)' BY <1>2, <1>9, Ranges DEF Works, WorkedAt, Closing
    <2> QED BY <1>1, <1>3, <1>8, <2>1, RestKept
  <1>14. ClaimInv'
    <2>1. \A q \in Processes : calls'[q].pc = "claim" =>
              q # p /\ calls'[q] = calls[q] /\ calls[q].slot \in Slots
      BY <1>1, <1>9 DEF CallsAlone, Call
    <2>2. \A q \in Processes : calls'[q].pc = "claim" => pipes[calls[q].slot] = NoPipe
      BY <1>1, <2>1 DEF ClaimInv, At
    <2>3. \A q \in Processes : calls'[q].pc = "claim" => pipes'[calls'[q].slot] = NoPipe
      BY <1>10, <1>12, <2>1, <2>2
    <2> QED BY <1>1, <2>1, <2>3 DEF ClaimInv, At
  <1>15. ASSUME NEW fd \in Fds PROVE Active(fd)' <=> Active(fd) /\ fd # f
    <2>1. CASE fd = f
      <3>1. \A q \in Processes : f \notin Parting(calls'[q])
        BY <1>1, <1>3, <1>9 DEF CallsAlone, Parting
      <3>2. ~(0 >= 1) OBVIOUS
      <3> QED BY <1>3, <1>8, <2>1, <3>1, <3>2 DEF Active
    <2>2. CASE fd # f
      <3>1. fd \notin Parting(calls[p]) /\ fd \notin Parting(calls'[p])
        BY <1>6, <1>9, <2>2 DEF Parting
      <3>2. (\E q \in Processes : fd \in Parting(calls'[q]))
              <=> \E q \in Processes : fd \in Parting(calls[q])
        BY <1>1, <3>1 DEF CallsAlone
      <3> QED BY <1>8, <2>2, <3>2 DEF Active
    <2> QED BY <2>1, <2>2
  <1>16. ASSUME NEW end \in Ends, NEW j \in Slots
         PROVE  OnEnd(end, j)' = IF end = e /\ j = i THEN {} ELSE OnEnd(end, j)
    <2>1. OnEnd(end, j) =
           {fd \in Fds : files[fd].status = end /\ files[fd].inode = j /\ Active(fd)}
      BY OnEndIs
    <2>2. OnEnd(end, j)' =
           {fd \in Fds : files'[fd].status = end /\ files'[fd].inode = j /\ Active(fd)'}
      BY OnEndIsNext
    <2>3. OnEnd(end, j)' =
           {fd \in Fds : files[fd].status = end /\ files[fd].inode = j /\ Active(fd) /\ fd # f}
      BY <1>8, <1>15, <2>2
    <2> QED BY <1>4, <1>5, <1>7, <2>1, <2>3
  <1>17. ASSUME NEW j \in Slots
         PROVE  Freeing(j)' = IF j = i THEN {p} ELSE Freeing(j)
    <2>1. \A q \in Processes : q # p => (q \in Freeing(j)' <=> q \in Freeing(j))
      BY <1>1, FreeingOthers
    <2>2. p \in Freeing(j)' <=> j = i BY <1>4, <1>8, <1>9 DEF Freeing, At
    <2>3. p \notin Freeing(j) BY <1>1 DEF Freeing, At
    <2>4. Freeing(j)' \subseteq Processes /\ Freeing(j) \subseteq Processes BY DEF Freeing
    <2> QED BY <1>8, <2>1, <2>2, <2>3, <2>4
  <1>18. PipesInv'
    <2> SUFFICES ASSUME NEW j \in Slots
                 PROVE  /\ \A end \in Ends :
                             /\ \A fd, gd \in OnEnd(end, j)' : fd = gd
                             /\ (end \in pipes'[j]) <=> (OnEnd(end, j)' # {})
                        /\ pipes'[j] = {} => Freeing(j)' # {}
                        /\ Freeing(j)' # {} => pipes'[j] # NoPipe
                        /\ \A q, r \in Freeing(j)' : q = r
      BY DEF PipesInv
    <2>1. /\ \A end \in Ends :
               /\ \A fd, gd \in OnEnd(end, j) : fd = gd
               /\ (end \in pipes[j]) <=> (OnEnd(end, j) # {})
          /\ pipes[j] = {} => Freeing(j) # {}
          /\ Freeing(j) # {} => pipes[j] # NoPipe
          /\ \A q, r \in Freeing(j) : q = r
      BY <1>1 DEF PipesInv
    <2>2. CASE j = i
      <3>1. Freeing(j)' = {p} BY <1>17, <2>2
      <3>2. ASSUME NEW end \in Ends
            PROVE  /\ \A fd, gd \in OnEnd(end, j)' : fd = gd
                   /\ (end \in pipes'[j]) <=> (OnEnd(end, j)' # {})
        <4>1. OnEnd(end, j)' = IF end = e THEN {} ELSE OnEnd(end, j) BY <1>16, <2>2
        <4>2. end \in pipes'[j] <=> end \in pipes[j] /\ end # e BY <1>10, <2>2
        <4> QED BY <2>1, <4>1, <4>2
      <3> QED BY <1>12, <2>2, <3>1, <3>2
    <2>3. CASE j # i
      <3>1. Freeing(j)' = Freeing(j) /\ pipes'[j] = pipes[j] BY <1>10, <1>17, <2>3
      <3>2. \A end \in Ends : OnEnd(end, j)' = OnEnd(end, j) BY <1>16, <2>3
      <3> QED BY <2>1, <3>1, <3>2
    <2> QED BY <2>2, <2>3
  <1> QED BY <1>13, <1>14, <1>18

LEMMA CloseFreePipeRest ==
  ASSUME IInv, NEW p \in Processes, ThreadStep(p), CloseFreePipe(p)
  PROVE  RestInv' /\ ClaimInv' /\ PipesInv'
  <1>1. /\ TypeInv /\ CallsAlone(p) /\ calls \in [Processes -> Call] /\ calls[p] \in Call
        /\ Core /\ RestInv /\ ClaimInv /\ PipesInv
        /\ calls[p].pc = "freePipe" /\ Touches(p) /\ files \in [Fds -> File]
        /\ pipes \in [Slots -> (SUBSET Ends) \cup {NoPipe}]
    BY StepCallsAlone, StepTouches, Parts DEF IInv, Core, TypeInv, CloseFreePipe, At, Call
  <1>2. PICK f \in Fds : f = calls[p].fd BY <1>1, ClosingWork DEF Closing
  <1>3. Works(p) = {f} BY <1>1, <1>2, ClosingWork DEF Closing
  <1>4. PICK i \in Slots : i = files[f].inode BY <1>1 DEF File
  <1>5. /\ pipes' = [pipes EXCEPT ![i] = IF @ = {} THEN NoPipe ELSE @] /\ Goto(p, "clear")
        /\ UNCHANGED <<files, lost>>
    BY <1>2, <1>4 DEF CloseFreePipe
  <1>6. calls'[p].pc = "clear" /\ calls'[p].fd = f BY <1>1, <1>2, <1>5, CallIs
  <1>7. /\ pipes'[i] = IF pipes[i] = {} THEN NoPipe ELSE pipes[i]
        /\ \A j \in Slots : j # i => pipes'[j] = pipes[j]
    BY <1>1, <1>5
  <1>8. p \in Freeing(i) BY <1>1, <1>2, <1>4 DEF Freeing, At
  <1>9. Freeing(i) = {p} /\ pipes[i] # NoPipe BY <1>1, <1>8 DEF PipesInv
  <1>10. RestInv'
    <2>1. f \in Works(p)' BY <1>2, <1>6, Ranges DEF Works, WorkedAt, Closing
    <2> QED BY <1>1, <1>3, <1>5, <2>1, RestKept
  <1>11. ClaimInv'
    <2>1. \A q \in Processes : calls'[q].pc = "claim" =>
              q # p /\ calls'[q] = calls[q] /\ calls[q].slot \in Slots
      BY <1>1, <1>6 DEF CallsAlone, Call
    <2>2. \A q \in Processes : calls'[q].pc = "claim" => pipes[calls[q].slot] = NoPipe
      BY <1>1, <2>1 DEF ClaimInv, At
    <2>3. \A q \in Processes : calls'[q].pc = "claim" => pipes'[calls'[q].slot] = NoPipe
      BY <1>7, <1>9, <2>1, <2>2
    <2> QED BY <1>1, <2>1, <2>3 DEF ClaimInv, At
  <1>12. ASSUME NEW end \in Ends, NEW j PROVE OnEnd(end, j)' = OnEnd(end, j)
    <2>1. \A q \in Processes : Parting(calls'[q]) = Parting(calls[q])
      BY <1>1, <1>6 DEF CallsAlone, Parting
    <2>2. \A fd \in Fds : Active(fd)' <=> Active(fd) BY <1>5, <2>1 DEF Active
    <2>3. OnEnd(end, j) =
           {fd \in Fds : files[fd].status = end /\ files[fd].inode = j /\ Active(fd)}
      BY OnEndIs
    <2>4. OnEnd(end, j)' =
           {fd \in Fds : files'[fd].status = end /\ files'[fd].inode = j /\ Active(fd)'}
      BY OnEndIsNext
    <2> QED BY <1>5, <2>2, <2>3, <2>4
  <1>13. ASSUME NEW j \in Slots
         PROVE  Freeing(j)' = IF j = i THEN {} ELSE Freeing(j)
    <2>1. \A q \in Processes : q # p => (q \in Freeing(j)' <=> q \in Freeing(j))
      BY <1>1, FreeingOthers
    <2>2. p \notin Freeing(j)' BY <1>6 DEF Freeing, At
    <2>3. j # i => p \notin Freeing(j) BY <1>2, <1>4 DEF Freeing
    <2>4. Freeing(j)' \subseteq Processes /\ Freeing(j) \subseteq Processes BY DEF Freeing
    <2> QED BY <1>9, <2>1, <2>2, <2>3, <2>4
  <1>14. PipesInv'
    <2> SUFFICES ASSUME NEW j \in Slots
                 PROVE  /\ \A end \in Ends :
                             /\ \A fd, gd \in OnEnd(end, j)' : fd = gd
                             /\ (end \in pipes'[j]) <=> (OnEnd(end, j)' # {})
                        /\ pipes'[j] = {} => Freeing(j)' # {}
                        /\ Freeing(j)' # {} => pipes'[j] # NoPipe
                        /\ \A q, r \in Freeing(j)' : q = r
      BY DEF PipesInv
    <2>1. /\ \A end \in Ends :
               /\ \A fd, gd \in OnEnd(end, j) : fd = gd
               /\ (end \in pipes[j]) <=> (OnEnd(end, j) # {})
          /\ pipes[j] = {} => Freeing(j) # {}
          /\ Freeing(j) # {} => pipes[j] # NoPipe
          /\ \A q, r \in Freeing(j) : q = r
      BY <1>1 DEF PipesInv
    <2>2. CASE j = i
      <3>1. Freeing(j)' = {} BY <1>13, <2>2
      <3>2. \A end \in Ends : end \in pipes'[j] <=> end \in pipes[j]
        BY <1>7, <2>2 DEF NoPipe, Ends
      <3>3. pipes'[j] # {} BY <1>7, <2>2 DEF NoPipe
      <3> QED BY <1>12, <2>1, <3>1, <3>2, <3>3
    <2>3. CASE j # i
      <3>1. Freeing(j)' = Freeing(j) /\ pipes'[j] = pipes[j] BY <1>7, <1>13, <2>3
      <3> QED BY <1>12, <2>1, <3>1
    <2> QED BY <2>2, <2>3
  <1> QED BY <1>10, <1>11, <1>14

LEMMA PipeClaimRest ==
  ASSUME IInv, NEW p \in Processes, ThreadStep(p), PipeClaim(p)
  PROVE  RestInv' /\ ClaimInv' /\ PipesInv'
  <1>1. /\ TypeInv /\ CallsAlone(p) /\ calls \in [Processes -> Call] /\ calls[p] \in Call
        /\ Core /\ RestInv /\ ClaimInv /\ PipesInv /\ WorkOf(p)
        /\ calls[p].pc = "claim" /\ Touches(p)
        /\ pipes \in [Slots -> (SUBSET Ends) \cup {NoPipe}]
    BY StepCallsAlone, StepTouches, Parts DEF IInv, Core, TypeInv, PipeClaim, At, Call
  <1>2. PICK f \in Fds, g \in Fds : f = calls[p].fd /\ g = calls[p].out
    BY <1>1, PipeClaimFiles
  <1>3. PICK i \in Slots : i = calls[p].slot BY <1>1 DEF Call
  <1>4. /\ f # g /\ Works(p) = {f, g}
        /\ files'[f] = PipeEnd("openWrite", i) /\ files'[g] = PipeEnd("openRead", i)
        /\ \A fd \in Fds : fd \notin {f, g} => files'[fd] = files[fd]
        /\ pipes' = [pipes EXCEPT ![i] = Ends]
    BY <1>1, <1>2, <1>3, PipeClaimFiles
  <1>5. /\ files'[f].status = "openWrite" /\ files'[f].inode = i /\ files'[f].openCounter = 1
        /\ files'[g].status = "openRead" /\ files'[g].inode = i /\ files'[g].openCounter = 1
    BY <1>4, PipeEndIsFile DEF Ends
  <1>6. calls'[p].pc = "connectPipe" BY <1>1, CallIs DEF PipeClaim
  <1>7. lost' = lost BY DEF PipeClaim
  <1>8. RestInv'
    <2>1. \A fd \in Fds : files'[fd].openCounter = 0 => fd \notin {f, g} BY <1>5
    <2> QED BY <1>1, <1>4, <1>7, <2>1, RestKept
  <1>9. ClaimInv'
    <2>1. \A q \in Processes : calls'[q].pc = "claim" => q # p /\ calls[q].pc = "claim"
      BY <1>1, <1>6 DEF CallsAlone
    <2>2. \A q \in Processes : calls[q].pc = "claim" => q = p BY <1>1 DEF ClaimInv, At
    <2>3. \A q \in Processes : calls'[q].pc # "claim" BY <2>1, <2>2
    <2> QED BY <2>3 DEF ClaimInv, At
  <1>10. pipes[i] = NoPipe BY <1>1, <1>3 DEF ClaimInv, At
  <1>11. /\ pipes'[i] = Ends /\ \A j \in Slots : j # i => pipes'[j] = pipes[j]
    BY <1>1, <1>4
  <1>12. \A q \in Processes : Parting(calls'[q]) = Parting(calls[q])
    BY <1>1, <1>6 DEF CallsAlone, Parting
  <1>13. ~Active(f) /\ ~Active(g)
    <2>1. files[f].status = "reserved" /\ files[g].status = "reserved"
      BY <1>1, <1>4 DEF WorkOf, Reserving, Reserved, Idle
    <2> QED BY <2>1 DEF Active, Ends
  <1>14. Active(f)' /\ Active(g)'
    <2>1. 1 >= 1 OBVIOUS
    <2> QED BY <1>5, <2>1 DEF Active, Ends
  <1>15. \A fd \in Fds : fd \notin {f, g} => (Active(fd)' <=> Active(fd))
    BY <1>4, <1>12 DEF Active
  <1>16. \A end \in Ends : OnEnd(end, i) = {}
    <2>1. \A end \in Ends : end \notin pipes[i] BY <1>10 DEF Ends, NoPipe
    <2> QED BY <1>1, <2>1 DEF PipesInv
  <1>17. ASSUME NEW end \in Ends, NEW j \in Slots
         PROVE  OnEnd(end, j)' = IF j # i THEN OnEnd(end, j)
                                 ELSE IF end = "openWrite" THEN {f} ELSE {g}
    <2>1. OnEnd(end, j) =
           {fd \in Fds : files[fd].status = end /\ files[fd].inode = j /\ Active(fd)}
      BY OnEndIs
    <2>2. OnEnd(end, j)' =
           {fd \in Fds : files'[fd].status = end /\ files'[fd].inode = j /\ Active(fd)'}
      BY OnEndIsNext
    <2>3. CASE j # i
      <3>1. \A fd \in Fds : files'[fd].status = end /\ files'[fd].inode = j /\ Active(fd)'
              <=> files[fd].status = end /\ files[fd].inode = j /\ Active(fd)
        BY <1>4, <1>5, <1>13, <1>15, <2>3
      <3> QED BY <2>1, <2>2, <2>3, <3>1
    <2>4. CASE j = i
      <3>1. \A fd \in Fds : ~(files[fd].status = end /\ files[fd].inode = j /\ Active(fd))
        BY <1>16, <2>1, <2>4
      <3>2. \A fd \in Fds : files'[fd].status = end /\ files'[fd].inode = j /\ Active(fd)'
              => fd \in {f, g}
        BY <1>4, <1>15, <3>1
      <3>3. end = "openWrite" \/ end = "openRead" BY DEF Ends
      <3>4. \A fd \in Fds : files'[fd].status = end /\ files'[fd].inode = j /\ Active(fd)'
              <=> fd = IF end = "openWrite" THEN f ELSE g
        BY <1>5, <1>14, <2>4, <3>2, <3>3
      <3> QED BY <2>2, <2>4, <3>4
    <2> QED BY <2>3, <2>4
  <1>18. \A j : Freeing(j)' = Freeing(j) BY <1>1, <1>6, FreeingSame
  <1>19. PipesInv'
    <2> SUFFICES ASSUME NEW j \in Slots
                 PROVE  /\ \A end \in Ends :
                             /\ \A fd, gd \in OnEnd(end, j)' : fd = gd
                             /\ (end \in pipes'[j]) <=> (OnEnd(end, j)' # {})
                        /\ pipes'[j] = {} => Freeing(j)' # {}
                        /\ Freeing(j)' # {} => pipes'[j] # NoPipe
                        /\ \A q, r \in Freeing(j)' : q = r
      BY DEF PipesInv
    <2>1. /\ \A end \in Ends :
               /\ \A fd, gd \in OnEnd(end, j) : fd = gd
               /\ (end \in pipes[j]) <=> (OnEnd(end, j) # {})
          /\ pipes[j] = {} => Freeing(j) # {}
          /\ Freeing(j) # {} => pipes[j] # NoPipe
          /\ \A q, r \in Freeing(j) : q = r
      BY <1>1 DEF PipesInv
    <2>2. CASE j = i
      <3>1. Freeing(j)' = {} BY <1>10, <1>18, <2>1, <2>2
      <3>2. pipes'[j] = Ends /\ Ends # {} BY <1>11, <2>2 DEF Ends
      <3> QED BY <1>17, <2>2, <3>1, <3>2
    <2>3. CASE j # i
      <3>1. Freeing(j)' = Freeing(j) /\ pipes'[j] = pipes[j] BY <1>11, <1>18, <2>3
      <3>2. \A end \in Ends : OnEnd(end, j)' = OnEnd(end, j) BY <1>17, <2>3
      <3> QED BY <2>1, <3>1, <3>2
    <2> QED BY <2>2, <2>3
  <1> QED BY <1>8, <1>9, <1>19

LEMMA InitRest ==
  ASSUME Init
  PROVE  RestInv /\ ClaimInv /\ PipesInv
  <1>1. /\ files = [fd \in Fds |->
                  IF fd < StdHandles
                  THEN [Idle EXCEPT !.status = "reserved", !.openCounter = 1]
                  ELSE Idle]
        /\ pipes = [i \in Slots |-> NoPipe]
        /\ calls = [p \in Processes |-> NoCall]
    BY DEF Init, Slots
  <1>2. ASSUME NEW fd \in Fds
        PROVE  /\ files[fd].status \notin Ends
               /\ files[fd].status = "idle" \/ files[fd].openCounter = 1
    BY <1>1 DEF Idle, Ends
  <1>3. RestInv
    <2>1. 1 # 0 OBVIOUS
    <2> QED BY <1>2, <2>1 DEF RestInv
  <1>4. \A p \in Processes : calls[p].pc = "user" BY <1>1 DEF NoCall
  <1>5. ClaimInv BY <1>4 DEF ClaimInv, At
  <1>6. \A i : Freeing(i) = {} BY <1>4 DEF Freeing, At
  <1>7. \A end \in Ends, i \in Slots : OnEnd(end, i) = {}
    <2>1. \A fd \in Fds : ~Active(fd) BY <1>2 DEF Active
    <2>2. \A end \in Ends, i \in Slots : OnEnd(end, i) =
           {fd \in Fds : files[fd].status = end /\ files[fd].inode = i /\ Active(fd)}
      BY OnEndIs
    <2> QED BY <2>1, <2>2
  <1>8. \A i \in Slots : pipes[i] = NoPipe BY <1>1
  <1>9. NoPipe # {} /\ \A end \in Ends : end \notin NoPipe BY DEF NoPipe, Ends
  <1>10. PipesInv BY <1>6, <1>7, <1>8, <1>9 DEF PipesInv
  <1> QED BY <1>3, <1>5, <1>10

LEMMA StepKeepsRest ==
  ASSUME IInv, NEW p \in Processes, ThreadStep(p), Liberties = {}
  PROVE  RestInv' /\ ClaimInv' /\ PipesInv'
  <1>1. CASE \/ OpenReserve(p) \/ PipeReserveIn(p) \/ AddToProcFS(p)
             \/ PipeReserveOut(p) \/ OpenDriver(p) \/ PipeScan(p) \/ LoadCounter(p)
    BY <1>1, ReservesRest, ReserveOutRest, DriverRest, ScanRest, LoadRest
  <1>2. CASE CloseStep(p) \/ PipeClaim(p) \/ InheritCount(p)
    <2>1. CASE RemoveHandle(p) BY <2>1, QuietSteps
    <2> QED
      BY <1>2, <2>1, CloseCountRest, CloseDisconnectRest, CloseEndRest, CloseFreePipeRest,
         CloseClearRest, PipeClaimRest, InheritCountRest
      DEF CloseStep
  <1>3. CASE \/ OpenConnect(p) \/ OpenInstall(p) \/ PipeConnect(p)
             \/ PipeInstallIn(p) \/ PipeInstallOut(p)
             \/ \E h \in 0..MaxHandles :
                   CloseHandle(p, h) \/ InheritResolve(p, h) \/ UseHandle(p, h)
             \/ \E q \in Processes : CreateProcess(p, q) \/ Clean(p, q)
             \/ UnknownProgram(p) \/ StartProcess(p) \/ Exit(p) \/ CleanNext(p)
             \/ EnterPipe(p) \/ LeavePipe(p)
    BY <1>3, QuietSteps
  <1> QED BY <1>1, <1>2, <1>3 DEF ThreadStep

LEMMA StutterKeepsRest ==
  ASSUME RestInv, ClaimInv, PipesInv, UNCHANGED vars
  PROVE  RestInv' /\ ClaimInv' /\ PipesInv'
  <1>1. UNCHANGED <<files, pipes, calls, lost>> BY DEF vars
  <1>2. RestInv' BY <1>1 DEF RestInv, Works, WorkedAt
  <1>3. ClaimInv' BY <1>1 DEF ClaimInv, At
  <1>4. ASSUME NEW end, NEW i PROVE OnEnd(end, i)' = OnEnd(end, i) BY <1>1 DEF OnEnd
  <1>5. ASSUME NEW i PROVE Freeing(i)' = Freeing(i) BY <1>1 DEF Freeing, At
  <1>6. PipesInv' BY <1>1, <1>4, <1>5 DEF PipesInv
  <1> QED BY <1>2, <1>3, <1>6

-----------------------------------------------------------------------------
(* The theorems about the pipes. Two threads that create pipes at the same  *)
(* time may get the same one, and of two that close both ends of a pipe at  *)
(* the same time one may look at what the other has deleted.                *)

LEMMA InvariantHolds ==
  ASSUME Liberties = {}
  PROVE  Spec => []IInv
  <1>1. Init => IInv BY InitCore, InitRest DEF IInv
  <1>2. ASSUME IInv, [Next]_vars PROVE IInv'
    <2>1. CASE Next
      <3>1. PICK p \in Processes : ThreadStep(p) BY <2>1 DEF Next
      <3>2. Core' BY <1>2, <3>1, StepKeepsCore DEF IInv
      <3>3. RestInv' /\ ClaimInv' /\ PipesInv' BY <1>2, <3>1, StepKeepsRest
      <3> QED BY <3>2, <3>3 DEF IInv
    <2>2. CASE UNCHANGED vars BY <1>2, <2>2, StutterKeepsCore, StutterKeepsRest DEF IInv
    <2> QED BY <1>2, <2>1, <2>2
  <1> QED BY <1>1, <1>2, PTL DEF Spec

(* An end of a pipe is open as long as one descriptor is on it, a pipe      *)
(* exists as long as one of its ends is open, and no other pipe takes its   *)
(* place meanwhile (fs_pipe.cpp createPipe, closeDescriptor).               *)
THEOREM PipesAreRight ==
  ASSUME Liberties = {}
  PROVE  Spec => []PipesMatch
  <1>1. IInv => PipesMatch
    <2> SUFFICES ASSUME IInv PROVE PipesMatch OBVIOUS
    <2>1. PipesInv /\ TypeInv /\ DOMAIN pipes = Slots BY DEF IInv, Core, TypeInv
    <2>2. ASSUME NEW i \in Slots, NEW end \in Ends
          PROVE  /\ Cardinality(OnEnd(end, i)) <= 1
                 /\ (end \in pipes[i]) = (OnEnd(end, i) # {})
      <3>1. /\ \A fd, gd \in OnEnd(end, i) : fd = gd
            /\ (end \in pipes[i]) <=> (OnEnd(end, i) # {})
        BY <2>1 DEF PipesInv
      <3>2. CASE OnEnd(end, i) = {}
        <4>1. Cardinality(OnEnd(end, i)) = 0 BY <3>2, NoneMeansZero
        <4> QED BY <3>1, <4>1
      <3>3. CASE OnEnd(end, i) # {}
        <4>1. PICK fd : OnEnd(end, i) = {fd} BY <3>1, <3>3
        <4>2. Cardinality(OnEnd(end, i)) = 1 BY <4>1, OneOf
        <4> QED BY <3>1, <4>2
      <3> QED BY <3>2, <3>3
    <2>3. \A i \in Slots : /\ pipes[i] = {} => Freeing(i) # {}
                           /\ Freeing(i) # {} => pipes[i] # NoPipe
      BY <2>1 DEF PipesInv
    <2> QED BY <2>1, <2>2, <2>3 DEF PipesMatch, Freeing
  <1> QED BY <1>1, InvariantHolds, PTL

(* A descriptor that is not idle is open or a thread is at work on it; only *)
(* an openPipe that fails forgets what it reserved (VFS.cpp openPipe).      *)
THEOREM DescriptorsAreNotLost ==
  ASSUME Liberties = {}
  PROVE  Spec => []NothingLost
  <1>1. IInv => NothingLost
    <2> SUFFICES ASSUME IInv, NEW fd \in Fds, files[fd].status # "idle",
                        ~(files[fd].openCounter >= 1), fd \notin lost
                 PROVE  \E p \in Processes :
                           ~At(p, "user") /\ fd \in {calls[p].fd, calls[p].out}
      BY DEF NothingLost
    <2>1. TypeInv /\ RestInv BY DEF IInv, Core
    <2>2. files[fd].openCounter \in Nat BY <2>1 DEF TypeInv, File
    <2>3. files[fd].openCounter = 0 BY <2>2
    <2>4. PICK p \in Processes : fd \in Works(p) BY <2>1, <2>3 DEF RestInv
    <2>5. fd \in {calls[p].fd, calls[p].out} /\ calls[p].pc \in Reserving \cup Closing
      BY <2>4 DEF Works, WorkedAt, Reserving
    <2> QED BY <2>5 DEF At, Reserving, Closing
  <1> QED BY <1>1, InvariantHolds, PTL

(* While a thread reads or writes a pipe, its end is open: no descriptor is *)
(* closed under a thread (io.cpp readFile, writeFile).                      *)
THEOREM ThreadsInsideAreSafe ==
  ASSUME Liberties = {}
  PROVE  Spec => []ThreadsInsideOpen
  <1>1. IInv => ThreadsInsideOpen
    <2> SUFFICES ASSUME IInv, NEW p \in Processes, At(p, "inside")
                 PROVE  /\ files[calls[p].fd].status \in pipes[files[calls[p].fd].inode]
                        /\ files[calls[p].fd].openCounter >= 1
      BY DEF ThreadsInsideOpen
    <2>1. /\ Core /\ PipesInv /\ TypeInv /\ CallInv(p) /\ UsersInv /\ FilesInv
          /\ \A q \in Processes : ChildInv(q)
      BY Parts DEF IInv
    <2>2. PICK f \in Fd : f = calls[p].fd BY <2>1, Parts
    <2>3. f \in Fds /\ files[f].sb = "pipe" BY <2>1, <2>2 DEF CallInv, At, Fd
    <2>4. PICK h \in DOMAIN io_devices[p] : io_devices[p][h] = f
      BY <2>1, <2>2, <2>3, Ranges DEF CallInv, At
    <2>5. alive[p] = "running" /\ calls[p].back # "remove"
      BY <2>1 DEF CallInv, At, BackOf
    <2>6. Held(p, h) = f BY <2>1, <2>4, <2>5, RunningHolds
    <2>7. files[f].openCounter >= 1 BY <2>1, <2>3, <2>4, <2>6, HandleRange, HeldOpen
    <2>8. files[f].status \in Ends BY <2>1, <2>3 DEF FilesInv
    <2>9. Active(f) BY <2>7, <2>8 DEF Active
    <2> QED BY <2>1, <2>2, <2>3, <2>7, <2>9, PipeHasEnd
  <1> QED BY <1>1, InvariantHolds, PTL
==============================================================================
