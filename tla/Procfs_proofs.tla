---------------------------- MODULE Procfs_proofs ----------------------------
(***************************************************************************)
(* Theorems about Procfs for every table of processes and every set of     *)
(* program names. What ps shows of a lasting process depends on the place  *)
(* of its entry in the directory: how many entries come before it.         *)
(***************************************************************************)
EXTENDS Procfs, FiniteSetTheorems, SequenceTheorems, TLAPS

USE ProcfsAssumption

Entries == DOMAIN registered_processes

(* The place of q's entry in the directory.                                 *)
Before(q) == {p \in Entries : p < q}
Rank(q) == Cardinality(Before(q))
-----------------------------------------------------------------------------
(* The inductive invariant, by parts.                                       *)

TypeInv ==
    /\ TypeOK
    /\ ps \in [pc : {"done", "folder", "open", "read"},
               position : Nat, pid : Pids \cup {0}, read : Nat, line : Seq(STRING)]
    /\ ps.pc \in {"open", "read"} => ps.pid \in Pids
    /\ printed \in Seq((Pids \cup {0}) \X Seq(STRING))

\* The kernel in the middle of a creation or of a removal: as long as the
\* name is not written or the entry erased, there is an empty entry or none.
KernelInv ==
    kernel # Idle =>
        /\ process_table[kernel.pid] # NoProcess
        /\ kernel.pc = "write" => HasEntry(kernel.pid)
        /\ kernel.pc # "erase" /\ HasEntry(kernel.pid) =>
               registered_processes[kernel.pid] = <<>>

SteadyRun == \A q \in steady : Running(q)

Current(q) == ps.pc \in {"open", "read"} /\ ps.pid = q

NotListed(q) == \A j \in DOMAIN printed : printed[j][1] # q

Listed(q) ==
    \E i \in DOMAIN printed :
        /\ printed[i] = <<q, process_table[q]>>
        /\ \A j \in DOMAIN printed : printed[j][1] = q => j = i

\* Of the file of q, ps has read nothing or everything.
AllOrNothing(q) ==
    ps.pc = "read" => \/ ps.read = 0 /\ ps.line = <<>>
                      \/ ps.line = process_table[q]

\* Entries that ps has counted past are printed, but for the one it is at.
PsInv == \A q \in steady :
    /\ ps.pc = "done" => Listed(q)
    /\ ps.pc # "done" /\ ps.position <= Rank(q) => NotListed(q) /\ ~Current(q)
    /\ ps.pc # "done" /\ ps.position > Rank(q) =>
           IF Current(q) THEN NotListed(q) /\ AllOrNothing(q) ELSE Listed(q)

IInv == TypeInv /\ KernelInv /\ EntriesMatch /\ SteadyRun /\ PsInv
-----------------------------------------------------------------------------
(* The directory: places are counted from 0 without a gap.                  *)

LEMMA RankBounds ==
  ASSUME TypeOK, NEW q
  PROVE  /\ IsFiniteSet(Entries) /\ Cardinality(Entries) \in Nat
         /\ Cardinality(Entries) <= Cardinality(Pids) /\ Cardinality(Pids) \in Nat
         /\ Rank(q) \in Nat
         /\ q \in Entries => Rank(q) < Cardinality(Entries)
  <1>1. IsFiniteSet(Entries) /\ Cardinality(Entries) <= Cardinality(Pids)
    BY FS_Subset DEF TypeOK, Entries
  <1>2. IsFiniteSet(Before(q)) /\ Rank(q) <= Cardinality(Entries)
    BY <1>1, FS_Subset DEF Before, Rank
  <1>3. Cardinality(Entries) \in Nat /\ Cardinality(Pids) \in Nat /\ Rank(q) \in Nat
    BY <1>1, <1>2, FS_CardinalityType DEF Rank
  <1>4. ASSUME q \in Entries PROVE Rank(q) < Cardinality(Entries)
    <2>1. q \notin Before(q) BY <1>4 DEF Before, Entries, TypeOK
    <2>2. Rank(q) # Cardinality(Entries)
      BY <1>1, <1>4, <2>1, FS_Subset DEF Before, Rank
    <2> QED BY <1>2, <1>3, <2>2
  <1> QED BY <1>1, <1>3, <1>4

LEMMA RankOrder ==
  ASSUME TypeOK, NEW p \in Entries, NEW q \in Entries, p < q
  PROVE  Rank(p) < Rank(q)
  <1>1. p \in Nat /\ q \in Nat /\ Entries \subseteq Nat BY DEF TypeOK, Entries
  <1>2. Before(p) \subseteq Before(q) /\ p \in Before(q) /\ p \notin Before(p)
    <2>1. \A x \in Entries : x < p => x < q BY <1>1
    <2>2. ~(p < p) BY <1>1
    <2> QED BY <2>1, <2>2 DEF Before
  <1>3. IsFiniteSet(Before(q)) BY RankBounds, FS_Subset DEF Before
  <1>4. Rank(p) <= Rank(q) /\ Rank(p) # Rank(q)
    BY <1>2, <1>3, FS_Subset DEF Rank
  <1> QED BY <1>4, RankBounds

LEMMA RankDistinct ==
  ASSUME TypeOK, NEW p \in Entries, NEW q \in Entries, Rank(p) = Rank(q)
  PROVE  p = q
  <1>1. p \in Nat /\ q \in Nat BY DEF TypeOK, Entries
  <1>2. ~(p < q) /\ ~(q < p) BY RankOrder, RankBounds
  <1> QED BY <1>1, <1>2

(* The index of readFolder always finds its entry, and only that one.       *)
LEMMA PidAtPlace ==
  ASSUME TypeOK, NEW index \in Nat, index < Cardinality(Entries)
  PROVE  PidAt(index) \in Entries /\ Rank(PidAt(index)) = index
  <1> DEFINE N == Cardinality(Entries)
             f == [p \in Entries |-> Rank(p)]
  <1>1. N \in Nat /\ IsFiniteSet(Entries) BY RankBounds
  <1>2. f \in [Entries -> 0..(N - 1)] BY <1>1, RankBounds
  <1>3. \A p, q \in Entries : f[p] = f[q] => p = q BY RankDistinct
  <1>4. f \in Injection(Entries, 0..(N - 1)) BY <1>2, <1>3 DEF Injection, IsInjective
  <1>5. IsFiniteSet(0..(N - 1)) /\ Cardinality(0..(N - 1)) = N
    <2> HIDE DEF N
    <2>1. 0 \in Int /\ N - 1 \in Int BY <1>1
    <2>2. IsFiniteSet(0..(N - 1))
          /\ Cardinality(0..(N - 1)) = IF 0 > N - 1 THEN 0 ELSE N - 1 - 0 + 1
      BY <2>1, FS_Interval
    <2> QED BY <1>1, <2>2
  <1>6. f \in Surjection(Entries, 0..(N - 1)) BY <1>4, <1>5, FS_Injection
  <1>7. PICK p \in Entries : f[p] = index
    <2>1. index \in 0..(N - 1) BY <1>1
    <2> HIDE DEF f, N
    <2> QED BY <1>6, <2>1 DEF Surjection
  <1>8. Rank(p) = index BY <1>7
  <1> QED BY <1>8 DEF PidAt, Rank, Before, Entries
-----------------------------------------------------------------------------
(* What one call does to the map, and what it leaves as it is.              *)

LEMMA OpenEffect ==
  ASSUME TypeInv, NEW p \in Pids, openFile(p)
  PROVE  /\ Entries' = Entries \cup {p}
         /\ \A q \in Entries : registered_processes'[q] = registered_processes[q]
         /\ p \notin Entries => registered_processes'[p] = <<>>
         /\ steady' \subseteq steady
         /\ \A q \in steady' : Before(q)' = Before(q)
  <1>1. registered_processes' = WithEntry(p) BY DEF openFile
  <1>2. Entries' = Entries \cup {p} BY <1>1 DEF WithEntry, Entries
  <1>3. \A q \in Entries : registered_processes'[q] = registered_processes[q]
    BY <1>1 DEF WithEntry, Entries, HasEntry
  <1>4. p \notin Entries => registered_processes'[p] = <<>>
    BY <1>1 DEF WithEntry, Entries, HasEntry
  <1>5. CASE p \in Entries
    <2>1. steady' = steady /\ Entries' = Entries
      BY <1>2, <1>5 DEF openFile, HasEntry, Entries
    <2> QED BY <1>2, <1>3, <1>4, <2>1 DEF Before
  <1>6. CASE p \notin Entries
    <2>1. steady' = {q \in steady : q < p}
      BY <1>6 DEF openFile, HasEntry, Entries, Moves
    <2>2. ASSUME NEW q \in steady' PROVE ~(p < q)
      <3>1. q \in Pids /\ q < p BY <2>1 DEF TypeInv, TypeOK
      <3> QED BY <3>1
    <2> QED BY <1>2, <1>3, <1>4, <2>1, <2>2 DEF Before
  <1> QED BY <1>5, <1>6

LEMMA EraseEffect ==
  ASSUME TypeInv, deleteFile
  PROVE  /\ kernel.pid \in Pids
         /\ Entries' = Entries \ {kernel.pid}
         /\ \A q \in Entries' : registered_processes'[q] = registered_processes[q]
         /\ steady' \subseteq steady /\ kernel.pid \notin steady'
         /\ \A q \in steady' : Before(q)' = Before(q)
  <1>1. kernel.pid \in Pids BY DEF TypeInv, TypeOK, deleteFile, Idle
  <1>2. Entries' = Entries \ {kernel.pid}
        /\ \A q \in Entries' : registered_processes'[q] = registered_processes[q]
    <2>1. registered_processes' = Erased(kernel.pid) BY DEF deleteFile
    <2>2. registered_processes' = [q \in Entries \ {kernel.pid} |-> registered_processes[q]]
      BY <2>1 DEF Erased, Restrict, Entries
    <2> QED BY <2>2 DEF Entries
  <1>3. steady' = {q \in steady : q < kernel.pid} BY DEF deleteFile, Moves
  <1>4. ASSUME NEW q \in steady' PROVE ~(kernel.pid < q) /\ q # kernel.pid
    <2>1. q \in Pids /\ q < kernel.pid BY <1>3 DEF TypeInv, TypeOK
    <2>2. q \in Nat /\ kernel.pid \in Nat BY <1>1, <2>1
    <2> QED BY <2>1, <2>2
  <1> QED BY <1>1, <1>2, <1>3, <1>4 DEF Before

(* What ps has listed stays right as long as it makes no step itself and    *)
(* the entries before a steady one stay.                                    *)
LEMMA PsWaits ==
  ASSUME PsInv, ps' = ps, printed' = printed, steady' \subseteq steady,
         \A q \in steady' : Before(q)' = Before(q)
                            /\ process_table'[q] = process_table[q]
  PROVE  PsInv'
  <1> SUFFICES ASSUME NEW q \in steady'
      PROVE  /\ ps'.pc = "done" => Listed(q)'
             /\ ps'.pc # "done" /\ ps'.position <= Rank(q)'
                    => NotListed(q)' /\ ~Current(q)'
             /\ ps'.pc # "done" /\ ps'.position > Rank(q)' =>
                    IF Current(q)' THEN NotListed(q)' /\ AllOrNothing(q)'
                    ELSE Listed(q)'
    BY DEF PsInv
  <1>1. q \in steady /\ Rank(q)' = Rank(q) /\ process_table'[q] = process_table[q]
    BY DEF Rank
  <1>2. /\ (Current(q)' <=> Current(q)) /\ (NotListed(q)' <=> NotListed(q))
        /\ (Listed(q)' <=> Listed(q)) /\ (AllOrNothing(q)' <=> AllOrNothing(q))
    BY <1>1 DEF Current, NotListed, Listed, AllOrNothing
  <1> QED BY <1>1, <1>2 DEF PsInv

LEMMA InitEstablishes == Init => IInv
  <1> SUFFICES ASSUME Init PROVE IInv OBVIOUS
  <1>1. Entries = {} BY DEF Init, Entries
  <1>2. <<>> \in Seq(STRING) /\ <<>> \in Seq((Pids \cup {0}) \X Seq(STRING))
    OBVIOUS
  <1>3. Cardinality(Pids) \in Nat BY FS_CardinalityType
  <1>4. TypeInv
    BY <1>1, <1>2, <1>3 DEF Init, TypeInv, TypeOK, Entries, Idle
  <1>5. KernelInv /\ EntriesMatch /\ SteadyRun /\ PsInv
    BY <1>1 DEF Init, KernelInv, EntriesMatch, SteadyRun, PsInv, Running, HasEntry,
                Entries, Idle, NoProcess
  <1> QED BY <1>4, <1>5 DEF IInv
-----------------------------------------------------------------------------
(* The steps of the kernel, and of users that open entries.                 *)

LEMMA KernelBusy ==
  ASSUME TypeInv, kernel.pc # "idle"
  PROVE  kernel \in [pc : {"open", "write", "erase", "free"}, pid : Pids]
         /\ kernel # Idle
  BY DEF TypeInv, TypeOK, Idle

LEMMA KernelStep ==
  ASSUME IInv,
         \/ \E p \in Pids, name \in ProgramNames : CreateProcess(p, name)
         \/ \E p \in Pids : RemoveProcess(p)
         \/ AddWrite \/ FreeSlot
  PROVE  IInv'
  <1>1. ASSUME NEW p \in Pids, NEW name \in ProgramNames, CreateProcess(p, name)
        PROVE  IInv'
    <2>1. /\ kernel = Idle /\ kernel' = [pc |-> "open", pid |-> p]
          /\ process_table[p] = NoProcess
          /\ process_table' = [process_table EXCEPT ![p] = name]
          /\ UNCHANGED <<registered_processes, ps, printed, steady, crashed>>
      BY <1>1 DEF CreateProcess
    <2>2. name # NoProcess /\ p # 0 BY DEF NoProcess
    <2>3. TypeInv' BY <2>1 DEF IInv, TypeInv, TypeOK, Idle
    <2>4. \A q \in Pids \ {p} : /\ process_table'[q] = process_table[q]
                                /\ Running(q)' = Running(q)
      BY <2>1 DEF IInv, TypeInv, TypeOK, Running, Idle
    <2>5. ~Running(p) /\ ~Running(p)' /\ process_table'[p] = name
      BY <2>1 DEF IInv, TypeInv, TypeOK, Running, Idle
    <2>6. KernelInv' /\ EntriesMatch'
      BY <2>1, <2>2, <2>4, <2>5 DEF IInv, TypeInv, TypeOK, KernelInv, EntriesMatch, HasEntry, NoProcess, Idle
    <2>7. SteadyRun'
      BY <2>1, <2>4, <2>5 DEF IInv, TypeInv, TypeOK, SteadyRun
    <2>8. \A q \in steady' : Before(q)' = Before(q)
                             /\ process_table'[q] = process_table[q]
      BY <2>1, <2>4, <2>5 DEF IInv, TypeInv, TypeOK, SteadyRun, Before, Entries
    <2>9. PsInv' BY <2>1, <2>8, PsWaits DEF IInv
    <2> QED BY <2>3, <2>6, <2>7, <2>9 DEF IInv
  <1>2. ASSUME NEW p \in Pids, RemoveProcess(p) PROVE IInv'
    <2>1. /\ kernel = Idle /\ kernel' = [pc |-> "erase", pid |-> p]
          /\ process_table[p] # NoProcess
          /\ UNCHANGED <<registered_processes, process_table, ps, printed, steady, crashed>>
      BY <1>2 DEF RemoveProcess
    <2>2. TypeInv' BY <2>1 DEF IInv, TypeInv, TypeOK, Idle
    <2>3. \A q \in Pids : Running(q)' = Running(q)
      BY <2>1 DEF Running, Idle
    <2>4. KernelInv' /\ EntriesMatch' /\ SteadyRun'
      BY <2>1, <2>3 DEF IInv, TypeInv, TypeOK, KernelInv, EntriesMatch, SteadyRun, HasEntry, Idle
    <2>5. PsInv' BY <2>1, PsWaits DEF IInv, Before, Entries
    <2> QED BY <2>2, <2>4, <2>5 DEF IInv
  <1>3. ASSUME AddWrite PROVE IInv'
    <2>0. PICK p \in Pids : kernel.pid = p /\ kernel # Idle
      BY <1>3, KernelBusy DEF AddWrite, IInv
    <2>1. /\ kernel # Idle /\ kernel.pc = "write" /\ kernel.pid = p /\ kernel' = Idle
          /\ UNCHANGED <<process_table, ps, printed, steady, crashed>>
      BY <1>3, <2>0 DEF AddWrite
    <2>2. HasEntry(p) /\ process_table[p] \in ProgramNames /\ ~Running(p)
      BY <2>1 DEF IInv, TypeInv, TypeOK, KernelInv, Running
    <2>3. /\ Entries' = Entries
          /\ registered_processes'[p] = process_table[p]
          /\ \A q \in Entries \ {p} : registered_processes'[q] = registered_processes[q]
      BY <1>3, <2>0, <2>2 DEF AddWrite, Entries, HasEntry
    <2>4. Running(p)' /\ \A q \in Pids \ {p} : Running(q)' = Running(q)
      <3>1. process_table[p] # NoProcess BY <2>2 DEF NoProcess
      <3>2. kernel'.pid = 0 /\ 0 \notin Pids BY <2>1 DEF Idle
      <3> QED BY <2>1, <3>1, <3>2 DEF Running
    <2>5. TypeInv'
      BY <2>1, <2>2, <2>3 DEF IInv, TypeInv, TypeOK, Entries, Idle
    <2>6. KernelInv' /\ EntriesMatch'
      BY <2>1, <2>2, <2>3, <2>4 DEF IInv, TypeInv, TypeOK, KernelInv, EntriesMatch, HasEntry, Entries, NoProcess
    <2>7. SteadyRun'
      BY <2>1, <2>2, <2>4 DEF IInv, TypeInv, TypeOK, SteadyRun
    <2>8. PsInv' BY <2>1, <2>3, PsWaits DEF IInv, Before
    <2> QED BY <2>5, <2>6, <2>7, <2>8 DEF IInv
  <1>4. ASSUME FreeSlot PROVE IInv'
    <2>0. PICK p \in Pids : kernel.pid = p /\ kernel # Idle
      BY <1>4, KernelBusy DEF FreeSlot, IInv
    <2>1. /\ kernel # Idle /\ kernel.pc = "free" /\ kernel.pid = p /\ kernel' = Idle
          /\ process_table' = [process_table EXCEPT ![p] = NoProcess]
          /\ UNCHANGED <<registered_processes, ps, printed, steady, crashed>>
      BY <1>4, <2>0 DEF FreeSlot
    <2>2. ~Running(p) /\ process_table'[p] = NoProcess /\ ~Running(p)'
      <3>1. p \in DOMAIN process_table BY <2>1 DEF IInv, TypeInv, TypeOK
      <3> QED BY <2>1, <3>1 DEF Running
    <2>3. \A q \in Pids \ {p} : /\ process_table'[q] = process_table[q]
                                /\ Running(q)' = Running(q)
      BY <2>1 DEF IInv, TypeInv, TypeOK, Running, Idle
    <2>4. TypeInv' BY <2>1 DEF IInv, TypeInv, TypeOK, NoProcess
    <2>5. KernelInv' /\ EntriesMatch'
      <3>1. KernelInv /\ EntriesMatch BY DEF IInv
      <3>2. HasEntry(p) => registered_processes[p] = <<>>
        BY <2>1, <3>1 DEF KernelInv
      <3>3. \A q \in Pids : HasEntry(q)' = HasEntry(q) BY <2>1 DEF HasEntry
      <3>4. EntriesMatch'
        BY <2>1, <2>2, <2>3, <3>1, <3>2, <3>3 DEF EntriesMatch
      <3> QED BY <2>1, <3>4 DEF KernelInv
    <2>6. SteadyRun'
      BY <2>1, <2>2, <2>3 DEF IInv, TypeInv, TypeOK, SteadyRun
    <2>7. \A q \in steady' : Before(q)' = Before(q)
                             /\ process_table'[q] = process_table[q]
      BY <2>1, <2>2, <2>3 DEF IInv, TypeInv, TypeOK, SteadyRun, Before, Entries
    <2>8. PsInv' BY <2>1, <2>7, PsWaits DEF IInv
    <2> QED BY <2>4, <2>5, <2>6, <2>8 DEF IInv
  <1> QED BY <1>1, <1>2, <1>3, <1>4

(* An entry that is made for whatever reason has no name, and a running     *)
(* process has one already.                                                 *)
LEMMA OpenKeeps ==
  ASSUME IInv, NEW p \in Pids, openFile(p), UNCHANGED process_table,
         \/ kernel' = kernel
         \/ kernel.pc = "open" /\ kernel' = [kernel EXCEPT !.pc = "write"]
            /\ kernel.pid = p
  PROVE  /\ kernel.pid' = kernel.pid
         /\ KernelInv' /\ EntriesMatch' /\ SteadyRun'
         /\ DOMAIN registered_processes' \subseteq Pids
         /\ \A q \in DOMAIN registered_processes' :
               registered_processes'[q] \in ProgramNames \cup {<<>>}
         /\ steady' \subseteq Pids
  <1>0. TypeInv /\ KernelInv /\ EntriesMatch /\ SteadyRun BY DEF IInv
  <1>1. /\ Entries' = Entries \cup {p}
        /\ \A q \in Entries : registered_processes'[q] = registered_processes[q]
        /\ p \notin Entries => registered_processes'[p] = <<>>
        /\ steady' \subseteq steady
    BY <1>0, OpenEffect
  <1>2. /\ Entries \subseteq Pids /\ steady \subseteq Pids
        /\ \A q \in Entries : registered_processes[q] \in ProgramNames \cup {<<>>}
    BY <1>0 DEF TypeInv, TypeOK, Entries
  <1>3. kernel'.pid = kernel.pid
        /\ (kernel'.pc = "erase" <=> kernel.pc = "erase")
        /\ (kernel' # Idle => kernel # Idle)
        /\ (kernel'.pc = "write" => kernel.pc = "write" \/ kernel.pid = p)
    <2>1. CASE kernel' = kernel BY <2>1
    <2>2. CASE kernel.pc = "open" /\ kernel' = [kernel EXCEPT !.pc = "write"]
               /\ kernel.pid = p
      <3>1. kernel \in [pc : {"open", "write", "erase", "free"}, pid : Pids]
            /\ kernel # Idle
        BY <1>0, <2>2, KernelBusy
      <3> QED BY <2>2, <3>1
    <2> QED BY <2>1, <2>2
  <1>4. \A q : Running(q)' = Running(q) BY <1>3 DEF Running
  <1>5. ASSUME NEW q \in Entries', q \notin Entries
        PROVE  q = p /\ registered_processes'[q] = <<>>
    BY <1>1, <1>5
  <1>6. EntriesMatch'
    <2> SUFFICES ASSUME NEW q \in Pids
        PROVE  /\ Running(q)' => HasEntry(q)' /\ registered_processes'[q] = process_table'[q]
               /\ process_table'[q] = NoProcess /\ HasEntry(q)' =>
                      registered_processes'[q] = <<>>
      BY DEF EntriesMatch
    <2> QED BY <1>0, <1>1, <1>4, <1>5 DEF EntriesMatch, HasEntry, Entries
  <1>7. KernelInv'
    <2>1. CASE kernel' = Idle BY <2>1 DEF KernelInv
    <2>2. CASE kernel' # Idle
      <3>1. kernel # Idle BY <1>3, <2>2
      <3>2. kernel.pc = "write" => kernel.pid \in Entries
        BY <1>0, <3>1 DEF KernelInv, HasEntry, Entries
      <3>3. kernel'.pc = "write" => kernel.pid \in Entries'
        BY <1>1, <1>3, <3>2
      <3>4. kernel.pc # "erase" /\ kernel.pid \in Entries' =>
                registered_processes'[kernel.pid] = <<>>
        BY <1>0, <1>1, <1>5, <3>1 DEF KernelInv, HasEntry, Entries
      <3>5. process_table'[kernel.pid] # NoProcess
        BY <1>0, <3>1 DEF KernelInv
      <3> QED BY <1>3, <3>3, <3>4, <3>5 DEF KernelInv, HasEntry, Entries
    <2> QED BY <2>1, <2>2
  <1>8. SteadyRun' BY <1>0, <1>1, <1>4 DEF SteadyRun
  <1>9. Entries' \subseteq Pids
        /\ \A q \in Entries' : registered_processes'[q] \in ProgramNames \cup {<<>>}
    BY <1>1, <1>2, <1>5
  <1> QED BY <1>1, <1>2, <1>3, <1>6, <1>7, <1>8, <1>9 DEF Entries

LEMMA EntryStep ==
  ASSUME IInv, (\E p \in Pids : EnterByName(p)) \/ AddOpen \/ deleteFile
  PROVE  IInv'
  <1>1. ASSUME NEW p \in Pids, EnterByName(p) PROVE IInv'
    <2>1. openFile(p) /\ UNCHANGED <<process_table, kernel, ps, printed, crashed>>
      BY <1>1 DEF EnterByName
    <2>2. KernelInv' /\ EntriesMatch' /\ SteadyRun' /\ TypeInv'
      BY <2>1, OpenKeeps DEF IInv, TypeInv, TypeOK, Idle
    <2>3. PsInv' BY <2>1, OpenEffect, PsWaits DEF IInv
    <2> QED BY <2>2, <2>3 DEF IInv
  <1>2. ASSUME AddOpen PROVE IInv'
    <2>1. PICK p \in Pids : kernel.pid = p
      BY <1>2, KernelBusy DEF AddOpen, IInv
    <2>2. /\ kernel.pc = "open" /\ openFile(p)
          /\ kernel' = [kernel EXCEPT !.pc = "write"]
          /\ UNCHANGED <<process_table, ps, printed, crashed>>
      BY <1>2, <2>1 DEF AddOpen
    <2>3. kernel' \in [pc : {"open", "write", "erase", "free"}, pid : Pids]
      BY <2>2, KernelBusy DEF IInv
    <2>4. KernelInv' /\ EntriesMatch' /\ SteadyRun' /\ TypeInv'
      BY <2>1, <2>2, <2>3, OpenKeeps DEF IInv, TypeInv, TypeOK, Idle
    <2>5. PsInv' BY <2>2, OpenEffect, PsWaits DEF IInv
    <2> QED BY <2>4, <2>5 DEF IInv
  <1>3. ASSUME deleteFile PROVE IInv'
    <2>1. PICK p \in Pids : kernel.pid = p /\ kernel # Idle
      BY <1>3, KernelBusy DEF deleteFile, IInv
    <2>2. /\ kernel.pc = "erase" /\ kernel' = [kernel EXCEPT !.pc = "free"]
          /\ UNCHANGED <<process_table, ps, printed, crashed>>
      BY <1>3 DEF deleteFile
    <2>3. kernel \in [pc : {"open", "write", "erase", "free"}, pid : Pids]
      BY <2>2, KernelBusy DEF IInv
    <2>4. kernel' = [pc |-> "free", pid |-> p] BY <2>1, <2>2, <2>3
    <2>5. /\ Entries' = Entries \ {p}
          /\ \A q \in Entries' : registered_processes'[q] = registered_processes[q]
          /\ steady' \subseteq steady /\ p \notin steady'
          /\ \A q \in steady' : Before(q)' = Before(q)
      BY <1>3, <2>1, EraseEffect DEF IInv
    <2>6. ~Running(p)' /\ \A q \in Pids \ {p} : Running(q)' = Running(q)
      BY <2>1, <2>2, <2>4 DEF Running
    <2>7. TypeInv'
      <3>1. TypeInv BY DEF IInv
      <3>2. /\ Entries' \subseteq Pids /\ steady' \subseteq Pids
            /\ \A q \in Entries' :
                  registered_processes'[q] \in ProgramNames \cup {<<>>}
        BY <2>5, <3>1 DEF TypeInv, TypeOK, Entries
      <3>3. kernel' \in [pc : {"open", "write", "erase", "free"}, pid : Pids]
        BY <2>4
      <3> QED BY <2>2, <3>1, <3>2, <3>3 DEF TypeInv, TypeOK, Entries
    <2>8. EntriesMatch'
      BY <2>2, <2>5, <2>6 DEF IInv, EntriesMatch, HasEntry, Entries
    <2>9. KernelInv'
      BY <2>1, <2>2, <2>4, <2>5 DEF IInv, KernelInv, HasEntry, Entries
    <2>10. SteadyRun'
      BY <2>5, <2>6 DEF IInv, TypeInv, TypeOK, SteadyRun
    <2>11. PsInv' BY <2>2, <2>5, PsWaits DEF IInv
    <2> QED BY <2>7, <2>8, <2>9, <2>10, <2>11 DEF IInv
  <1> QED BY <1>1, <1>2, <1>3
-----------------------------------------------------------------------------
(* The steps of ps.                                                         *)

(* The directory, the processes and the kernel are as before: that leaves   *)
(* what is said of ps.                                                      *)
LEMMA PsMoves ==
  ASSUME IInv, UNCHANGED <<registered_processes, process_table, kernel, steady>>
  PROVE  /\ KernelInv' /\ EntriesMatch' /\ SteadyRun'
         /\ \A q : Rank(q)' = Rank(q)
  <1>1. \A q : Running(q)' = Running(q) /\ HasEntry(q)' = HasEntry(q)
    BY DEF Running, HasEntry
  <1>2. KernelInv' /\ EntriesMatch' /\ SteadyRun'
    BY <1>1 DEF IInv, KernelInv, EntriesMatch, SteadyRun, HasEntry
  <1>3. \A q : Rank(q)' = Rank(q) BY DEF Rank, Before, Entries
  <1> QED BY <1>2, <1>3

LEMMA RootOpened ==
  ASSUME IInv, OpenRoot
  PROVE  IInv'
  <1>1. /\ ps' = [ps EXCEPT !.pc = "folder", !.position = 0] /\ printed' = <<>>
        /\ steady' = {p \in Pids : Running(p)}
        /\ UNCHANGED <<registered_processes, process_table, kernel, crashed>>
    BY DEF OpenRoot
  <1>2. /\ ps' \in [pc : {"done", "folder", "open", "read"}, position : Nat,
                    pid : Pids \cup {0}, read : Nat, line : Seq(STRING)]
        /\ ps'.pc = "folder" /\ ps'.position = 0
    BY <1>1 DEF IInv, TypeInv
  <1>3. <<>> \in Seq((Pids \cup {0}) \X Seq(STRING)) OBVIOUS
  <1>4. Cardinality(Pids) \in Nat BY FS_CardinalityType
  <1>5. TypeInv' BY <1>1, <1>2, <1>3, <1>4 DEF IInv, TypeInv, TypeOK
  <1>6. \A q : Running(q)' = Running(q) /\ HasEntry(q)' = HasEntry(q)
    BY <1>1 DEF Running, HasEntry
  <1>7. KernelInv' /\ EntriesMatch' /\ SteadyRun'
    BY <1>1, <1>6 DEF IInv, KernelInv, EntriesMatch, SteadyRun, HasEntry
  <1>8. ASSUME NEW q \in steady' PROVE ps'.position <= Rank(q)'
    <2>1. Rank(q) \in Nat BY RankBounds DEF IInv, TypeInv
    <2>2. Rank(q)' = Rank(q) BY <1>1 DEF Rank, Before, Entries
    <2> QED BY <1>2, <2>1, <2>2
  <1>9. ASSUME NEW q \in steady'
        PROVE  NotListed(q)' /\ ~Current(q)' /\ ~(ps'.position > Rank(q)')
    <2>1. Rank(q)' \in Nat
      BY <1>5, RankBounds, <1>1 DEF Rank, Before, Entries, IInv, TypeInv
    <2> QED BY <1>1, <1>2, <1>8, <2>1 DEF NotListed, Current
  <1>10. PsInv' BY <1>2, <1>9 DEF PsInv
  <1> QED BY <1>5, <1>7, <1>10 DEF IInv

LEMMA FolderRead ==
  ASSUME IInv, ReadFolder
  PROVE  IInv'
  <1>0. TypeInv /\ TypeOK /\ PsInv /\ SteadyRun /\ EntriesMatch
    BY DEF IInv, TypeInv
  <1>1. /\ ps.pc = "folder"
        /\ UNCHANGED <<registered_processes, process_table, kernel, printed, steady, crashed>>
    BY DEF ReadFolder
  <1>2. /\ ps \in [pc : {"done", "folder", "open", "read"}, position : Nat,
                   pid : Pids \cup {0}, read : Nat, line : Seq(STRING)]
        /\ ps.position \in Nat
    BY <1>0 DEF TypeInv
  <1>3. /\ Cardinality(Entries) \in Nat /\ Cardinality(Pids) \in Nat
        /\ Cardinality(Entries) <= Cardinality(Pids)
        /\ \A q : Rank(q) \in Nat
        /\ \A q \in Entries : Rank(q) < Cardinality(Entries)
    BY <1>0, RankBounds
  <1>4. KernelInv' /\ EntriesMatch' /\ SteadyRun' /\ \A q : Rank(q)' = Rank(q)
    BY <1>1, PsMoves
  <1>5. ASSUME NEW q \in steady PROVE q \in Entries
    BY <1>0 DEF SteadyRun, EntriesMatch, HasEntry, Entries, TypeOK
  <1>6. \A q : (NotListed(q)' <=> NotListed(q)) /\ (Listed(q)' <=> Listed(q))
    BY <1>1 DEF NotListed, Listed
  <1>7. CASE ps.position < Cardinality(Entries)
    <2> DEFINE p == PidAt(ps.position)
    <2>1. p \in Entries /\ Rank(p) = ps.position
      BY <1>0, <1>2, <1>7, PidAtPlace
    <2>2. p \in Pids BY <1>0, <2>1 DEF TypeOK, Entries
    <2>3. ps' = [ps EXCEPT !.pc = "open", !.pid = p, !.position = @ + 1]
      BY <1>7 DEF ReadFolder, Entries
    <2> HIDE DEF p
    <2>4. /\ ps' \in [pc : {"done", "folder", "open", "read"}, position : Nat,
                      pid : Pids \cup {0}, read : Nat, line : Seq(STRING)]
          /\ ps'.pc = "open" /\ ps'.pid = p /\ ps'.position = ps.position + 1
      <3>1. ps' = [pc |-> "open", position |-> ps.position + 1, pid |-> p,
                   read |-> ps.read, line |-> ps.line]
        BY <1>2, <2>3
      <3>2. ps.read \in Nat /\ ps.line \in Seq(STRING) BY <1>2
      <3> QED BY <1>2, <2>2, <3>1, <3>2
    <2>5. TypeInv'
      BY <1>0, <1>1, <1>2, <1>3, <1>7, <2>2, <2>4 DEF TypeInv, TypeOK
    <2>6. PsInv'
      <3> SUFFICES ASSUME NEW q \in steady
          PROVE  /\ ps'.position <= Rank(q) => NotListed(q) /\ p # q
                 /\ ps'.position > Rank(q) => IF p = q THEN NotListed(q) ELSE Listed(q)
        BY <1>1, <1>4, <1>6, <2>4 DEF PsInv, Current, AllOrNothing
      <3>1. ~Current(q) BY <1>1 DEF Current
      <3>2. ps.position <= Rank(q) => NotListed(q) BY <1>0, <1>1 DEF PsInv
      <3>3. ps.position > Rank(q) => Listed(q) BY <1>0, <1>1, <3>1 DEF PsInv
      <3>4. Rank(q) = Rank(p) => p = q BY <1>0, <1>5, <2>1, RankDistinct
      <3> QED BY <1>2, <1>3, <2>1, <2>4, <3>2, <3>3, <3>4
    <2> QED BY <1>4, <2>5, <2>6 DEF IInv
  <1>8. CASE ~(ps.position < Cardinality(Entries))
    <2>1. ps' = [ps EXCEPT !.pc = "done", !.pid = 0, !.read = 0, !.line = <<>>]
      BY <1>8 DEF ReadFolder, Entries
    <2>2. /\ ps' \in [pc : {"done", "folder", "open", "read"}, position : Nat,
                      pid : Pids \cup {0}, read : Nat, line : Seq(STRING)]
          /\ ps'.pc = "done" /\ ps'.position = ps.position
      <3>1. ps' = [pc |-> "done", position |-> ps.position, pid |-> 0,
                   read |-> 0, line |-> <<>>]
        BY <1>2, <2>1
      <3>2. <<>> \in Seq(STRING) OBVIOUS
      <3> QED BY <1>2, <3>1, <3>2
    <2>3. TypeInv' BY <1>0, <1>1, <2>2 DEF TypeInv, TypeOK
    <2>4. ASSUME NEW q \in steady PROVE Listed(q)
      <3>1. ~Current(q) /\ ps.position > Rank(q)
        BY <1>1, <1>2, <1>3, <1>5, <1>8 DEF Current
      <3> QED BY <1>0, <1>1, <3>1 DEF PsInv
    <2>5. PsInv' BY <1>1, <1>6, <2>2, <2>4 DEF PsInv
    <2> QED BY <1>4, <2>3, <2>5 DEF IInv
  <1> QED BY <1>7, <1>8

LEMMA EntryOpened ==
  ASSUME IInv, OpenEntry
  PROVE  IInv'
  <1>1. PICK p \in Pids : p = ps.pid BY DEF OpenEntry, IInv, TypeInv
  <1>2. /\ ps.pc = "open" /\ openFile(p)
        /\ ps' = [ps EXCEPT !.pc = "read", !.read = 0, !.line = <<>>]
        /\ UNCHANGED <<process_table, kernel, printed, crashed>>
    BY <1>1 DEF OpenEntry, Opened
  <1>3. /\ ps' \in [pc : {"done", "folder", "open", "read"}, position : Nat,
                    pid : Pids \cup {0}, read : Nat, line : Seq(STRING)]
        /\ ps'.pc = "read" /\ ps'.pid = p /\ ps'.position = ps.position
        /\ ps'.read = 0 /\ ps'.line = <<>>
    <2>1. ps \in [pc : {"done", "folder", "open", "read"}, position : Nat,
                  pid : Pids \cup {0}, read : Nat, line : Seq(STRING)]
      BY DEF IInv, TypeInv
    <2>2. ps' = [pc |-> "read", position |-> ps.position, pid |-> p,
                 read |-> 0, line |-> <<>>]
      BY <1>1, <1>2, <2>1
    <2>3. <<>> \in Seq(STRING) OBVIOUS
    <2> QED BY <2>1, <2>2, <2>3
  <1>4. KernelInv' /\ EntriesMatch' /\ SteadyRun' BY <1>2, OpenKeeps
  <1>5. TypeInv'
    <2>1. /\ DOMAIN registered_processes' \subseteq Pids /\ steady' \subseteq Pids
          /\ \A q \in DOMAIN registered_processes' :
                registered_processes'[q] \in ProgramNames \cup {<<>>}
      BY <1>2, OpenKeeps
    <2>2. ps.position \in 0..Cardinality(Pids) BY DEF IInv, TypeInv, TypeOK
    <2>3. ps'.read = Len(ps'.line) BY <1>3
    <2> QED BY <1>2, <1>3, <2>1, <2>2, <2>3 DEF IInv, TypeInv, TypeOK
  <1>6. /\ steady' \subseteq steady
        /\ \A q \in steady' : Rank(q)' = Rank(q)
    BY <1>2, OpenEffect DEF IInv, Rank
  <1>7. ASSUME NEW q \in steady'
        PROVE  /\ NotListed(q)' <=> NotListed(q)
               /\ Listed(q)' <=> Listed(q)
               /\ Current(q)' <=> Current(q)
               /\ AllOrNothing(q)'
    BY <1>1, <1>2, <1>3 DEF NotListed, Listed, Current, AllOrNothing
  <1>8. PsInv' BY <1>2, <1>3, <1>6, <1>7 DEF IInv, PsInv
  <1> QED BY <1>4, <1>5, <1>8 DEF IInv

(* A call that reads of the name what is left of it.                        *)
LEMMA NameRead ==
  ASSUME IInv, ps.pc = "read", HasEntry(ps.pid), ps.read < Len(Name), ps' = AfterRead,
         UNCHANGED <<registered_processes, process_table, kernel, printed, steady>>
  PROVE  IInv'
  <1> DEFINE name == Name
             rest == SubSeq(name, ps.read + 1, Len(name))
  <1>0. TypeInv /\ TypeOK /\ PsInv /\ SteadyRun /\ EntriesMatch
    BY DEF IInv, TypeInv
  <1>1. /\ ps \in [pc : {"done", "folder", "open", "read"}, position : Nat,
                   pid : Pids \cup {0}, read : Nat, line : Seq(STRING)]
        /\ ps.read \in Nat /\ ps.line \in Seq(STRING) /\ ps.read = Len(ps.line)
        /\ ps.pid \in Pids
    BY <1>0 DEF TypeInv, TypeOK
  <1>2. name \in Seq(STRING) /\ Len(name) \in Nat
    <2>1. name \in ProgramNames \cup {<<>>} BY <1>0 DEF TypeOK, HasEntry, Name
    <2>2. <<>> \in Seq(STRING) OBVIOUS
    <2>3. name \in Seq(STRING) BY <2>1, <2>2
    <2> QED BY <2>3, LenProperties
  <1>3. ps' = [pc |-> "read", position |-> ps.position, pid |-> ps.pid,
               read |-> Len(name), line |-> ps.line \o rest]
    BY <1>1 DEF AfterRead
  <1>4. ps.read < Len(name) OBVIOUS
  <1>5. ASSUME NEW q \in steady, ps.pid = q PROVE process_table[q] = name
    BY <1>0, <1>5 DEF SteadyRun, EntriesMatch, TypeOK, Name
  <1> HIDE DEF name
  <1>6. rest \in Seq(STRING) /\ Len(rest) = Len(name) - ps.read
    <2>1. /\ ps.read + 1 \in Int /\ Len(name) \in Int
          /\ \A i \in (ps.read + 1)..Len(name) : name[i] \in STRING
      BY <1>1, <1>2, ElementOfSeq
    <2>2. rest \in Seq(STRING)
          /\ Len(rest) = IF ps.read + 1 <= Len(name)
                         THEN Len(name) - (ps.read + 1) + 1 ELSE 0
      BY <2>1, SubSeqProperties
    <2> QED BY <1>1, <1>2, <1>4, <2>2
  <1> HIDE DEF rest
  <1>7. ps.line \o rest \in Seq(STRING) /\ Len(ps.line \o rest) = Len(name)
    <2>1. Len(ps.line \o rest) = Len(ps.line) + Len(rest) /\ ps.line \o rest \in Seq(STRING)
      BY <1>1, <1>6, ConcatProperties
    <2> QED BY <1>1, <1>2, <1>6, <2>1
  <1>8. /\ ps' \in [pc : {"done", "folder", "open", "read"}, position : Nat,
                    pid : Pids \cup {0}, read : Nat, line : Seq(STRING)]
        /\ ps'.pc = "read" /\ ps'.read = Len(ps'.line) /\ ps'.pid = ps.pid
        /\ ps'.position = ps.position /\ ps'.line = ps.line \o rest
    BY <1>1, <1>2, <1>3, <1>7
  <1>9. TypeInv' BY <1>0, <1>1, <1>8 DEF TypeInv, TypeOK
  <1>10. KernelInv' /\ EntriesMatch' /\ SteadyRun' /\ \A q : Rank(q)' = Rank(q)
    BY PsMoves
  <1>11. ASSUME NEW q \in steady, Current(q), AllOrNothing(q)
         PROVE  AllOrNothing(q)'
    <2>1. process_table[q] = name BY <1>5, <1>11 DEF Current
    <2>2. ps.line # name BY <1>1, <1>2, <1>4
    <2>3. ps.read = 0 /\ ps.line = <<>> BY <1>11, <2>1, <2>2 DEF AllOrNothing
    <2>4. rest = name
      BY <1>2, <2>3, SubSeqFull DEF rest
    <2>5. ps'.line = name BY <1>2, <1>8, <2>3, <2>4, ConcatEmptySeq
    <2> QED BY <2>1, <2>5 DEF AllOrNothing
  <1>12. \A q : /\ NotListed(q)' <=> NotListed(q)
                /\ Listed(q)' <=> Listed(q)
                /\ Current(q)' <=> Current(q)
    BY <1>8 DEF NotListed, Listed, Current
  <1>13. PsInv' BY <1>0, <1>8, <1>10, <1>11, <1>12 DEF PsInv
  <1> QED BY <1>9, <1>10, <1>13 DEF IInv

(* The call that fails, upon which ps prints its line.                      *)
LEMMA LinePrinted ==
  ASSUME IInv, ps.pc = "read", HasEntry(ps.pid) => ps.read = Len(Name),
         printed' = Append(printed, <<ps.pid, ps.line>>),
         ps' = [ps EXCEPT !.pc = "folder"],
         UNCHANGED <<registered_processes, process_table, kernel, steady>>
  PROVE  IInv'
  <1>0. TypeInv /\ TypeOK /\ PsInv /\ SteadyRun /\ EntriesMatch
    BY DEF IInv, TypeInv
  <1>1. /\ ps \in [pc : {"done", "folder", "open", "read"}, position : Nat,
                   pid : Pids \cup {0}, read : Nat, line : Seq(STRING)]
        /\ ps.line \in Seq(STRING) /\ ps.pid \in Pids
    BY <1>0 DEF TypeInv
  <1>2. /\ ps' \in [pc : {"done", "folder", "open", "read"}, position : Nat,
                    pid : Pids \cup {0}, read : Nat, line : Seq(STRING)]
        /\ ps'.pc = "folder" /\ ps'.position = ps.position
    BY <1>1
  <1> DEFINE Line == <<ps.pid, ps.line>>
             LineSet == (Pids \cup {0}) \X Seq(STRING)
  <1>3. Line \in LineSet /\ Line[1] = ps.pid BY <1>1
  <1>4. printed \in Seq(LineSet) BY <1>0 DEF TypeInv
  <1> DEFINE n == Len(printed)
  <1>5. printed' = Append(printed, Line) OBVIOUS
  <1> HIDE DEF Line, LineSet
  <1>6. /\ n \in Nat /\ DOMAIN printed = 1..n
        /\ printed' \in Seq(LineSet) /\ DOMAIN printed' = 1..(n + 1)
        /\ \A i \in 1..n : printed'[i] = printed[i]
        /\ printed'[n + 1] = Line
    BY <1>3, <1>4, <1>5, AppendProperties, LenProperties
  <1>7. TypeInv'
    BY <1>0, <1>1, <1>2, <1>6 DEF TypeInv, TypeOK, LineSet
  <1>8. KernelInv' /\ EntriesMatch' /\ SteadyRun' /\ \A q : Rank(q)' = Rank(q)
    BY PsMoves
  <1> HIDE DEF n
  <1>9. ASSUME NEW q \in steady, Current(q), NotListed(q), AllOrNothing(q)
        PROVE  Listed(q)'
    <2>1. q = ps.pid BY <1>9 DEF Current
    <2>2. /\ HasEntry(q) /\ registered_processes[q] = process_table[q]
          /\ process_table[q] # NoProcess
      BY <1>0 DEF SteadyRun, EntriesMatch, TypeOK, Running
    <2>3. process_table[q] \in Seq(STRING) /\ Len(process_table[q]) # 0
      <3>1. process_table[q] \in ProgramNames BY <1>0, <2>2 DEF TypeOK
      <3>2. process_table[q] \in Seq(STRING) /\ process_table[q] # <<>> BY <3>1
      <3> QED BY <3>2, EmptySeq
    <2>4. ps.read = Len(process_table[q]) BY <2>1, <2>2 DEF Name
    <2>5. ps.line = process_table[q] BY <1>9, <2>3, <2>4 DEF AllOrNothing
    <2>6. printed'[n + 1] = <<q, process_table'[q]>> BY <1>6, <2>1, <2>5 DEF Line
    <2>7. ASSUME NEW j \in 1..(n + 1), printed'[j][1] = q PROVE j = n + 1
      <3>1. CASE j \in 1..n BY <1>6, <1>9, <2>7, <3>1 DEF NotListed
      <3> QED BY <1>6, <3>1
    <2>8. n + 1 \in DOMAIN printed' BY <1>6
    <2> QED BY <1>6, <2>6, <2>7, <2>8 DEF Listed
  <1>10. ASSUME NEW q \in steady, ~Current(q)
         PROVE  (NotListed(q) => NotListed(q)') /\ (Listed(q) => Listed(q)')
    <2>1. printed'[n + 1][1] # q BY <1>3, <1>6, <1>10 DEF Current
    <2>2. \A j \in DOMAIN printed' : j \in DOMAIN printed \/ j = n + 1 BY <1>6
    <2>3. \A j \in DOMAIN printed : j \in DOMAIN printed' /\ printed'[j] = printed[j]
      BY <1>6
    <2> QED BY <2>1, <2>2, <2>3 DEF NotListed, Listed
  <1>11. ASSUME NEW q \in steady
         PROVE  /\ ps.position <= Rank(q) => NotListed(q)'
                /\ ps.position > Rank(q) => Listed(q)'
    BY <1>0, <1>9, <1>10 DEF PsInv
  <1>12. PsInv' BY <1>2, <1>8, <1>11 DEF PsInv, Current
  <1> QED BY <1>7, <1>8, <1>12 DEF IInv

LEMMA PsReads ==
  ASSUME IInv, ReadName \/ MapRace
  PROVE  IInv'
  <1>1. CASE ReadName
    <2>1. /\ ps.pc = "read"
          /\ UNCHANGED <<registered_processes, process_table, kernel, steady>>
      BY <1>1 DEF ReadName
    <2>2. CASE HasEntry(ps.pid) /\ ps.read < Len(Name) /\ ps' = AfterRead
               /\ UNCHANGED <<printed, crashed>>
      BY <2>1, <2>2, NameRead
    <2>3. CASE /\ HasEntry(ps.pid) => ps.read = Len(Name)
               /\ printed' = Append(printed, <<ps.pid, ps.line>>)
               /\ ps' = [ps EXCEPT !.pc = "folder"]
      BY <2>1, <2>3, LinePrinted
    <2>4. CASE UNCHANGED <<ps, printed>>
      BY <2>1, <2>4, PsMoves, PsWaits DEF IInv, TypeInv, TypeOK, Before, Entries
    <2> QED BY <1>1, <2>2, <2>3, <2>4 DEF ReadName
  <1>2. CASE MapRace
    <2>1. UNCHANGED <<registered_processes, process_table, kernel, ps, printed, steady>>
      BY <1>2 DEF MapRace
    <2> QED BY <2>1, PsMoves, PsWaits DEF IInv, TypeInv, TypeOK, Before, Entries
  <1> QED BY <1>1, <1>2
-----------------------------------------------------------------------------
LEMMA StepPreserves == IInv /\ [Next]_vars => IInv'
  <1> SUFFICES ASSUME IInv, [Next]_vars PROVE IInv' OBVIOUS
  <1>1. CASE UNCHANGED vars
    BY <1>1, PsMoves, PsWaits DEF vars, IInv, TypeInv, TypeOK, Before, Entries
  <1>2. CASE PsStep
    BY <1>2, FolderRead, EntryOpened, PsReads DEF PsStep
  <1>3. CASE Next /\ ~PsStep
    BY <1>3, KernelStep, EntryStep, RootOpened, PsReads DEF Next
  <1> QED BY <1>1, <1>2, <1>3

(* proc_fs.cpp, ps.cpp: the map holds names of programs or nothing, for     *)
(* slots of the process table only, and what ps has read of a file is what  *)
(* it has put on the line.                                                  *)
THEOREM ProcfsTypeCorrect == Spec => []TypeOK
  <1>1. IInv => TypeOK BY DEF IInv, TypeInv
  <1> QED BY <1>1, InitEstablishes, StepPreserves, PTL DEF Spec

(* openFile, writeBytes and deleteFile: whoever looks at procfs at whatever *)
(* moment, the entry of a running process shows its program, and an entry   *)
(* without a process no name.                                               *)
THEOREM EntriesAreRight == Spec => []EntriesMatch
  <1>1. IInv => EntriesMatch BY DEF IInv
  <1> QED BY <1>1, InitEstablishes, StepPreserves, PTL DEF Spec

(* ps.cpp:29-63: counting through a directory that changes, ps still lists  *)
(* a process exactly once and by its name if it ran all the time and no     *)
(* entry before its own came or went.                                       *)
THEOREM LastingAreListed == Spec => []PsListsLasting
  <1>1. IInv => PsListsLasting
    BY DEF IInv, PsInv, PsListsLasting, Listed
  <1> QED BY <1>1, InitEstablishes, StepPreserves, PTL DEF Spec
=============================================================================
