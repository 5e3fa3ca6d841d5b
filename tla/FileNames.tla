----------------------------- MODULE FileNames -----------------------------
(***************************************************************************)
(* From the path a user types to the place it names: the working           *)
(* directory, the drives of the VFS, and the programs that create and      *)
(* remove directories. cd, md and rd look at the disk in one system call   *)
(* and change something in a later one, and the programs of a pipeline run *)
(* at the same time. The RAM disk is the abstract DirectoryTree.           *)
(***************************************************************************)
EXTENDS Paths

CONSTANTS Slots,        \* user programs that run at the same time
          CdPaths,      \* paths that users give to cd,
          TypedPaths,   \* and to md, rd and a redirection
          AllPaths,     \* paths whose normalisation is checked
          MaxDepth      \* bound of the model: names in a path of the disk

Disk == "C:"
Mounted == {Disk, "stdio:", "pipe:", "procfs:"}

ASSUME NamesAssumption ==
    /\ IsFiniteSet(Slots) /\ MaxDepth \in Nat
    /\ Mounted \subseteq Labels
    /\ CdPaths \cup TypedPaths \cup AllPaths \subseteq Seq(Tokens)

ASSUME TypedAssumption == \A path \in CdPaths \cup AllPaths : WellFormed(path)

VARIABLES
    tree,               \* the disk C:, see DirectoryTree
    working_directory,  \* of the shell
    cd,                 \* the path of a cd that has found its directory, or <<>>
    programs,           \* slot -> [command, pc, at]
    there,              \* slot -> the places there ever since its first look
    crashed             \* the kernel has followed a null pointer

Dir == INSTANCE DirectoryTree

vars == <<tree, working_directory, cd, programs, there, crashed>>

NoProgram == [command |-> "md", pc |-> "none", at |-> Dir!Root]

Init ==
    /\ tree = Dir!EmptyTree
    /\ working_directory = <<Disk, pathSeparator>>
    /\ cd = <<>>
    /\ programs = [s \in Slots |-> NoProgram]
    /\ there = [s \in Slots |-> {}]
    /\ crashed = FALSE

\* Bound of the model: the places of the disk that programs name.
DiskPlaces == UNION {[1..n -> FileNames \cup Labels] : n \in 0..MaxDepth}

Target(path) == PlaceOf(normalizePath(working_directory, path))

(* resolveSuperblock and the drivers' openFile for a directory that must    *)
(* exist: an unknown label leaves a null superblock, and fs_pipe has no     *)
(* openFile; the slots of stdio are taken by init, and procfs opens what it *)
(* is asked for, process or not.                                            *)
FollowsNull(label) == label \notin {Disk, "stdio:", "procfs:"}

directoryExists(place) ==
    \/ place.label = Disk /\ Dir!IsDir(tree, place.names)
    \/ place.label = "procfs:"

(* createFile without fmOpen_Always: the trees it may leave behind, a full  *)
(* disk included.                                                           *)
AfterCreate(at, kind) ==
    IF Dir!Creatable(tree, at)
    THEN {tree, Dir!Created(tree, at, kind)} \cup
         {Dir!Created(tree, p, "dir") : p \in Dir!Ancestors(at) \ DOMAIN tree}
    ELSE IF kind = "dir" /\ Dir!IsDir(tree, at) THEN {Dir!Cleared(tree, at)}
    ELSE {tree}
-----------------------------------------------------------------------------
(* setWorkDir: the directory is looked up by its normalised path, then that *)
(* path becomes the working directory.                                      *)
LookUpDirectory(typed) ==
    LET path == normalizePath(working_directory, typed)
    IN  /\ cd = <<>>
        /\ Len(PlaceOf(path).names) <= MaxDepth
        /\ \/ /\ FollowsNull(PlaceOf(path).label)
              /\ crashed' = TRUE
              /\ UNCHANGED cd
           \/ /\ directoryExists(Target(path))
              /\ cd' = path
              /\ UNCHANGED crashed
        /\ UNCHANGED <<tree, working_directory, programs, there>>

\* mutant: the path is kept with a separator at its end
ChangeToUnclean ==
    /\ cd # <<>>
    /\ working_directory' = Append(cd, pathSeparator)
    /\ cd' = <<>>
    /\ UNCHANGED <<tree, programs, there, crashed>>

changeWorkingDir ==
    /\ cd # <<>>
    /\ working_directory' = cd
    /\ cd' = <<>>
    /\ UNCHANGED <<tree, programs, there, crashed>>

(* A redirection of the shell's: the file is there and empty afterwards, if *)
(* it can be.                                                               *)
Redirect(typed) ==
    /\ cd = <<>>
    /\ Target(typed).label = Disk /\ Target(typed).names \in DiskPlaces
    /\ tree' \in AfterCreate(Target(typed).names, "file")
    /\ there' = [s \in Slots |-> there[s] \cap DOMAIN tree']
    /\ UNCHANGED <<working_directory, cd, programs, crashed>>
-----------------------------------------------------------------------------
(* A program inherits the shell's working directory and keeps it, so that   *)
(* it names the same place in all its calls. Nobody removes the root.       *)
StartProgram(s, command, typed) ==
    /\ programs[s].pc = "none" /\ cd = <<>>
    /\ Target(typed).label = Disk
    /\ Target(typed).names \in DiskPlaces \ {Dir!Root}
    /\ programs' = [programs EXCEPT ![s] =
           [command |-> command, pc |-> "look", at |-> Target(typed).names]]
    /\ UNCHANGED <<tree, working_directory, cd, there, crashed>>

\* Program s goes on at pc, or is done.
Proceed(s, pc) ==
    /\ programs' = [programs EXCEPT ![s] = IF pc = "none" THEN NoProgram
                                           ELSE [@ EXCEPT !.pc = pc]]
    /\ UNCHANGED <<working_directory, cd, crashed>>

\* What the opening with fmOpen_Always tells the program.
AfterLook(s) ==
    LET found == Dir!IsDir(tree, programs[s].at)
    IN  IF programs[s].command = "md" THEN IF found THEN "none" ELSE "create"
        ELSE IF found THEN "read" ELSE "none"

Look(s) ==
    /\ programs[s].pc = "look"
    /\ Proceed(s, AfterLook(s))
    /\ there' = [there EXCEPT ![s] = IF AfterLook(s) = "none" THEN {} ELSE DOMAIN tree]
    /\ UNCHANGED tree

\* mutant: rd goes on whatever it has read
EmptyOrNot(s, empty) == TRUE

MayDelete(s, empty) == empty \/ programs[s].command = "rd /S"

(* rd reads the first entry of the directory it has opened. If that has     *)
(* been removed meanwhile its inode may be anything. The user may say no.   *)
ReadFirstEntry(s) ==
    LET at == programs[s].at
    IN  /\ programs[s].pc = "read"
        /\ \E empty \in BOOLEAN :
              /\ at \in there[s] => empty = (Dir!Below(tree, at) = {})
              /\ \/ MayDelete(s, empty) /\ Proceed(s, "delete")
                 \/ Proceed(s, "none")
        /\ there' = [there EXCEPT ![s] = IF programs'[s].pc = "none" THEN {} ELSE @]
        /\ UNCHANGED tree

\* The last call of a program: the disk becomes one of trees.
Change(s, trees) ==
    /\ tree' \in trees
    /\ Proceed(s, "none")
    /\ there' = [t \in Slots |-> IF t = s THEN {} ELSE there[t] \cap DOMAIN tree']

MakeDirectory(s) ==
    /\ programs[s].pc = "create"
    /\ Change(s, AfterCreate(programs[s].at, "dir"))

DeleteDirectory(s) ==
    /\ programs[s].pc = "delete"
    /\ Change(s, {Dir!Deleted(tree, programs[s].at)})
-----------------------------------------------------------------------------
ProgramStep(s) ==
    \/ Look(s) \/ ReadFirstEntry(s) \/ MakeDirectory(s) \/ DeleteDirectory(s)

Next ==
    /\ ~crashed
    /\ \/ \E typed \in CdPaths : LookUpDirectory(typed)
       \/ changeWorkingDir
       \/ \E typed \in TypedPaths : Redirect(typed)
       \/ \E s \in Slots, command \in {"md", "rd", "rd /S"}, typed \in TypedPaths :
              StartProgram(s, command, typed)
       \/ \E s \in Slots : ProgramStep(s)

Spec == Init /\ [][Next]_vars
-----------------------------------------------------------------------------
Places == [label : {Disk, "procfs:"}, names : Seq(FileNames \cup Labels)]

(* Type invariant; the working directory is always a normalised path on a   *)
(* drive that has directories, so that a relative path never meets the null *)
(* superblock of an unknown one ("assumes workdir always has system label", *)
(* VFS_paths.cpp:50), and what is there has its directory.                  *)
TypeOK ==
    /\ \A path \in DOMAIN tree :
          path # Dir!Root => Dir!IsDir(tree, Front(path))
    /\ \A path \in {working_directory, cd} \ {<<>>} :
          PlaceOf(path) \in Places /\ path = PathOf(PlaceOf(path))
    /\ \A s \in Slots :
          /\ programs[s].pc \in {"none", "look", "create", "read", "delete"}
          /\ there[s] \subseteq DOMAIN tree

(* Whatever the working directory, a path leads where its meaning says: the *)
(* in-place rewriting of removeDots loses no name, never climbs over the    *)
(* root and leaves neither dots nor doubled separators; and a path that has *)
(* been normalised once stays as it is, which setWorkDir relies on when it  *)
(* looks up what it has normalised (io.cpp:223). None of this depends on    *)
(* what is on the disk, so one tree is enough.                              *)
NormalizeMeetsReference ==
    tree = Dir!EmptyTree /\ cd = <<>> /\ (\A s \in Slots : programs[s] = NoProgram) =>
        \A typed \in AllPaths :
            LET path == normalizePath(working_directory, typed)
            IN  /\ path = PathOf(Meaning(PlaceOf(working_directory), typed))
                /\ path = normalizePath(working_directory, path)

(* md, and rd without /S, look first and act later (md.cpp:15-25,           *)
(* rd.cpp:72-93). What is lost by their act is the directory they were told *)
(* to remove, or came after their look: never a place that was there all    *)
(* the time.                                                                *)
KeepsWhatWasThere ==
    [][\A s \in Slots :
          programs[s].command # "rd /S" /\ programs[s].pc \in {"create", "delete"}
              /\ programs'[s].pc = "none" =>
                  (DOMAIN tree \ DOMAIN tree') \cap there[s] \subseteq {programs[s].at}]_vars
=============================================================================
