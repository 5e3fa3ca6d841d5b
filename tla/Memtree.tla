------------------------------ MODULE Memtree ------------------------------
(***************************************************************************)
(* The RAM disk driver, src/src/kernel/memtree/fs_mem_tree.cpp, over the   *)
(* inodes of MemtreeNodes: files and directories are opened, created,      *)
(* read, written, cut and deleted through any number of descriptors. The   *)
(* driver takes no lock; the model runs one call after another.            *)
(***************************************************************************)
EXTENDS MemtreeNodes, TLC, SequencesExt

CONSTANTS Fds,        \* descriptors of the VFS that can be open on the disk
          MaxDepth,   \* bound of the model: names in a path
          MaxWrite,   \* bound of the model: cells of one write
          Liberties   \* what programs permit themselves

AllLiberties ==
    {"delete full directories",  \* a directory is deleted with what is in it
     "recreate directories",     \* one that exists is created again
     "delete open files",        \* a file is deleted while it is open
     "delete the root"}

ASSUME DriverAssumption ==
    /\ IsFiniteSet(Fds)
    /\ MaxDepth \in Nat /\ MaxWrite \in Nat \ {0}
    /\ Liberties \subseteq AllLiberties

VARIABLES fs,         \* the disk
          files,      \* fd -> [inode, position, dir], or Closed
          crashed     \* the driver has read outside its memory

vars == <<fs, files, crashed>>

Closed == [inode |-> invalidNode, position |-> 0, dir |-> FALSE]
Open(fd) == files[fd] # Closed
Paths == UNION {[1..k -> Names] : k \in 0..MaxDepth}
createDescriptor(node, dir) == [inode |-> node, position |-> 0, dir |-> dir]

Init ==
    /\ fs = EmptyDisk
    /\ files = [fd \in Fds |-> Closed]
    /\ crashed = FALSE

Crash == crashed' = TRUE /\ UNCHANGED <<fs, files>>
-----------------------------------------------------------------------------
(* resolveFile: walks to the directory of the last name, creating those     *)
(* that are missing if asked to, and looks the name up there. The parent is *)
(* invalidNode when the path leads nowhere, Wild when the walk left the     *)
(* memory of the disk.                                                      *)
Follow(at, name, create) ==
    LET found == findInDirectory(at.fs, at.parent, name)
        made == createFile(at.fs, at.parent, name, TRUE)
    IN  IF at.parent \in {Wild, invalidNode} THEN at
        ELSE IF found = invalidNode /\ create
             THEN [fs |-> made.fs, parent |-> made.node]
        ELSE [fs |-> at.fs, parent |-> found]

Walk(disk, path, create) ==
    LET after[k \in 0..(Len(path) - 1)] ==
            IF k = 0 THEN [fs |-> disk, parent |-> rootNode]
            ELSE Follow(after[k - 1], path[k], create)
    IN  after[Len(path) - 1]

LookUp(at, name) ==
    [fs |-> at.fs, parent |-> at.parent,
     file |-> IF at.parent \in {Wild, invalidNode} THEN at.parent
              ELSE findInDirectory(at.fs, at.parent, name)]

resolveFile(disk, path, create) ==
    IF path = <<>>
    THEN [fs |-> disk, parent |-> rootNode, file |-> rootNode]
    ELSE LookUp(Walk(disk, path, create), path[Len(path)])

\* mutant: what is found is opened whatever its kind
typeIgnored(disk, n, dir) == TRUE

fileTypeMatches(disk, n, dir) == dir = isDirectory(disk, n)

OpenFile(fd, path, createNew, dir) ==
    LET open(n) == files' = [files EXCEPT ![fd] = createDescriptor(n, dir)]
    IN  \E r \in {resolveFile(fs, path, createNew)} :
        /\ ~Open(fd)
        /\ \/ /\ r.file = Wild /\ Crash
           \/ /\ r.file \in Nodes /\ fileTypeMatches(r.fs, r.file, dir)
              /\ createNew /\ dir => "recreate directories" \in Liberties
              /\ open(r.file)
              /\ fs' = IF createNew THEN setSize(r.fs, r.file, 0) ELSE r.fs
              /\ UNCHANGED crashed
           \/ /\ r.file \in Nodes /\ ~fileTypeMatches(r.fs, r.file, dir)
              /\ fs' = r.fs
              /\ UNCHANGED <<files, crashed>>
           \/ /\ r.file = invalidNode /\ r.parent \in Nodes /\ createNew
              /\ \E made \in {createFile(r.fs, r.parent, path[Len(path)], dir)} :
                    /\ fs' = made.fs
                    /\ IF made.node = invalidNode THEN UNCHANGED files
                       ELSE open(made.node)
              /\ UNCHANGED crashed
           \/ /\ r.file = invalidNode /\ ~(r.parent \in Nodes /\ createNew)
              /\ fs' = r.fs
              /\ UNCHANGED <<files, crashed>>

\* The VFS clears the descriptor; the driver has no handler of its own.
CloseFile(fd) ==
    /\ Open(fd)
    /\ files' = [files EXCEPT ![fd] = Closed]
    /\ UNCHANGED <<fs, crashed>>

\* What programs take care of before they delete a file.
MayDelete(n) ==
    /\ n = rootNode => "delete the root" \in Liberties
    /\ isDirectory(fs, n) /\ fs.inodes[n].size > 0 =>
           "delete full directories" \in Liberties
    /\ "delete open files" \in Liberties
         \/ ~\E fd \in Fds : Open(fd) /\ files[fd].inode \in deletedNodes(fs, n)

DeleteFile(path) ==
    \E r \in {resolveFile(fs, path, FALSE)} :
        \/ /\ r.file = Wild /\ Crash
        \/ /\ r.file \in Nodes /\ ~canDelete(fs, r.parent, r.file) /\ Crash
        \/ /\ r.file \in Nodes /\ canDelete(fs, r.parent, r.file)
           /\ MayDelete(r.file)
           /\ fs' = deleteFile(fs, r.parent, r.file)
           /\ UNCHANGED <<files, crashed>>
-----------------------------------------------------------------------------
Smaller(a, b) == IF a < b THEN a ELSE b

(* read: bytes of a file or entries of a directory, as many as there are.   *)
Read(fd, length) ==
    LET n == files[fd].inode
        from == files[fd].position
        to == IF isValidNode(fs, n) THEN Smaller(from + length, fs.inodes[n].size)
              ELSE from
        lost == \E i \in from..(to - 1) : Cell(fs, n, i) = Wild
    IN  /\ Open(fd)
        /\ files[fd].dir => isDirectory(fs, n)
        /\ \/ lost /\ Crash
           \/ /\ ~lost /\ to > from
              /\ files' = [files EXCEPT ![fd].position = to]
              /\ UNCHANGED <<fs, crashed>>

(* writeBytes. That the descriptor is a file's is asked of the programs: the *)
(* driver does not look, and none of user.dll writes to a directory.        *)
Write(fd, cells) ==
    /\ Open(fd) /\ ~files[fd].dir
    /\ isValidNode(fs, files[fd].inode)
    /\ \E w \in {writeNode(fs, files[fd].inode, cells, files[fd].position)} :
          /\ fs' = w.fs
          /\ files' = [files EXCEPT ![fd].position = @ + w.written]
    /\ UNCHANGED crashed

(* setPos, whatever the position is counted from: it moves only within the  *)
(* size, and can make the new position the size, which programs do of files *)
(* only; the driver does not look here either.                              *)
SetPos(fd, position, setType) ==
    /\ Open(fd)
    /\ setType => ~files[fd].dir
    /\ isValidNode(fs, files[fd].inode)
    /\ position <= fs.inodes[files[fd].inode].size
    /\ files' = [files EXCEPT ![fd].position = position]
    /\ fs' = IF setType THEN setSize(fs, files[fd].inode, position) ELSE fs
    /\ UNCHANGED crashed

Running == ~crashed

Next ==
    /\ Running
    /\ \/ \E path \in Paths : DeleteFile(path)
       \/ \E fd \in Fds :
            \/ \E path \in Paths, createNew, dir \in BOOLEAN :
                   OpenFile(fd, path, createNew, dir)
            \/ CloseFile(fd)
            \/ \E length \in 1..MaxWrite : Read(fd, length)
            \/ \E k \in 1..MaxWrite : \E cells \in [1..k -> Bytes] : Write(fd, cells)
            \/ \E position \in 0..maxFilesize, setType \in BOOLEAN :
                   SetPos(fd, position, setType)

Spec == Init /\ [][Next]_vars
-----------------------------------------------------------------------------
Live == {n \in Nodes : isValidNode(fs, n)}
LiveDirs == {n \in Live : isDirectory(fs, n)}

\* The entries of directory d that lie in its blocks.
EntriesOf(d) ==
    {i \in 0..(fs.inodes[d].size - 1) : Cell(fs, d, i) # Wild}

(* Type invariant; a directory holds entries and a file holds bytes, or     *)
(* bytes left from before when its blocks came late.                        *)
TypeOK ==
    /\ fs.inodes \in [Nodes -> Inode]
    /\ fs.bitmap \subseteq Blocks
    /\ \A n \in Live : \A i \in EntriesOf(n) :
          Cell(fs, n, i) \in IF isDirectory(fs, n) THEN Entry
                             ELSE Bytes \cup {Stale}
    /\ \A fd \in Fds : Open(fd) => files[fd].position \in 0..maxFilesize
    /\ crashed \in BOOLEAN

(* The bitmap marks exactly the blocks of the inodes in use, and no block   *)
(* belongs to two of them, or twice to one.                                 *)
BlocksAccounted ==
    LET links == {nl \in Live \X Links :
                    fs.inodes[nl[1]].directBlocks[nl[2]] # invalidBlock}
        blockOf(nl) == fs.inodes[nl[1]].directBlocks[nl[2]]
    IN  /\ fs.bitmap = {blockOf(nl) : nl \in links}
        /\ Cardinality(fs.bitmap) = Cardinality(links)

(* Every entry of a directory names an inode in use, no inode has two       *)
(* names, and no name of a directory leads to two inodes.                   *)
EntriesNameLiveNodes ==
    LET places == {di \in LiveDirs \X (0..maxFilesize) : di[2] \in EntriesOf(di[1])}
        nodeAt(di) == Cell(fs, di[1], di[2]).node
    IN  /\ \A di \in places : nodeAt(di) \in Live \ {rootNode}
        /\ \A di, dj \in places : di # dj =>
              /\ nodeAt(di) # nodeAt(dj)
              /\ di[1] = dj[1] => Cell(fs, di[1], di[2]).name # Cell(fs, dj[1], dj[2]).name

(* An open descriptor is on an inode in use, of the kind it was opened as.  *)
DescriptorsLive ==
    \A fd \in Fds : Open(fd) =>
        /\ files[fd].inode \in Live
        /\ files[fd].dir = isDirectory(fs, files[fd].inode)

(* A step changes the content of one file at most: files never share their  *)
(* blocks, whatever was deleted and allocated before.                       *)
OneFileChanges ==
    [][\A n, m \in Live \cap Live' :
          /\ n # m
          /\ ~isDirectory(fs, n) /\ ~isDirectory(fs, m)
          /\ ~isDirectory(fs, n)' /\ ~isDirectory(fs, m)'
          => CellsOf(fs, n)' = CellsOf(fs, n) \/ CellsOf(fs, m)' = CellsOf(fs, m)]_vars

\* The disk by names: directory, name and inode of every entry,
NamesOn(disk) ==
    UNION {{<<n, entry.name, entry.node>> :
              entry \in {Cell(disk, n, i) : i \in 0..(disk.inodes[n].size - 1)} \cap Entry} :
             n \in {n \in Nodes : isDirectory(disk, n)}}
\* the places that they lead to from the root on, with their inodes,
Places(names) ==
    LET at[k \in 0..MaxDepth] ==
            IF k = 0 THEN {<<<<>>, rootNode>>}
            ELSE UNION {{<<Append(pn[1], e[2]), e[3]>> : e \in {e \in names : e[1] = pn[2]}} :
                          pn \in at[k - 1]}
    IN  UNION {at[k] : k \in 0..MaxDepth}
\* and what is there.
TreeOf(names, dirs) ==
    LET places == Places(names)
    IN  [p \in {pn[1] : pn \in places} |->
            IF \E n \in dirs : <<p, n>> \in places THEN "dir" ELSE "file"]
TreeOn(disk) == TreeOf(NamesOn(disk), {n \in Nodes : isDirectory(disk, n)})
Tree == TreeOn(fs)

(* The disk by names is a tree of directories and files: an open, create,   *)
(* write, cut or delete changes the places it names and none else, also on  *)
(* a full disk and when inodes and blocks are used again.                   *)
Directories == INSTANCE DirectoryTree WITH tree <- Tree

ImplementsTree == Directories!Spec

(* Every inode in use but the root is a file that some directory names      *)
(* (Dokumentace.pdf, section 3.2.3: each file is one inode; section 2.4.2:  *)
(* rd /S deletes what is in the directory too).                             *)
NoOrphans ==
    \A n \in Live \ {rootNode} :
        \E d \in LiveDirs : \E i \in EntriesOf(d) : Cell(fs, d, i).node = n
=============================================================================
