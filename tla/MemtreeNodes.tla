---------------------------- MODULE MemtreeNodes ----------------------------
(***************************************************************************)
(* Inodes, blocks and directories of the RAM disk,                         *)
(* src/src/kernel/memtree/MemtreeMount.cpp with Bitmap.cpp, as operators   *)
(* on a value fs = [inodes, bitmap, data]. The unit of a size and of a     *)
(* position is a cell: one byte of a file or one entry of a directory. The *)
(* bitmap is the set of the blocks whose bit is set. A cell of a block     *)
(* that belongs to no inode is Stale: whatever was left there.             *)
(***************************************************************************)
EXTENDS Integers, FiniteSets, Sequences

CONSTANTS inodeCount, blockCount,   \* of the superblock
          blockSize,                \* cells of a block
          inode_directLinks,        \* blocks of an inode
          Names,                    \* file names
          Bytes,                    \* contents of a file's cell
          Stale,                    \* content that was never written here
          Wild                      \* what lies outside the memory of the disk

ASSUME MemtreeAssumption ==
    /\ inodeCount \in Nat \ {0} /\ blockCount \in Nat \ {0}
    /\ blockSize \in Nat \ {0} /\ inode_directLinks \in Nat \ {0}
    /\ IsFiniteSet(Names) /\ IsFiniteSet(Bytes)
    /\ Stale \notin Bytes /\ Wild \notin Bytes /\ Wild # Stale

Nodes == 0..(inodeCount - 1)
Blocks == 0..(blockCount - 1)
Links == 0..(inode_directLinks - 1)
invalidBlock == -1
invalidNode == -1
rootNode == 0
maxFilesize == blockSize * inode_directLinks

Entry == [name : Names, node : Nodes]
\* What stands for the outside of the disk is not found inside it.
ASSUME WildAssumption ==
    /\ Wild \notin Entry /\ Wild \notin Nodes /\ Wild # invalidNode

Inode == [refCount : {0, 1}, dir : BOOLEAN, size : 0..maxFilesize,
          directBlocks : [Links -> Blocks \cup {invalidBlock}]]

\* The k-th smallest element of a finite set of integers, counted from 0.
Nth(S, k) == CHOOSE x \in S : Cardinality({y \in S : y < x}) = k

\* memset(node, 0, ...)
FreeInode == [refCount |-> 0, dir |-> FALSE, size |-> 0,
              directBlocks |-> [l \in Links |-> 0]]

NewInode(dir) == [refCount |-> 1, dir |-> dir, size |-> 0,
                  directBlocks |-> [l \in Links |-> invalidBlock]]

isValidNode(fs, n) == n \in Nodes /\ fs.inodes[n].refCount # 0
isDirectory(fs, n) == isValidNode(fs, n) /\ fs.inodes[n].dir

\* The first unused inode, the one reserveFreeNode takes.
freeNode(fs) ==
    LET free == {n \in Nodes : fs.inodes[n].refCount = 0}
    IN  IF free = {} THEN invalidNode ELSE Nth(free, 0)

\* The constructor.
EmptyDisk ==
    [inodes |-> [n \in Nodes |-> IF n = rootNode THEN NewInode(TRUE) ELSE FreeInode],
     bitmap |-> {},
     data |-> [b \in Blocks |-> [j \in 0..(blockSize - 1) |-> Stale]]]
-----------------------------------------------------------------------------
\* What readNode finds at position i of inode n: there is no test for a block
\* that is missing, and its number leads far out of the disk's memory.
Cell(fs, n, i) ==
    LET b == fs.inodes[n].directBlocks[i \div blockSize]
    IN  IF b = invalidBlock THEN Wild ELSE fs.data[b][i % blockSize]

CellsOf(fs, n) == [i \in 0..(fs.inodes[n].size - 1) |-> Cell(fs, n, i)]

\* Stores cells, a function on positions of n whose blocks are there.
PutCells(fs, n, cells) ==
    [fs EXCEPT !.data = [b \in Blocks |-> [j \in 0..(blockSize - 1) |->
        LET here == {l \in Links : /\ fs.inodes[n].directBlocks[l] = b
                                   /\ l * blockSize + j \in DOMAIN cells}
        IN  IF here = {} THEN fs.data[b][j]
            ELSE cells[(CHOOSE l \in here : TRUE) * blockSize + j]]]]

\* mutant: the bits of the blocks stay set
KeepBlocks(fs, n, links) ==
    [fs EXCEPT !.inodes[n].directBlocks =
                   [l \in Links |-> IF l \in links THEN invalidBlock ELSE @[l]]]

\* fs with new inodes, and the bits of some blocks cleared: nobody looks into
\* these any more.
clearBlocks(fs, blocks, inodes) ==
    [inodes |-> inodes,
     bitmap |-> fs.bitmap \ blocks,
     data |-> [b \in Blocks |-> IF b \in blocks
                                THEN [j \in 0..(blockSize - 1) |-> Stale]
                                ELSE fs.data[b]]]

blocksOf(fs, n, links) ==
    {fs.inodes[n].directBlocks[l] : l \in links} \ {invalidBlock}

\* releaseBlock for some of the links of inode n.
releaseBlocks(fs, n, links) ==
    clearBlocks(fs, blocksOf(fs, n, links),
                [fs.inodes EXCEPT ![n].directBlocks =
                    [l \in Links |-> IF l \in links THEN invalidBlock ELSE @[l]]])

\* releaseNode for each of some nodes.
releaseNodes(fs, nodes) ==
    clearBlocks(fs, UNION {blocksOf(fs, n, Links) : n \in nodes},
                [n \in Nodes |-> IF n \in nodes THEN FreeInode ELSE fs.inodes[n]])

\* mutant: the bitmap is not looked at
AnyBlocks(fs) == Blocks

freeBlocks(fs) == Blocks \ fs.bitmap

RequiredLinks(size) == {l \in Links : l * blockSize < size}

(* The first half of setNodeSize, with reserveBlock: the size is set and    *)
(* the missing ones among the required links get the free blocks in         *)
(* ascending order, as far as these go.                                     *)
grow(fs, n, size) ==
    LET missing == {l \in RequiredLinks(size) :
                      fs.inodes[n].directBlocks[l] = invalidBlock}
        rank(l) == Cardinality({m \in missing : m < l})
        free == freeBlocks(fs)
        given == {l \in missing : rank(l) < Cardinality(free)}
    IN  [inodes |-> [fs.inodes EXCEPT ![n].size = size,
                                      ![n].directBlocks = [l \in Links |->
                        IF l \in given THEN Nth(free, rank(l)) ELSE @[l]]],
         bitmap |-> fs.bitmap \cup {Nth(free, rank(l)) : l \in given},
         data |-> fs.data]

\* Has every link that the size requires its block?
Backed(fs, n, size) ==
    \A l \in RequiredLinks(size) : fs.inodes[n].directBlocks[l] # invalidBlock

\* mutant: a file that is cut short keeps its numbers of the freed blocks
cutKeepsLinks(fs, n, size) ==
    LET behind == {fs.inodes[n].directBlocks[l] : l \in Links \ RequiredLinks(size)}
    IN  IF ~Backed(fs, n, size) THEN fs
        ELSE IF size = 0 THEN releaseBlocks(fs, n, Links)
        ELSE [fs EXCEPT !.bitmap = @ \ behind]

(* Its second half: the blocks behind the size are released. Without all    *)
(* the blocks for the size the loop has stopped before that.                *)
cut(fs, n, size) ==
    IF Backed(fs, n, size) THEN releaseBlocks(fs, n, Links \ RequiredLinks(size))
    ELSE fs

setNodeSize(fs, n, size) ==
    IF size > maxFilesize THEN fs ELSE cut(grow(fs, n, size), n, size)

setSize(fs, n, size) == IF isValidNode(fs, n) THEN setNodeSize(fs, n, size) ELSE fs

\* The loop of writeNode: the new fs and how many cells were written. It stops
\* at the first position whose block is missing.
writeCells(fs, n, cells, from, to) ==
    LET backed == {k \in 0..(to - from) :
                     \A i \in from..(from + k - 1) : Cell(fs, n, i) # Wild}
        written == CHOOSE k \in backed : \A m \in backed : m <= k
    IN  [fs |-> PutCells(fs, n, [i \in from..(from + written - 1) |->
                                    cells[i - from + 1]]),
         written |-> written]

writeNode(fs, n, cells, from) ==
    LET size == fs.inodes[n].size
        to == IF from + Len(cells) > maxFilesize THEN maxFilesize
              ELSE from + Len(cells)
    IN  IF from > size THEN [fs |-> fs, written |-> 0]
        ELSE writeCells(IF to > size THEN setNodeSize(fs, n, to) ELSE fs,
                        n, cells, from, to)
-----------------------------------------------------------------------------
\* mutant: the last entry is not compared
findButLast(fs, dir, name) ==
    LET hits == {i \in 0..(fs.inodes[dir].size - 2) :
                   \/ Cell(fs, dir, i) = Wild
                   \/ Cell(fs, dir, i) \in [name : {name}, node : Nodes]}
    IN  IF ~isDirectory(fs, dir) \/ hits = {} THEN invalidNode
        ELSE IF Cell(fs, dir, Nth(hits, 0)) = Wild THEN Wild
        ELSE Cell(fs, dir, Nth(hits, 0)).node

\* The node of the first entry of that name, Wild if the scan leaves the disk.
findInDirectory(fs, dir, name) ==
    LET hits == {i \in 0..(fs.inodes[dir].size - 1) :
                   \/ Cell(fs, dir, i) = Wild
                   \/ Cell(fs, dir, i) \in [name : {name}, node : Nodes]}
    IN  IF ~isDirectory(fs, dir) \/ hits = {} THEN invalidNode
        ELSE IF Cell(fs, dir, Nth(hits, 0)) = Wild THEN Wild
        ELSE Cell(fs, dir, Nth(hits, 0)).node

\* The new fs and the new inode. The last cell of a directory stays unused,
\* and nobody looks whether the entry could be written.
createFile(fs, dir, name, isDir) ==
    LET n == freeNode(fs)
        found == findInDirectory(fs, dir, name)
        reserved == [fs EXCEPT !.inodes[n] = NewInode(isDir)]
    IN  IF \/ ~isDirectory(fs, dir)
           \/ fs.inodes[dir].size + 1 >= maxFilesize
           \/ found # invalidNode
           \/ n = invalidNode
        THEN [fs |-> fs, node |-> IF found = Wild THEN Wild ELSE invalidNode]
        ELSE [fs |-> writeNode(reserved, dir, <<[name |-> name, node |-> n]>>,
                               fs.inodes[dir].size).fs,
              node |-> n]

\* deleteDirectory goes through a directory that shrinks under it, so it
\* deletes every other entry.
deletedEntries(fs, dir) ==
    {Cell(fs, dir, i).node : i \in {i \in 0..(fs.inodes[dir].size - 1) :
                                     i % 2 = 0 /\ Cell(fs, dir, i) # Wild}}

\* The inodes that deleteFile releases for f: f and, level by level, what
\* deleteDirectory deletes.
deletedNodes(fs, f) ==
    {n \in Nodes : \A S \in SUBSET Nodes :
        /\ f \in S
        /\ \A d \in S : isDirectory(fs, d) => deletedEntries(fs, d) \subseteq S
        => n \in S}

\* Does the deletion of f from dir read only entries that are there?
canDelete(fs, dir, f) ==
    \A d \in {dir} \cup {d \in deletedNodes(fs, f) : isDirectory(fs, d)} :
        \A i \in 0..(fs.inodes[d].size - 1) : Cell(fs, d, i) # Wild

\* mutant: the entries are moved down, the last one stays in the directory
keepLastEntry(fs, dir, f) ==
    LET size == fs.inodes[dir].size
        at == {i \in 0..(size - 1) : Cell(fs, dir, i).node = f}
    IN  IF at = {} \/ ~isValidNode(fs, dir) THEN fs
        ELSE PutCells(fs, dir, [i \in Nth(at, 0)..(size - 2) |->
                                   Cell(fs, dir, i + 1)])

\* The later entries move down by one, then the directory is cut; unless it
\* has itself been deleted.
removeEntry(fs, dir, f) ==
    LET size == fs.inodes[dir].size
        at == {i \in 0..(size - 1) : Cell(fs, dir, i).node = f}
        moved == PutCells(fs, dir, [i \in Nth(at, 0)..(size - 2) |->
                                       Cell(fs, dir, i + 1)])
    IN  IF at = {} \/ ~isValidNode(fs, dir) THEN fs
        ELSE setSize(moved, dir, size - 1)

deleteFile(fs, dir, f) ==
    IF isValidNode(fs, f) THEN removeEntry(releaseNodes(fs, deletedNodes(fs, f)), dir, f)
    ELSE fs
=============================================================================
