--------------------------- MODULE Memtree_proofs ---------------------------
(***************************************************************************)
(* Theorems about Memtree for every number of inodes, blocks, links and    *)
(* descriptors, every size of a block and every set of names. Programs do  *)
(* not delete files that are open, nor the root.                           *)
(***************************************************************************)
EXTENDS Memtree, FiniteSetTheorems, SequenceTheorems, WellFoundedInduction, TLAPS

USE MemtreeAssumption, WildAssumption

Positions == 0..(maxFilesize - 1)
Offsets == 0..(blockSize - 1)
Content == Entry \cup Bytes \cup {Stale}

Disk == [inodes : [Nodes -> Inode], bitmap : SUBSET Blocks,
         data : [Blocks -> [Offsets -> Content]]]
-----------------------------------------------------------------------------
(* The inductive invariant, by parts.                                       *)

Owns(d, n, l, b) == isValidNode(d, n) /\ d.inodes[n].directBlocks[l] = b

\* A bit is set for the blocks that somebody owns, and one inode does, once.
Accounted(d) ==
    /\ \A b \in Blocks : b \in d.bitmap <=> \E n \in Nodes, l \in Links : Owns(d, n, l, b)
    /\ \A n, m \in Nodes, l, k \in Links, b \in Blocks :
          Owns(d, n, l, b) /\ Owns(d, m, k, b) => n = m /\ l = k

FreeIsStale(d) == \A b \in Blocks \ d.bitmap, j \in Offsets : d.data[b][j] = Stale

Sane(d) == d \in Disk /\ Accounted(d) /\ FreeIsStale(d)

\* The blocks of a file hold bytes, also behind its end; those of a directory
\* hold entries before its end.
FilesHold(d) ==
    \A n \in Nodes : isValidNode(d, n) /\ ~isDirectory(d, n) =>
        \A i \in Positions : Cell(d, n, i) \in Bytes \cup {Stale, Wild}

DirsHold(d) ==
    \A n \in Nodes : isDirectory(d, n) =>
        \A i \in 0..(d.inodes[n].size - 1) : Cell(d, n, i) \in Entry \cup {Wild}

IsPlace(d, n, i) ==
    isDirectory(d, n) /\ i < d.inodes[n].size /\ Cell(d, n, i) # Wild

\* An entry names an inode in use, which has no other entry, and a directory
\* has one entry of a name.
NamesInv(d) ==
    /\ \A n \in Nodes, i \in Positions : IsPlace(d, n, i) =>
          isValidNode(d, Cell(d, n, i).node) /\ Cell(d, n, i).node # rootNode
    /\ \A n, m \in Nodes, i, k \in Positions :
          /\ IsPlace(d, n, i) /\ IsPlace(d, m, k)
          /\ Cell(d, n, i).node = Cell(d, m, k).node
          => n = m /\ i = k
    /\ \A n \in Nodes, i, k \in Positions :
          /\ IsPlace(d, n, i) /\ IsPlace(d, n, k)
          /\ Cell(d, n, i).name = Cell(d, n, k).name
          => i = k

DiskInv(d) ==
    /\ Sane(d) /\ FilesHold(d) /\ DirsHold(d) /\ NamesInv(d)
    /\ isDirectory(d, rootNode)

FilesInv ==
    /\ files \in [Fds -> [inode : Nodes \cup {invalidNode}, position : 0..maxFilesize,
                          dir : BOOLEAN]]
    /\ crashed \in BOOLEAN

IInv == DiskInv(fs) /\ FilesInv /\ DescriptorsLive
-----------------------------------------------------------------------------
(* Numbers: places in a file, and the k-th of a set.                        *)

LEMMA Sizes ==
  /\ maxFilesize \in Nat \ {0}
  /\ Nodes \subseteq Nat /\ IsFiniteSet(Nodes) /\ rootNode \in Nodes
  /\ Blocks \subseteq Nat /\ IsFiniteSet(Blocks)
  /\ Links \subseteq Nat /\ IsFiniteSet(Links)
  /\ invalidNode \notin Nodes /\ invalidBlock \notin Blocks
  <1>1. maxFilesize \in Nat \ {0} BY DEF maxFilesize
  <1>2. IsFiniteSet(Nodes) BY FS_Interval DEF Nodes
  <1>3. IsFiniteSet(Blocks) BY FS_Interval DEF Blocks
  <1>4. IsFiniteSet(Links) BY FS_Interval DEF Links
  <1> QED BY <1>1, <1>2, <1>3, <1>4
          DEF Nodes, Blocks, Links, rootNode, invalidNode, invalidBlock

(* Every position lies in one link, at one offset.                          *)
LEMMA PlaceOf ==
  ASSUME NEW i \in Positions
  PROVE  /\ i \div blockSize \in Links /\ i % blockSize \in Offsets
         /\ i = (i \div blockSize) * blockSize + (i % blockSize)
         /\ i \in Nat
  <1>1. i \in Nat /\ i < blockSize * inode_directLinks
    BY Sizes DEF Positions, maxFilesize
  <1>2. /\ i \div blockSize \in Nat /\ i % blockSize \in 0..(blockSize - 1)
        /\ i = (i \div blockSize) * blockSize + (i % blockSize)
    BY <1>1
  <1>3. i \div blockSize < inode_directLinks BY <1>1, <1>2
  <1> QED BY <1>1, <1>2, <1>3 DEF Links, Offsets

LEMMA PlaceIs ==
  ASSUME NEW l \in Links, NEW j \in Offsets
  PROVE  /\ l * blockSize + j \in Positions
         /\ (l * blockSize + j) \div blockSize = l
         /\ (l * blockSize + j) % blockSize = j
  <1>1. l \in Nat /\ l < inode_directLinks /\ j \in 0..(blockSize - 1)
    BY DEF Links, Offsets
  <1>2. (l * blockSize + j) \div blockSize = l /\ (l * blockSize + j) % blockSize = j
    BY <1>1
  <1>3. l * blockSize + j \in Nat BY <1>1
  <1>4. (l + 1) * blockSize <= inode_directLinks * blockSize
    <2>1. l + 1 <= inode_directLinks /\ l + 1 \in Nat BY <1>1
    <2> QED BY <2>1
  <1>5. l * blockSize + j < (l + 1) * blockSize
    <2>1. (l + 1) * blockSize = l * blockSize + blockSize BY <1>1
    <2> QED BY <1>1, <2>1
  <1>6. l * blockSize + j < maxFilesize
    <2>1. inode_directLinks * blockSize = blockSize * inode_directLinks OBVIOUS
    <2>2. l * blockSize + j \in Int /\ (l + 1) * blockSize \in Int
          /\ inode_directLinks * blockSize \in Int
      BY <1>1
    <2> QED BY <1>4, <1>5, <2>1, <2>2 DEF maxFilesize
  <1> QED BY <1>2, <1>3, <1>6, Sizes DEF Positions

LEMMA RequiredOf ==
  ASSUME NEW i \in Positions, NEW size \in Nat, i < size
  PROVE  i \div blockSize \in RequiredLinks(size)
  <1>1. (i \div blockSize) * blockSize <= i
    <2>1. (i \div blockSize) * blockSize \in Nat BY PlaceOf DEF Links
    <2> QED BY PlaceOf, <2>1 DEF Offsets
  <1>2. (i \div blockSize) * blockSize < size
    <2>1. (i \div blockSize) * blockSize \in Int BY PlaceOf DEF Links
    <2> QED BY <1>1, <2>1, PlaceOf
  <1> QED BY <1>2, PlaceOf DEF RequiredLinks

(* Two elements do not have as many before them.                            *)
LEMMA CountsDiffer ==
  ASSUME NEW S \in SUBSET Nat, IsFiniteSet(S), NEW x \in S, NEW y \in S
  PROVE  /\ Cardinality({z \in S : z < x}) \in 0..(Cardinality(S) - 1)
         /\ Cardinality({z \in S : z < x}) = Cardinality({z \in S : z < y}) => x = y
  <1> DEFINE N == Cardinality(S)
             Before(v) == {z \in S : z < v}
  <1>1. N \in Nat BY FS_CardinalityType
  <1>2. ASSUME NEW v \in S PROVE Cardinality(Before(v)) \in 0..(N - 1)
    <2>1. Before(v) \subseteq S /\ v \notin Before(v) BY DEF Before
    <2>2. IsFiniteSet(Before(v)) /\ Cardinality(Before(v)) <= N
          /\ (Cardinality(Before(v)) = N => Before(v) = S)
      BY <2>1, FS_Subset
    <2>3. Cardinality(Before(v)) \in Nat BY <2>2, FS_CardinalityType
    <2> HIDE DEF Before, N
    <2> QED BY <1>1, <2>1, <2>2, <2>3
  <1>3. ASSUME NEW v \in S, NEW w \in S, v < w
        PROVE  Cardinality(Before(v)) < Cardinality(Before(w))
    <2>1. Before(v) \subseteq Before(w) /\ v \in Before(w) /\ v \notin Before(v)
      <3>1. v \in Nat /\ w \in Nat /\ \A z \in S : z \in Nat OBVIOUS
      <3>2. \A z \in S : z < v => z < w BY <1>3, <3>1
      <3>3. ~(v < v) BY <3>1
      <3> QED BY <1>3, <3>2, <3>3
    <2>2. IsFiniteSet(Before(w)) BY FS_Subset
    <2>3. Cardinality(Before(v)) <= Cardinality(Before(w))
          /\ Cardinality(Before(v)) # Cardinality(Before(w))
      BY <2>1, <2>2, FS_Subset
    <2>4. Cardinality(Before(v)) \in Int /\ Cardinality(Before(w)) \in Int
      <3> HIDE DEF Before
      <3> QED BY <1>1, <1>2
    <2> QED BY <2>3, <2>4
  <1> HIDE DEF Before
  <1>4. ASSUME Cardinality(Before(x)) = Cardinality(Before(y)) PROVE x = y
    <2>1. ~(x < y) /\ ~(y < x) BY <1>3, <1>2, <1>1, <1>4
    <2> QED BY <2>1
  <1> QED BY <1>2, <1>4 DEF Before

(* The k-th smallest element is there, and no other one is k-th.            *)
LEMMA NthExists ==
  ASSUME NEW S \in SUBSET Nat, IsFiniteSet(S), NEW k \in Nat, k < Cardinality(S)
  PROVE  Nth(S, k) \in S /\ Cardinality({y \in S : y < Nth(S, k)}) = k
  <1> DEFINE N == Cardinality(S)
             Before(x) == {y \in S : y < x}
             f == [x \in S |-> Cardinality(Before(x))]
  <1>1. N \in Nat BY FS_CardinalityType
  <1>2. \A x \in S : Cardinality(Before(x)) \in 0..(N - 1) BY CountsDiffer
  <1>3. \A x, y \in S : Cardinality(Before(x)) = Cardinality(Before(y)) => x = y
    BY CountsDiffer
  <1> HIDE DEF Before
  <1>4. f \in [S -> 0..(N - 1)] BY <1>2
  <1>5. \A x, y \in S : f[x] = f[y] => x = y BY <1>3
  <1>6. f \in Injection(S, 0..(N - 1)) BY <1>4, <1>5 DEF Injection, IsInjective
  <1>7. IsFiniteSet(0..(N - 1)) /\ Cardinality(0..(N - 1)) = N
    <2> HIDE DEF N
    <2>1. 0 \in Int /\ N - 1 \in Int BY <1>1
    <2>2. IsFiniteSet(0..(N - 1))
          /\ Cardinality(0..(N - 1)) = IF 0 > N - 1 THEN 0 ELSE N - 1 - 0 + 1
      BY <2>1, FS_Interval
    <2> QED BY <1>1, <2>2
  <1>8. f \in Surjection(S, 0..(N - 1)) BY <1>6, <1>7, FS_Injection
  <1>9. PICK x \in S : f[x] = k
    <2>1. k \in 0..(N - 1) BY <1>1
    <2> HIDE DEF f, N
    <2> QED BY <1>8, <2>1 DEF Surjection
  <1>10. Cardinality(Before(x)) = k BY <1>9
  <1> QED BY <1>10 DEF Nth, Before

LEMMA FirstExists ==
  ASSUME NEW S \in SUBSET Nat, IsFiniteSet(S), S # {}
  PROVE  Nth(S, 0) \in S
  <1>1. Cardinality(S) \in Nat /\ Cardinality(S) # 0
    BY FS_CardinalityType, FS_EmptySet
  <1>2. 0 \in Nat /\ 0 < Cardinality(S) BY <1>1
  <1> QED BY <1>2, NthExists
-----------------------------------------------------------------------------
(* What the operators do to a disk, and what they leave: nodes, cells and   *)
(* owners of blocks.                                                        *)

SameNode(d, e, m) ==
    e.inodes[m] = d.inodes[m] /\ \A i \in Positions : Cell(e, m, i) = Cell(d, m, i)

LEMMA DiskTypes ==
  ASSUME NEW d \in Disk
  PROVE  /\ d.inodes \in [Nodes -> Inode] /\ d.bitmap \subseteq Blocks
         /\ d.data \in [Blocks -> [Offsets -> Content]]
         /\ \A n \in Nodes :
               /\ d.inodes[n] \in Inode
               /\ d.inodes[n].refCount \in {0, 1} /\ d.inodes[n].dir \in BOOLEAN
               /\ d.inodes[n].size \in 0..maxFilesize
               /\ d.inodes[n].directBlocks \in [Links -> Blocks \cup {invalidBlock}]
               /\ \A l \in Links : d.inodes[n].directBlocks[l] \in Blocks \cup {invalidBlock}
  BY DEF Disk, Inode

LEMMA WildIsOutside == Wild \notin Content /\ Stale \in Content
  BY DEF Content

LEMMA CellIs ==
  ASSUME NEW d \in Disk, NEW n \in Nodes, NEW i \in Positions
  PROVE  LET b == d.inodes[n].directBlocks[i \div blockSize]
         IN  /\ b \in Blocks \cup {invalidBlock}
             /\ b = invalidBlock => Cell(d, n, i) = Wild
             /\ b # invalidBlock => /\ Cell(d, n, i) = d.data[b][i % blockSize]
                                    /\ Cell(d, n, i) \in Content
                                    /\ Cell(d, n, i) # Wild
  <1> DEFINE b == d.inodes[n].directBlocks[i \div blockSize]
  <1>0. i \div blockSize \in Links /\ i % blockSize \in Offsets BY PlaceOf
  <1>1. b \in Blocks \cup {invalidBlock} BY <1>0, DiskTypes
  <1>2. Cell(d, n, i) = IF b = invalidBlock THEN Wild ELSE d.data[b][i % blockSize]
    BY DEF Cell
  <1>3. b # invalidBlock => d.data[b][i % blockSize] \in Content
    <2>1. d.data \in [Blocks -> [Offsets -> Content]] BY DiskTypes
    <2> HIDE DEF b
    <2> QED BY <1>0, <1>1, <2>1
  <1> HIDE DEF b
  <1>4. /\ b \in Blocks \cup {invalidBlock}
        /\ b = invalidBlock => Cell(d, n, i) = Wild
        /\ b # invalidBlock => /\ Cell(d, n, i) = d.data[b][i % blockSize]
                               /\ Cell(d, n, i) \in Content
                               /\ Cell(d, n, i) # Wild
    BY <1>1, <1>2, <1>3, WildIsOutside
  <1> QED BY <1>4 DEF b

(* A node that has kept its blocks sees in them what it saw, if nobody has  *)
(* written there.                                                           *)
LEMMA CellsKept ==
  ASSUME NEW d \in Disk, NEW e \in Disk, NEW m \in Nodes,
         e.inodes[m] = d.inodes[m],
         \A l \in Links, b \in Blocks :
            d.inodes[m].directBlocks[l] = b => e.data[b] = d.data[b]
  PROVE  SameNode(d, e, m)
  <1> SUFFICES ASSUME NEW i \in Positions PROVE Cell(e, m, i) = Cell(d, m, i)
    BY DEF SameNode
  <1> DEFINE b == d.inodes[m].directBlocks[i \div blockSize]
  <1>1. b \in Blocks \cup {invalidBlock} /\ i \div blockSize \in Links
    BY DiskTypes, PlaceOf
  <1>2. b # invalidBlock => e.data[b] = d.data[b] BY <1>1
  <1> QED BY <1>2 DEF Cell

(* Where the owners are the same, the bits have to be.                      *)
LEMMA SaneFrom ==
  ASSUME NEW d, Sane(d), NEW e \in Disk, e.bitmap = d.bitmap,
         \A n \in Nodes, l \in Links, b \in Blocks : Owns(e, n, l, b) <=> Owns(d, n, l, b),
         \A b \in Blocks \ d.bitmap : e.data[b] = d.data[b]
  PROVE  Sane(e)
  <1>1. Accounted(e) BY DEF Sane, Accounted
  <1>2. FreeIsStale(e) BY DEF Sane, FreeIsStale
  <1> QED BY <1>1, <1>2 DEF Sane

LEMMA PutCellsEffect ==
  ASSUME NEW d, Sane(d), NEW n \in Nodes, isValidNode(d, n), NEW cells,
         DOMAIN cells \subseteq Positions,
         \A i \in DOMAIN cells : cells[i] \in Content /\ Cell(d, n, i) # Wild
  PROVE  LET e == PutCells(d, n, cells)
         IN  /\ Sane(e) /\ e.inodes = d.inodes
             /\ \A i \in Positions :
                   Cell(e, n, i) = IF i \in DOMAIN cells THEN cells[i] ELSE Cell(d, n, i)
             /\ \A m \in Nodes : m # n /\ isValidNode(d, m) => SameNode(d, e, m)
  <1> DEFINE e == PutCells(d, n, cells)
             here(b, j) == {l \in Links : /\ d.inodes[n].directBlocks[l] = b
                                          /\ l * blockSize + j \in DOMAIN cells}
             new(b, j) == IF here(b, j) = {} THEN d.data[b][j]
                          ELSE cells[(CHOOSE l \in here(b, j) : TRUE) * blockSize + j]
  <1>1. d \in Disk /\ Accounted(d) /\ FreeIsStale(d) BY DEF Sane
  <1>2. e = [d EXCEPT !.data = [b \in Blocks |-> [j \in Offsets |-> new(b, j)]]]
    BY DEF PutCells, Offsets
  <1>3. \A b \in Blocks, j \in Offsets : here(b, j) # {} =>
            /\ (CHOOSE l \in here(b, j) : TRUE) \in here(b, j)
            /\ new(b, j) \in Content
    OBVIOUS
  <1>4. \A b \in Blocks, j \in Offsets : new(b, j) \in Content
    <2>1. d.data \in [Blocks -> [Offsets -> Content]] BY <1>1, DiskTypes
    <2> SUFFICES ASSUME NEW b \in Blocks, NEW j \in Offsets PROVE new(b, j) \in Content
      OBVIOUS
    <2>2. CASE here(b, j) = {} BY <2>1, <2>2
    <2>3. CASE here(b, j) # {} BY <1>3, <2>3
    <2> QED BY <2>2, <2>3
  <1> HIDE DEF new
  <1>5. /\ e.inodes = d.inodes /\ e.bitmap = d.bitmap
        /\ \A b \in Blocks : e.data[b] = [j \in Offsets |-> new(b, j)]
    BY <1>1, <1>2 DEF Disk
  <1>6. e \in Disk
    <2>1. [b \in Blocks |-> [j \in Offsets |-> new(b, j)]] \in [Blocks -> [Offsets -> Content]]
      BY <1>4
    <2> HIDE DEF e
    <2> QED BY <1>1, <1>2, <2>1 DEF Disk
  <1> HIDE DEF e
  <1>7. \A m \in Nodes, l \in Links, b \in Blocks : Owns(e, m, l, b) <=> Owns(d, m, l, b)
    BY <1>5 DEF Owns, isValidNode
  <1>8. ASSUME NEW b \in Blocks, \A l \in Links : ~Owns(d, n, l, b)
        PROVE  e.data[b] = d.data[b]
    <2>1. \A j \in Offsets : here(b, j) = {} BY <1>8 DEF Owns
    <2>2. \A j \in Offsets : new(b, j) = d.data[b][j] BY <2>1 DEF new
    <2>3. d.data[b] \in [Offsets -> Content] BY <1>1, DiskTypes
    <2> QED BY <1>5, <2>2, <2>3
  <1>9. Sane(e)
    <2>1. \A b \in Blocks \ d.bitmap, l \in Links : ~Owns(d, n, l, b)
      BY <1>1 DEF Accounted
    <2>2. \A b \in Blocks \ d.bitmap : e.data[b] = d.data[b] BY <1>8, <2>1
    <2> QED BY <1>5, <1>6, <1>7, <2>2, SaneFrom
  <1>10. ASSUME NEW i \in Positions
         PROVE  Cell(e, n, i) = IF i \in DOMAIN cells THEN cells[i] ELSE Cell(d, n, i)
    <2> DEFINE l == i \div blockSize
               j == i % blockSize
               b == d.inodes[n].directBlocks[l]
    <2>1. l \in Links /\ j \in Offsets /\ i = l * blockSize + j BY PlaceOf
    <2>2. b \in Blocks \cup {invalidBlock} BY <1>1, <2>1, DiskTypes
    <2>3. CASE b = invalidBlock
      <3>1. Cell(d, n, i) = Wild BY <1>1, <2>3, CellIs
      <3>2. Cell(e, n, i) = Wild BY <1>5, <2>3 DEF Cell
      <3> QED BY <3>1, <3>2
    <2>4. CASE b # invalidBlock
      <3>1. Cell(e, n, i) = new(b, j)
        <4>1. Cell(e, n, i) = e.data[b][j] BY <1>5, <2>4 DEF Cell
        <4>2. b \in Blocks BY <2>2, <2>4
        <4> HIDE DEF b, j, l
        <4>3. e.data[b][j] = new(b, j) BY <1>5, <2>1, <4>2
        <4> QED BY <4>1, <4>3
      <3>2. Cell(d, n, i) = d.data[b][j] BY <2>4 DEF Cell
      <3>3. \A k \in here(b, j) : k = l
        BY <1>1, <2>1, <2>2, <2>4 DEF Accounted, Owns
      <3>4. i \in DOMAIN cells => l \in here(b, j) BY <2>1
      <3>5. i \notin DOMAIN cells => l \notin here(b, j) BY <2>1
      <3> HIDE DEF l, j, b, here
      <3>6. CASE i \in DOMAIN cells
        <4>1. here(b, j) = {l} BY <3>3, <3>4, <3>6
        <4>2. (CHOOSE k \in here(b, j) : TRUE) = l BY <4>1
        <4> QED BY <3>1, <3>6, <4>1, <4>2, <2>1 DEF new
      <3>7. CASE i \notin DOMAIN cells
        <4>1. here(b, j) = {} BY <3>3, <3>5, <3>7
        <4> QED BY <3>1, <3>2, <3>7, <4>1 DEF new
      <3> QED BY <3>6, <3>7
    <2> QED BY <2>3, <2>4
  <1>11. ASSUME NEW m \in Nodes, m # n, isValidNode(d, m) PROVE SameNode(d, e, m)
    <2>1. ASSUME NEW k \in Links, NEW b \in Blocks, d.inodes[m].directBlocks[k] = b
          PROVE  e.data[b] = d.data[b]
      <3>1. Owns(d, m, k, b) BY <1>11, <2>1 DEF Owns
      <3>2. \A l \in Links : ~Owns(d, n, l, b) BY <1>1, <1>11, <3>1 DEF Accounted
      <3> QED BY <1>8, <3>2
    <2> QED BY <1>1, <1>5, <1>6, <2>1, CellsKept
  <1> QED BY <1>5, <1>9, <1>10, <1>11 DEF e

(* clearBlocks with the inodes that go with it: who keeps a block keeps     *)
(* what is in it.                                                           *)
Wiped(d, blocks) == [b \in Blocks |-> IF b \in blocks THEN [j \in Offsets |-> Stale]
                                      ELSE d.data[b]]

LEMMA ClearedIs ==
  ASSUME NEW d \in Disk, NEW blocks \in SUBSET Blocks, NEW inodes \in [Nodes -> Inode]
  PROVE  /\ clearBlocks(d, blocks, inodes)
              = [inodes |-> inodes, bitmap |-> d.bitmap \ blocks, data |-> Wiped(d, blocks)]
         /\ Wiped(d, blocks) \in [Blocks -> [Offsets -> Content]]
         /\ clearBlocks(d, blocks, inodes) \in Disk
  <1>1. Wiped(d, blocks) \in [Blocks -> [Offsets -> Content]]
    BY DiskTypes, WildIsOutside DEF Wiped
  <1>3. clearBlocks(d, blocks, inodes)
          = [inodes |-> inodes, bitmap |-> d.bitmap \ blocks, data |-> Wiped(d, blocks)]
    BY DEF clearBlocks, Offsets, Wiped
  <1>4. d.bitmap \ blocks \in SUBSET Blocks BY DiskTypes
  <1>5. clearBlocks(d, blocks, inodes) \in Disk
    <2> DEFINE bitmap == d.bitmap \ blocks
               data == Wiped(d, blocks)
    <2>1. bitmap \in SUBSET Blocks /\ data \in [Blocks -> [Offsets -> Content]]
      BY <1>1, <1>4
    <2>2. clearBlocks(d, blocks, inodes) = [inodes |-> inodes, bitmap |-> bitmap, data |-> data]
      BY <1>3
    <2> HIDE DEF bitmap, data
    <2>3. [inodes |-> inodes, bitmap |-> bitmap, data |-> data] \in Disk BY <2>1 DEF Disk
    <2> QED BY <2>2, <2>3
  <1> QED BY <1>1, <1>3, <1>5

LEMMA ClearEffect ==
  ASSUME NEW d, Sane(d), NEW blocks \in SUBSET Blocks,
         NEW inodes \in [Nodes -> Inode],
         \A m \in Nodes, l \in Links, b \in Blocks :
            Owns(clearBlocks(d, blocks, inodes), m, l, b) <=> Owns(d, m, l, b) /\ b \notin blocks
  PROVE  LET e == clearBlocks(d, blocks, inodes)
         IN  /\ Sane(e) /\ e.inodes = inodes /\ e.bitmap = d.bitmap \ blocks
             /\ \A b \in Blocks \ blocks : e.data[b] = d.data[b]
             /\ \A m \in Nodes : /\ isValidNode(d, m) /\ inodes[m] = d.inodes[m]
                                 => SameNode(d, e, m)
  <1> DEFINE e == clearBlocks(d, blocks, inodes)
             cleared == Wiped(d, blocks)
  <1>1. d \in Disk /\ Accounted(d) /\ FreeIsStale(d) BY DEF Sane
  <1>4. \A b \in Blocks : cleared[b] = IF b \in blocks THEN [j \in Offsets |-> Stale]
                                       ELSE d.data[b]
    BY DEF Wiped
  <1>5. e = [inodes |-> inodes, bitmap |-> d.bitmap \ blocks, data |-> cleared]
        /\ e \in Disk
    BY <1>1, ClearedIs
  <1>6. \A m \in Nodes, l \in Links, b \in Blocks :
            Owns(e, m, l, b) <=> Owns(d, m, l, b) /\ b \notin blocks
    OBVIOUS
  <1> HIDE DEF e, cleared
  <1>7. Accounted(e)
    <2>1. ASSUME NEW b \in Blocks
          PROVE  b \in e.bitmap <=> \E n \in Nodes, l \in Links : Owns(e, n, l, b)
      <3>1. b \in e.bitmap <=> b \in d.bitmap /\ b \notin blocks BY <1>5
      <3>2. b \in d.bitmap <=> \E n \in Nodes, l \in Links : Owns(d, n, l, b)
        BY <1>1 DEF Accounted
      <3> QED BY <1>6, <3>1, <3>2
    <2>2. \A n, m \in Nodes, l, k \in Links, b \in Blocks :
             Owns(e, n, l, b) /\ Owns(e, m, k, b) => n = m /\ l = k
      BY <1>1, <1>6 DEF Accounted
    <2> QED BY <2>1, <2>2 DEF Accounted
  <1>8. FreeIsStale(e)
    <2> SUFFICES ASSUME NEW b \in Blocks \ e.bitmap, NEW j \in Offsets
                 PROVE  e.data[b][j] = Stale
      BY DEF FreeIsStale
    <2>1. CASE b \in blocks BY <1>4, <1>5, <2>1
    <2>2. CASE b \notin blocks BY <1>1, <1>4, <1>5, <2>2 DEF FreeIsStale
    <2> QED BY <2>1, <2>2
  <1>9. \A b \in Blocks \ blocks : e.data[b] = d.data[b] BY <1>4, <1>5
  <1>10. ASSUME NEW m \in Nodes, isValidNode(d, m), inodes[m] = d.inodes[m]
         PROVE  SameNode(d, e, m)
    <2>1. ASSUME NEW l \in Links, NEW b \in Blocks, d.inodes[m].directBlocks[l] = b
          PROVE  e.data[b] = d.data[b]
      <3>1. Owns(d, m, l, b) /\ Owns(e, m, l, b)
        BY <1>5, <1>10, <2>1 DEF Owns, isValidNode
      <3> QED BY <1>6, <1>9, <3>1
    <2> QED BY <1>1, <1>5, <1>10, <2>1, CellsKept
  <1>11. Sane(e) BY <1>5, <1>7, <1>8 DEF Sane
  <1>12. e.inodes = inodes /\ e.bitmap = d.bitmap \ blocks BY <1>5
  <1>13. /\ Sane(e) /\ e.inodes = inodes /\ e.bitmap = d.bitmap \ blocks
         /\ \A b \in Blocks \ blocks : e.data[b] = d.data[b]
         /\ \A m \in Nodes : /\ isValidNode(d, m) /\ inodes[m] = d.inodes[m]
                             => SameNode(d, e, m)
    BY <1>9, <1>10, <1>11, <1>12
  <1> QED BY <1>13 DEF e

LEMMA BlocksOf ==
  ASSUME NEW d \in Disk, NEW n \in Nodes, NEW links \in SUBSET Links
  PROVE  /\ blocksOf(d, n, links) \subseteq Blocks
         /\ \A b \in Blocks : b \in blocksOf(d, n, links) <=>
               \E l \in links : d.inodes[n].directBlocks[l] = b
  BY DiskTypes, Sizes DEF blocksOf

(* releaseBlock                                                             *)
LEMMA ReleaseBlocksEffect ==
  ASSUME NEW d, Sane(d), NEW n \in Nodes, isValidNode(d, n), NEW links \in SUBSET Links
  PROVE  LET e == releaseBlocks(d, n, links)
         IN  /\ Sane(e)
             /\ isValidNode(e, n) /\ e.inodes[n].dir = d.inodes[n].dir
             /\ e.inodes[n].size = d.inodes[n].size
             /\ \A i \in Positions : Cell(e, n, i) = IF i \div blockSize \in links THEN Wild
                                                     ELSE Cell(d, n, i)
             /\ \A m \in Nodes : m # n => e.inodes[m] = d.inodes[m]
             /\ \A m \in Nodes : m # n /\ isValidNode(d, m) => SameNode(d, e, m)
  <1> DEFINE e == releaseBlocks(d, n, links)
             blocks == blocksOf(d, n, links)
             direct == [l \in Links |-> IF l \in links THEN invalidBlock
                                        ELSE d.inodes[n].directBlocks[l]]
             inodes == [d.inodes EXCEPT ![n].directBlocks = direct]
  <1>1. d \in Disk /\ Accounted(d) BY DEF Sane
  <1>2. direct \in [Links -> Blocks \cup {invalidBlock}] BY <1>1, DiskTypes
  <1>3. \A l \in Links : direct[l] = IF l \in links THEN invalidBlock
                                     ELSE d.inodes[n].directBlocks[l]
    OBVIOUS
  <1>4. e = clearBlocks(d, blocks, inodes) BY DEF releaseBlocks
  <1> HIDE DEF direct
  <1>5. /\ inodes \in [Nodes -> Inode]
        /\ inodes[n] = [d.inodes[n] EXCEPT !.directBlocks = direct]
        /\ \A m \in Nodes : m # n => inodes[m] = d.inodes[m]
    <2>1. d.inodes \in [Nodes -> Inode] /\ d.inodes[n] \in Inode BY <1>1, DiskTypes
    <2>2. [d.inodes[n] EXCEPT !.directBlocks = direct] \in Inode BY <1>2, <2>1 DEF Inode
    <2> QED BY <2>1, <2>2
  <1>6. /\ inodes[n].refCount = d.inodes[n].refCount /\ inodes[n].dir = d.inodes[n].dir
        /\ inodes[n].size = d.inodes[n].size /\ inodes[n].directBlocks = direct
    <2>1. d.inodes[n] \in Inode BY <1>1, DiskTypes
    <2> QED BY <1>5, <2>1 DEF Inode
  <1>7. blocks \subseteq Blocks BY <1>1, BlocksOf
  <1> HIDE DEF inodes
  <1>8. e.inodes = inodes BY <1>4 DEF clearBlocks
  <1> HIDE DEF e
  <1>9. ASSUME NEW m \in Nodes, NEW l \in Links, NEW b \in Blocks
        PROVE  Owns(e, m, l, b) <=> Owns(d, m, l, b) /\ b \notin blocks
    <2>1. CASE m = n
      <3>1. Owns(d, n, l, b) /\ b \in blocks => l \in links
        BY <1>1, BlocksOf DEF Accounted, Owns
      <3>2. l \in links /\ Owns(d, n, l, b) => b \in blocks BY <1>1, BlocksOf DEF Owns
      <3>3. Owns(e, n, l, b) <=> l \notin links /\ Owns(d, n, l, b)
        BY <1>3, <1>6, <1>8, Sizes DEF Owns, isValidNode
      <3> QED BY <2>1, <3>1, <3>2, <3>3
    <2>2. CASE m # n
      <3>1. Owns(e, m, l, b) <=> Owns(d, m, l, b)
        BY <1>5, <1>8, <2>2 DEF Owns, isValidNode
      <3>2. Owns(d, m, l, b) => b \notin blocks
        BY <1>1, <2>2, BlocksOf DEF Accounted, Owns
      <3> QED BY <3>1, <3>2
    <2> QED BY <2>1, <2>2
  <1>10. /\ Sane(e) /\ e.bitmap = d.bitmap \ blocks
         /\ \A b \in Blocks \ blocks : e.data[b] = d.data[b]
         /\ \A m \in Nodes : isValidNode(d, m) /\ inodes[m] = d.inodes[m] => SameNode(d, e, m)
    <2> HIDE DEF blocks
    <2>1. blocks \in SUBSET Blocks /\ inodes \in [Nodes -> Inode] BY <1>5, <1>7
    <2>2. \A m \in Nodes, l \in Links, b \in Blocks :
             Owns(e, m, l, b) <=> Owns(d, m, l, b) /\ b \notin blocks
      BY <1>9
    <2>3. LET c == clearBlocks(d, blocks, inodes)
          IN  /\ Sane(c) /\ c.bitmap = d.bitmap \ blocks
              /\ \A b \in Blocks \ blocks : c.data[b] = d.data[b]
              /\ \A m \in Nodes : isValidNode(d, m) /\ inodes[m] = d.inodes[m]
                                  => SameNode(d, c, m)
      <3>1. \A m \in Nodes, l \in Links, b \in Blocks :
              Owns(clearBlocks(d, blocks, inodes), m, l, b)
                  <=> Owns(d, m, l, b) /\ b \notin blocks
        BY <1>4, <2>2
      <3> QED BY <2>1, <3>1, ClearEffect
    <2> QED BY <1>4, <2>3
  <1>11. ASSUME NEW i \in Positions
         PROVE  Cell(e, n, i) = IF i \div blockSize \in links THEN Wild ELSE Cell(d, n, i)
    <2> DEFINE l == i \div blockSize
               b == d.inodes[n].directBlocks[l]
    <2>1. l \in Links /\ b \in Blocks \cup {invalidBlock} BY <1>1, PlaceOf, DiskTypes
    <2>2. CASE l \in links BY <1>3, <1>6, <1>8, <2>1, <2>2 DEF Cell
    <2>3. CASE l \notin links
      <3>1. e.inodes[n].directBlocks[l] = b BY <1>3, <1>6, <1>8, <2>1, <2>3
      <3>2. b # invalidBlock => b \in Blocks /\ Owns(d, n, l, b) /\ Owns(e, n, l, b)
        BY <1>6, <1>8, <2>1, <3>1 DEF Owns, isValidNode
      <3>3. b # invalidBlock => e.data[b] = d.data[b] BY <1>9, <1>10, <2>1, <3>2
      <3> QED BY <2>3, <3>1, <3>3 DEF Cell
    <2> QED BY <2>2, <2>3
  <1>12. isValidNode(e, n) BY <1>6, <1>8 DEF isValidNode
  <1> QED BY <1>5, <1>6, <1>8, <1>10, <1>11, <1>12 DEF e

(* releaseNode                                                              *)
LEMMA ReleaseNodesEffect ==
  ASSUME NEW d, Sane(d), NEW S \in SUBSET Nodes, \A n \in S : isValidNode(d, n)
  PROVE  LET e == releaseNodes(d, S)
         IN  /\ Sane(e)
             /\ \A n \in S : ~isValidNode(e, n)
             /\ \A n \in Nodes \ S : e.inodes[n] = d.inodes[n]
             /\ \A n \in Nodes \ S : isValidNode(d, n) => SameNode(d, e, n)
  <1> DEFINE e == releaseNodes(d, S)
             blocks == UNION {blocksOf(d, n, Links) : n \in S}
             inodes == [n \in Nodes |-> IF n \in S THEN FreeInode ELSE d.inodes[n]]
  <1>1. d \in Disk /\ Accounted(d) BY DEF Sane
  <1>2. e = clearBlocks(d, blocks, inodes) BY DEF releaseNodes
  <1>3. \A n \in S : blocksOf(d, n, Links) \subseteq Blocks
                     /\ \A b \in Blocks : b \in blocksOf(d, n, Links) <=>
                           \E l \in Links : d.inodes[n].directBlocks[l] = b
    BY <1>1, BlocksOf
  <1>4. blocks \in SUBSET Blocks BY <1>3
  <1>5. \A b \in Blocks : b \in blocks <=>
            \E n \in S, l \in Links : d.inodes[n].directBlocks[l] = b
    BY <1>3
  <1>6. FreeInode \in Inode /\ FreeInode.refCount = 0
    <2>1. 0 \in Blocks /\ 0 \in 0..maxFilesize BY Sizes DEF Blocks
    <2> QED BY <2>1 DEF FreeInode, Inode
  <1>7. /\ inodes \in [Nodes -> Inode]
        /\ \A n \in S : inodes[n] = FreeInode
        /\ \A n \in Nodes \ S : inodes[n] = d.inodes[n]
    BY <1>1, <1>6, DiskTypes
  <1>8. e.inodes = inodes BY <1>2 DEF clearBlocks
  <1> HIDE DEF e, blocks, inodes
  <1>9. ASSUME NEW m \in Nodes, NEW l \in Links, NEW b \in Blocks
        PROVE  Owns(e, m, l, b) <=> Owns(d, m, l, b) /\ b \notin blocks
    <2>1. CASE m \in S
      <3>1. ~Owns(e, m, l, b) BY <1>6, <1>7, <1>8, <2>1 DEF Owns, isValidNode
      <3>2. Owns(d, m, l, b) => b \in blocks BY <1>5, <2>1 DEF Owns
      <3> QED BY <3>1, <3>2
    <2>2. CASE m \notin S
      <3>1. Owns(e, m, l, b) <=> Owns(d, m, l, b)
        BY <1>7, <1>8, <2>2 DEF Owns, isValidNode
      <3>2. ASSUME Owns(d, m, l, b), b \in blocks PROVE FALSE
        <4>1. PICK n \in S, k \in Links : d.inodes[n].directBlocks[k] = b BY <1>5, <3>2
        <4>2. Owns(d, n, k, b) BY <4>1 DEF Owns
        <4>3. n = m BY <1>1, <3>2, <4>2 DEF Accounted
        <4> QED BY <2>2, <4>3
      <3> QED BY <3>1, <3>2
    <2> QED BY <2>1, <2>2
  <1>10. /\ Sane(e)
         /\ \A m \in Nodes : isValidNode(d, m) /\ inodes[m] = d.inodes[m] => SameNode(d, e, m)
    <2>1. \A m \in Nodes, l \in Links, b \in Blocks :
              Owns(clearBlocks(d, blocks, inodes), m, l, b)
                  <=> Owns(d, m, l, b) /\ b \notin blocks
      BY <1>2, <1>9
    <2>2. LET c == clearBlocks(d, blocks, inodes)
          IN  /\ Sane(c)
              /\ \A m \in Nodes : isValidNode(d, m) /\ inodes[m] = d.inodes[m]
                                  => SameNode(d, c, m)
      BY <1>4, <1>7, <2>1, ClearEffect
    <2> QED BY <1>2, <2>2
  <1>11. \A n \in S : ~isValidNode(e, n) BY <1>6, <1>7, <1>8 DEF isValidNode
  <1> QED BY <1>7, <1>8, <1>10, <1>11 DEF e

(* reserveBlock: the missing links get different free blocks.               *)
Missing(d, n, size) ==
    {l \in RequiredLinks(size) : d.inodes[n].directBlocks[l] = invalidBlock}
Rank(d, n, size, l) == Cardinality({m \in Missing(d, n, size) : m < l})
Given(d, n, size) ==
    {l \in Missing(d, n, size) : Rank(d, n, size, l) < Cardinality(freeBlocks(d))}
NewBlock(d, n, size, l) == Nth(freeBlocks(d), Rank(d, n, size, l))

LEMMA NewBlocks ==
  ASSUME NEW d \in Disk, NEW n \in Nodes, NEW size
  PROVE  /\ Given(d, n, size) \subseteq Links
         /\ \A l \in Given(d, n, size) :
               /\ d.inodes[n].directBlocks[l] = invalidBlock
               /\ NewBlock(d, n, size, l) \in Blocks \ d.bitmap
         /\ \A l, k \in Given(d, n, size) :
               NewBlock(d, n, size, l) = NewBlock(d, n, size, k) => l = k
  <1> DEFINE M == Missing(d, n, size)
             F == freeBlocks(d)
  <1>1. M \in SUBSET Nat /\ IsFiniteSet(M) /\ M \subseteq Links
    <2>1. M \subseteq Links BY DEF Missing, RequiredLinks
    <2> QED BY <2>1, Sizes, FS_Subset
  <1>2. F \in SUBSET Nat /\ IsFiniteSet(F) /\ F = Blocks \ d.bitmap
    <2>1. F = Blocks \ d.bitmap BY DEF freeBlocks
    <2> QED BY <2>1, Sizes, FS_Subset
  <1>3. Cardinality(M) \in Nat BY <1>1, FS_CardinalityType
  <1>4. \A l \in M : Rank(d, n, size, l) \in Nat
    <2> SUFFICES ASSUME NEW l \in M PROVE Rank(d, n, size, l) \in Nat OBVIOUS
    <2> HIDE DEF M
    <2>1. Cardinality({z \in M : z < l}) \in 0..(Cardinality(M) - 1) BY <1>1, CountsDiffer
    <2> QED BY <1>3, <2>1 DEF Rank, M
  <1>5. \A l, k \in M : Rank(d, n, size, l) = Rank(d, n, size, k) => l = k
    <2> SUFFICES ASSUME NEW l \in M, NEW k \in M,
                        Rank(d, n, size, l) = Rank(d, n, size, k)
                 PROVE  l = k
      OBVIOUS
    <2>1. Cardinality({z \in M : z < l}) = Cardinality({z \in M : z < k}) BY DEF Rank
    <2> HIDE DEF M
    <2> QED BY <1>1, <2>1, CountsDiffer
  <1>6. \A l \in Given(d, n, size) : l \in M /\ Rank(d, n, size, l) < Cardinality(F)
    BY DEF Given
  <1> HIDE DEF M, F
  <1>7. \A l \in Given(d, n, size) :
           /\ Nth(F, Rank(d, n, size, l)) \in F
           /\ Cardinality({y \in F : y < Nth(F, Rank(d, n, size, l))}) = Rank(d, n, size, l)
    <2> SUFFICES ASSUME NEW l \in Given(d, n, size)
        PROVE  /\ Nth(F, Rank(d, n, size, l)) \in F
               /\ Cardinality({y \in F : y < Nth(F, Rank(d, n, size, l))}) = Rank(d, n, size, l)
      OBVIOUS
    <2>1. PICK k : k = Rank(d, n, size, l) OBVIOUS
    <2>2. k \in Nat /\ k < Cardinality(F) BY <1>4, <1>6, <2>1
    <2>3. F \in SUBSET Nat /\ IsFiniteSet(F) BY <1>2
    <2>4. Nth(F, k) \in F /\ Cardinality({y \in F : y < Nth(F, k)}) = k
      BY <2>2, <2>3, NthExists
    <2> QED BY <2>1, <2>4
  <1>8. \A l \in Given(d, n, size) : NewBlock(d, n, size, l) = Nth(F, Rank(d, n, size, l))
    BY DEF NewBlock, F
  <1>9. Given(d, n, size) \subseteq Links BY <1>1, <1>6
  <1>10. \A l \in Given(d, n, size) :
            /\ d.inodes[n].directBlocks[l] = invalidBlock
            /\ NewBlock(d, n, size, l) \in Blocks \ d.bitmap
    BY <1>2, <1>7, <1>8 DEF Given, Missing
  <1>11. ASSUME NEW l \in Given(d, n, size), NEW k \in Given(d, n, size),
                NewBlock(d, n, size, l) = NewBlock(d, n, size, k)
         PROVE  l = k
    <2>1. Nth(F, Rank(d, n, size, l)) = Nth(F, Rank(d, n, size, k)) BY <1>8, <1>11
    <2>2. Rank(d, n, size, l) = Rank(d, n, size, k) BY <1>7, <2>1
    <2> QED BY <1>5, <1>6, <2>2
  <1> QED BY <1>9, <1>10, <1>11

LEMMA GrowIs ==
  ASSUME NEW d, NEW n, NEW size
  PROVE  grow(d, n, size) =
           [inodes |-> [d.inodes EXCEPT ![n].size = size,
                           ![n].directBlocks = [l \in Links |->
                               IF l \in Given(d, n, size) THEN NewBlock(d, n, size, l)
                               ELSE @[l]]],
            bitmap |-> d.bitmap \cup {NewBlock(d, n, size, l) : l \in Given(d, n, size)},
            data |-> d.data]
  BY DEF grow, Given, NewBlock, Rank, Missing

LEMMA GrowEffect ==
  ASSUME NEW d, Sane(d), NEW n \in Nodes, isValidNode(d, n), NEW size \in 0..maxFilesize
  PROVE  LET e == grow(d, n, size)
         IN  /\ Sane(e)
             /\ isValidNode(e, n) /\ e.inodes[n].dir = d.inodes[n].dir
             /\ e.inodes[n].size = size
             /\ \A i \in Positions : IF Cell(d, n, i) # Wild THEN Cell(e, n, i) = Cell(d, n, i)
                                     ELSE Cell(e, n, i) \in {Wild, Stale}
             /\ \A m \in Nodes : m # n => e.inodes[m] = d.inodes[m]
             /\ \A m \in Nodes : m # n /\ isValidNode(d, m) => SameNode(d, e, m)
  <1> DEFINE e == grow(d, n, size)
             G == Given(d, n, size)
             new(l) == NewBlock(d, n, size, l)
             direct == [l \in Links |-> IF l \in G THEN new(l)
                                        ELSE d.inodes[n].directBlocks[l]]
             node == [d.inodes[n] EXCEPT !.size = size, !.directBlocks = direct]
             inodes == [d.inodes EXCEPT ![n] = node]
  <1>1. d \in Disk /\ Accounted(d) /\ FreeIsStale(d) BY DEF Sane
  <1>2. /\ G \subseteq Links
        /\ \A l \in G : /\ d.inodes[n].directBlocks[l] = invalidBlock
                        /\ new(l) \in Blocks \ d.bitmap
        /\ \A l, k \in G : new(l) = new(k) => l = k
    BY <1>1, NewBlocks
  <1>3. e = [inodes |-> inodes, bitmap |-> d.bitmap \cup {new(l) : l \in G}, data |-> d.data]
    <2>1. [d.inodes EXCEPT ![n].size = size,
                           ![n].directBlocks = [l \in Links |->
                               IF l \in G THEN new(l) ELSE @[l]]] = inodes
      <3>1. d.inodes \in [Nodes -> Inode] /\ d.inodes[n] \in Inode BY <1>1, DiskTypes
      <3> QED BY <3>1 DEF Inode
    <2> QED BY <2>1, GrowIs
  <1> HIDE DEF G, new
  <1>4. direct \in [Links -> Blocks \cup {invalidBlock}]
        /\ \A l \in Links : direct[l] = IF l \in G THEN new(l) ELSE d.inodes[n].directBlocks[l]
    BY <1>1, <1>2, DiskTypes
  <1> HIDE DEF direct
  <1>5. /\ node \in Inode
        /\ node.refCount = d.inodes[n].refCount /\ node.dir = d.inodes[n].dir
        /\ node.size = size /\ node.directBlocks = direct
    <2>1. d.inodes[n] \in Inode BY <1>1, DiskTypes
    <2> QED BY <1>4, <2>1 DEF Inode
  <1> HIDE DEF node
  <1>6. /\ inodes \in [Nodes -> Inode] /\ inodes[n] = node
        /\ \A m \in Nodes : m # n => inodes[m] = d.inodes[m]
    BY <1>1, <1>5, DiskTypes
  <1> HIDE DEF inodes
  <1> DEFINE bitmap == d.bitmap \cup {new(l) : l \in G}
  <1>7. bitmap \in SUBSET Blocks /\ d.data \in [Blocks -> [Offsets -> Content]]
    BY <1>1, <1>2, DiskTypes
  <1>8. \A b \in Blocks : b \in bitmap <=> b \in d.bitmap \/ \E l \in G : b = new(l)
    OBVIOUS
  <1> HIDE DEF bitmap, e
  <1>9. e.inodes = inodes /\ e.bitmap = bitmap /\ e.data = d.data
    BY <1>3 DEF bitmap
  <1>10. e \in Disk BY <1>3, <1>6, <1>7 DEF Disk, bitmap
  <1>11. ASSUME NEW l \in Links, NEW b \in Blocks
         PROVE  Owns(e, n, l, b) <=> (l \in G /\ b = new(l)) \/ Owns(d, n, l, b)
    <2>1. isValidNode(e, n) BY <1>5, <1>6, <1>9 DEF isValidNode
    <2>2. e.inodes[n].directBlocks[l] = IF l \in G THEN new(l)
                                        ELSE d.inodes[n].directBlocks[l]
      BY <1>4, <1>5, <1>6, <1>9
    <2>3. l \in G => ~Owns(d, n, l, b) BY <1>2, Sizes DEF Owns
    <2> QED BY <2>1, <2>2, <2>3 DEF Owns
  <1>12. \A m \in Nodes, l \in Links, b \in Blocks :
            m # n => (Owns(e, m, l, b) <=> Owns(d, m, l, b))
    BY <1>6, <1>9 DEF Owns, isValidNode
  <1>13. Accounted(e)
    <2>1. ASSUME NEW b \in Blocks
          PROVE  b \in e.bitmap <=> \E m \in Nodes, l \in Links : Owns(e, m, l, b)
      <3>1. b \in d.bitmap <=> \E m \in Nodes, l \in Links : Owns(d, m, l, b)
        BY <1>1 DEF Accounted
      <3>2. (\E m \in Nodes, l \in Links : Owns(e, m, l, b))
              <=> (\E l \in G : b = new(l)) \/ \E m \in Nodes, l \in Links : Owns(d, m, l, b)
        BY <1>2, <1>11, <1>12
      <3> QED BY <1>8, <1>9, <3>1, <3>2
    <2>2. ASSUME NEW m \in Nodes, NEW k \in Nodes, NEW l \in Links, NEW j \in Links,
                 NEW b \in Blocks, Owns(e, m, l, b), Owns(e, k, j, b)
          PROVE  m = k /\ l = j
      <3>1. Owns(d, m, l, b) \/ (m = n /\ l \in G /\ b = new(l)) BY <1>11, <1>12, <2>2
      <3>2. Owns(d, k, j, b) \/ (k = n /\ j \in G /\ b = new(j)) BY <1>11, <1>12, <2>2
      <3>3. Owns(d, m, l, b) \/ Owns(d, k, j, b) => b \in d.bitmap BY <1>1 DEF Accounted
      <3>4. \A i \in G : new(i) \notin d.bitmap BY <1>2
      <3>5. CASE Owns(d, m, l, b) /\ Owns(d, k, j, b) BY <1>1, <3>5 DEF Accounted
      <3> QED BY <1>2, <3>1, <3>2, <3>3, <3>4, <3>5
    <2> QED BY <2>1, <2>2 DEF Accounted
  <1>14. FreeIsStale(e) BY <1>1, <1>8, <1>9 DEF FreeIsStale
  <1>15. ASSUME NEW m \in Nodes, m # n PROVE SameNode(d, e, m)
    BY <1>1, <1>6, <1>9, <1>10, <1>15, CellsKept
  <1>16. ASSUME NEW i \in Positions
         PROVE  IF Cell(d, n, i) # Wild THEN Cell(e, n, i) = Cell(d, n, i)
                ELSE Cell(e, n, i) \in {Wild, Stale}
    <2> DEFINE l == i \div blockSize
    <2>1. l \in Links /\ i % blockSize \in Offsets BY PlaceOf
    <2>2. e.inodes[n].directBlocks[l] = IF l \in G THEN new(l)
                                        ELSE d.inodes[n].directBlocks[l]
      BY <1>4, <1>5, <1>6, <1>9, <2>1
    <2>3. CASE l \in G
      <3>1. Cell(d, n, i) = Wild BY <1>2, <2>3 DEF Cell
      <3>2. new(l) \in Blocks \ d.bitmap BY <1>2, <2>3
      <3>3. Cell(e, n, i) = d.data[new(l)][i % blockSize]
        BY <1>9, <2>2, <2>3, <3>2, Sizes DEF Cell
      <3>4. Cell(e, n, i) = Stale BY <1>1, <2>1, <3>2, <3>3 DEF FreeIsStale
      <3> QED BY <3>1, <3>4
    <2>4. CASE l \notin G
      <3>1. Cell(e, n, i) = Cell(d, n, i) BY <1>9, <2>2, <2>4 DEF Cell
      <3> QED BY <3>1
    <2> QED BY <2>3, <2>4
  <1>17. Sane(e) BY <1>10, <1>13, <1>14 DEF Sane
  <1>18. isValidNode(e, n) BY <1>5, <1>6, <1>9 DEF isValidNode
  <1> QED BY <1>5, <1>6, <1>9, <1>15, <1>16, <1>17, <1>18 DEF e

(* setNodeSize: the cells before the new end stay, the others may go.       *)
OthersKept(d, e, n) ==
    \A m \in Nodes : m # n => /\ e.inodes[m] = d.inodes[m]
                              /\ isValidNode(d, m) => SameNode(d, e, m)

LEMMA OthersKeptTwice ==
  ASSUME NEW d, NEW e, NEW g, NEW n, OthersKept(d, e, n), OthersKept(e, g, n)
  PROVE  OthersKept(d, g, n)
  <1> SUFFICES ASSUME NEW m \in Nodes, m # n
               PROVE  /\ g.inodes[m] = d.inodes[m]
                      /\ isValidNode(d, m) => SameNode(d, g, m)
    BY DEF OthersKept
  <1>1. e.inodes[m] = d.inodes[m] /\ g.inodes[m] = e.inodes[m] BY DEF OthersKept
  <1>2. isValidNode(d, m) => isValidNode(e, m) BY <1>1 DEF isValidNode
  <1>3. isValidNode(d, m) => SameNode(d, e, m) /\ SameNode(e, g, m)
    BY <1>2 DEF OthersKept
  <1> QED BY <1>1, <1>3 DEF SameNode

Resized(d, e, n, size) ==
    /\ Sane(e) /\ isValidNode(e, n) /\ e.inodes[n].dir = d.inodes[n].dir
    /\ e.inodes[n].size = size
    /\ \A i \in Positions :
          /\ Cell(e, n, i) \in {Cell(d, n, i), Wild, Stale}
          /\ i < size /\ Cell(d, n, i) # Wild => Cell(e, n, i) = Cell(d, n, i)
    /\ OthersKept(d, e, n)

LEMMA SetNodeSizeEffect ==
  ASSUME NEW d, Sane(d), NEW n \in Nodes, isValidNode(d, n), NEW size \in 0..maxFilesize
  PROVE  Resized(d, setNodeSize(d, n, size), n, size)
  <1> DEFINE g == grow(d, n, size)
             links == Links \ RequiredLinks(size)
             e == releaseBlocks(g, n, links)
  <1>1. /\ Sane(g)
        /\ isValidNode(g, n) /\ g.inodes[n].dir = d.inodes[n].dir
        /\ g.inodes[n].size = size
        /\ \A i \in Positions : IF Cell(d, n, i) # Wild THEN Cell(g, n, i) = Cell(d, n, i)
                                ELSE Cell(g, n, i) \in {Wild, Stale}
        /\ \A m \in Nodes : m # n => g.inodes[m] = d.inodes[m]
        /\ \A m \in Nodes : m # n /\ isValidNode(d, m) => SameNode(d, g, m)
    BY GrowEffect
  <1> HIDE DEF g
  <1>2. OthersKept(d, g, n) BY <1>1 DEF OthersKept
  <1>3. Resized(d, g, n, size) BY <1>1, <1>2 DEF Resized
  <1>4. links \in SUBSET Links OBVIOUS
  <1>5. /\ Sane(e)
        /\ isValidNode(e, n) /\ e.inodes[n].dir = g.inodes[n].dir
        /\ e.inodes[n].size = g.inodes[n].size
        /\ \A i \in Positions : Cell(e, n, i) = IF i \div blockSize \in links THEN Wild
                                                ELSE Cell(g, n, i)
        /\ \A m \in Nodes : m # n => e.inodes[m] = g.inodes[m]
        /\ \A m \in Nodes : m # n /\ isValidNode(g, m) => SameNode(g, e, m)
    <2> HIDE DEF links
    <2> QED BY <1>1, <1>4, ReleaseBlocksEffect
  <1> HIDE DEF e
  <1>6. OthersKept(g, e, n) BY <1>5 DEF OthersKept
  <1>7. OthersKept(d, e, n) BY <1>2, <1>6, OthersKeptTwice
  <1>8. \A i \in Positions : i < size => i \div blockSize \notin links
    <2>1. size \in Nat BY Sizes
    <2> QED BY <2>1, RequiredOf
  <1>9. Resized(d, e, n, size) BY <1>1, <1>5, <1>7, <1>8 DEF Resized
  <1>10. setNodeSize(d, n, size) \in {g, e}
    <2>1. ~(size > maxFilesize) BY Sizes
    <2> QED BY <2>1 DEF setNodeSize, cut, g, e, links
  <1> QED BY <1>3, <1>9, <1>10

LEMMA LeastExists ==
  ASSUME NEW S \in SUBSET Nat, S # {}
  PROVE  \E x \in S : \A y \in S : x <= y
  <1>1. PICK x \in S : \A y \in S : ~(<<y, x>> \in OpToRel(<, Nat))
    BY NatLessThanWellFounded, WFMin
  <1>2. ASSUME NEW y \in S PROVE x <= y
    <2>1. <<y, x>> \in Nat \X Nat OBVIOUS
    <2>2. ~(y < x) BY <1>1, <2>1 DEF OpToRel
    <2> QED BY <2>2
  <1> QED BY <1>2

LEMMA GreatestExists ==
  ASSUME NEW N \in Nat, NEW S \in SUBSET (0..N), S # {}
  PROVE  \E x \in S : \A y \in S : y <= x
  <1> DEFINE T == {m \in Nat : N - m \in S}
  <1>1. \A k \in S : N - k \in T
    <2> SUFFICES ASSUME NEW k \in S PROVE N - k \in T OBVIOUS
    <2>1. k \in 0..N OBVIOUS
    <2>2. N - k \in Nat /\ N - (N - k) = k BY <2>1
    <2> QED BY <2>2
  <1>2. T \in SUBSET Nat /\ T # {} BY <1>1
  <1>3. PICK m \in T : \A y \in T : m <= y
    <2> HIDE DEF T
    <2> QED BY <1>2, LeastExists
  <1>4. m \in Nat /\ N - m \in S OBVIOUS
  <1>5. ASSUME NEW y \in S PROVE y <= N - m
    <2>1. m <= N - y BY <1>1, <1>3
    <2>2. y \in 0..N OBVIOUS
    <2> QED BY <1>4, <2>1, <2>2
  <1> QED BY <1>4, <1>5

(* The loop of writeNode, as far as the blocks go.                          *)
LEMMA WriteCellsEffect ==
  ASSUME NEW d, Sane(d), NEW n \in Nodes, isValidNode(d, n),
         NEW from \in Nat, NEW to \in from..maxFilesize,
         NEW cells, \A k \in 1..(to - from) : cells[k] \in Content
  PROVE  LET w == writeCells(d, n, cells, from, to)
             e == w.fs
         IN  /\ w.written \in 0..(to - from)
             /\ w.written < to - from => Cell(d, n, from + w.written) = Wild
             /\ Sane(e) /\ e.inodes = d.inodes /\ isValidNode(e, n)
             /\ \A i \in Positions :
                   Cell(e, n, i) = IF i \in from..(from + w.written - 1)
                                   THEN cells[i - from + 1] ELSE Cell(d, n, i)
             /\ OthersKept(d, e, n)
  <1> DEFINE N == to - from
             backed == {k \in 0..N :
                          \A i \in from..(from + k - 1) : Cell(d, n, i) # Wild}
             max == CHOOSE k \in backed : \A m \in backed : m <= k
             new == [i \in from..(from + max - 1) |-> cells[i - from + 1]]
             e == PutCells(d, n, new)
  <1>1. N \in Nat /\ to \in Nat /\ maxFilesize \in Nat /\ to <= maxFilesize /\ to = from + N
    BY Sizes
  <1>2. writeCells(d, n, cells, from, to) = [fs |-> e, written |-> max]
    BY DEF writeCells
  <1>3. 0 \in backed
    <2>1. from..(from + 0 - 1) = {} OBVIOUS
    <2> HIDE DEF N
    <2> QED BY <1>1, <2>1
  <1>4. \E x \in backed : \A y \in backed : y <= x
    <2>1. backed \in SUBSET (0..N) OBVIOUS
    <2> HIDE DEF backed, N
    <2> QED BY <1>1, <1>3, <2>1, GreatestExists
  <1>5. max \in backed /\ \A y \in backed : y <= max
    <2> HIDE DEF backed
    <2> QED BY <1>4
  <1>6. /\ max \in 0..N
        /\ \A i \in from..(from + max - 1) : Cell(d, n, i) # Wild
    BY <1>5
  <1>7. ASSUME max < N PROVE Cell(d, n, from + max) = Wild
    <2>1. SUFFICES ASSUME Cell(d, n, from + max) # Wild PROVE FALSE OBVIOUS
    <2> HIDE DEF max, N
    <2>2. max + 1 \in 0..N BY <1>1, <1>6, <1>7
    <2>3. ASSUME NEW i \in from..(from + (max + 1) - 1) PROVE Cell(d, n, i) # Wild
      <3>1. i = from + max \/ i \in from..(from + max - 1) BY <1>6, <1>1
      <3> QED BY <1>6, <2>1, <3>1
    <2>4. max + 1 \in backed BY <2>2, <2>3
    <2> HIDE DEF backed
    <2>5. max + 1 <= max BY <1>5, <2>4
    <2> QED BY <1>1, <1>6, <2>5
  <1> HIDE DEF max, N
  <1>8. ASSUME NEW i \in from..(from + max - 1)
        PROVE  i \in Positions /\ i - from + 1 \in 1..N
    <2>1. i \in Int /\ from <= i /\ i <= from + max - 1 /\ max <= N /\ max \in Int
      BY <1>1, <1>6
    <2> QED BY <1>1, <2>1 DEF Positions
  <1>9. DOMAIN new \subseteq Positions /\ DOMAIN new = from..(from + max - 1)
    BY <1>8
  <1>10. \A i \in DOMAIN new : new[i] \in Content /\ Cell(d, n, i) # Wild
    BY <1>6, <1>8 DEF N
  <1>11. \A i \in from..(from + max - 1) : new[i] = cells[i - from + 1] OBVIOUS
  <1> HIDE DEF new
  <1>12. /\ Sane(e) /\ e.inodes = d.inodes
         /\ \A i \in Positions :
               Cell(e, n, i) = IF i \in DOMAIN new THEN new[i] ELSE Cell(d, n, i)
         /\ \A m \in Nodes : m # n /\ isValidNode(d, m) => SameNode(d, e, m)
    BY <1>9, <1>10, PutCellsEffect
  <1> HIDE DEF e
  <1>13. OthersKept(d, e, n) BY <1>12 DEF OthersKept
  <1>14. isValidNode(e, n) BY <1>12 DEF isValidNode
  <1>15. \A i \in Positions :
            Cell(e, n, i) = IF i \in from..(from + max - 1)
                            THEN cells[i - from + 1] ELSE Cell(d, n, i)
    BY <1>9, <1>11, <1>12
  <1> DEFINE w == writeCells(d, n, cells, from, to)
  <1>16. w.fs = e /\ w.written = max BY <1>2
  <1> HIDE DEF w
  <1>17. max < to - from => Cell(d, n, from + max) = Wild BY <1>7 DEF N
  <1>18. max \in 0..(to - from) BY <1>6 DEF N
  <1>19. /\ w.written \in 0..(to - from)
         /\ w.written < to - from => Cell(d, n, from + w.written) = Wild
         /\ Sane(w.fs) /\ w.fs.inodes = d.inodes /\ isValidNode(w.fs, n)
         /\ \A i \in Positions :
               Cell(w.fs, n, i) = IF i \in from..(from + w.written - 1)
                               THEN cells[i - from + 1] ELSE Cell(d, n, i)
         /\ OthersKept(d, w.fs, n)
    BY <1>12, <1>13, <1>14, <1>15, <1>16, <1>17, <1>18
  <1> QED BY <1>19 DEF w

(* writeNode: what was there, and the new cells.                            *)
LEMMA WriteNodeEffect ==
  ASSUME NEW d, Sane(d), NEW n \in Nodes, isValidNode(d, n),
         NEW from \in 0..maxFilesize, NEW cells \in Seq(Content)
  PROVE  LET w == writeNode(d, n, cells, from)
             e == w.fs
         IN  /\ w.written \in Nat /\ from + w.written <= maxFilesize
             /\ Sane(e) /\ isValidNode(e, n) /\ e.inodes[n].dir = d.inodes[n].dir
             /\ \A i \in Positions :
                   \/ Cell(e, n, i) \in {Cell(d, n, i), Wild, Stale}
                   \/ \E k \in 1..Len(cells) : Cell(e, n, i) = cells[k]
             /\ OthersKept(d, e, n)
  <1> DEFINE size == d.inodes[n].size
             to == IF from + Len(cells) > maxFilesize THEN maxFilesize
                   ELSE from + Len(cells)
             g == IF to > size THEN setNodeSize(d, n, to) ELSE d
             v == writeCells(g, n, cells, from, to)
             w == writeNode(d, n, cells, from)
             Goal == /\ w.written \in Nat /\ from + w.written <= maxFilesize
                     /\ Sane(w.fs) /\ isValidNode(w.fs, n)
                     /\ w.fs.inodes[n].dir = d.inodes[n].dir
                     /\ \A i \in Positions :
                           \/ Cell(w.fs, n, i) \in {Cell(d, n, i), Wild, Stale}
                           \/ \E k \in 1..Len(cells) : Cell(w.fs, n, i) = cells[k]
                     /\ OthersKept(d, w.fs, n)
  <1>0. OthersKept(d, d, n) BY DEF OthersKept, SameNode
  <1>1. size \in 0..maxFilesize /\ from \in Nat /\ maxFilesize \in Nat /\ Len(cells) \in Nat
        /\ from <= maxFilesize
    BY DiskTypes, Sizes DEF Sane
  <1>2. ASSUME from > size PROVE Goal
    <2>1. w = [fs |-> d, written |-> 0] BY <1>2 DEF writeNode
    <2>2. w.fs = d /\ w.written = 0 BY <2>1
    <2> HIDE DEF w
    <2> QED BY <1>0, <1>1, <2>2
  <1>3. ASSUME ~(from > size) PROVE Goal
    <2>1. w = v BY <1>3 DEF writeNode
    <2>2. to \in from..maxFilesize /\ to - from <= Len(cells) /\ to \in 0..maxFilesize
      BY <1>1
    <2> HIDE DEF w, to
    <2>3. /\ Sane(g) /\ isValidNode(g, n) /\ g.inodes[n].dir = d.inodes[n].dir
          /\ \A i \in Positions : Cell(g, n, i) \in {Cell(d, n, i), Wild, Stale}
          /\ OthersKept(d, g, n)
      <3>1. Resized(d, setNodeSize(d, n, to), n, to) BY <2>2, SetNodeSizeEffect
      <3> QED BY <1>0, <3>1 DEF Resized
    <2> HIDE DEF g
    <2>4. \A k \in 1..(to - from) : cells[k] \in Content /\ k \in 1..Len(cells)
      <3>1. to - from \in Int BY <1>1, <2>2
      <3> QED BY <1>1, <2>2, <3>1
    <2>5. /\ v.written \in 0..(to - from)
          /\ Sane(v.fs) /\ v.fs.inodes = g.inodes /\ isValidNode(v.fs, n)
          /\ \A i \in Positions :
                Cell(v.fs, n, i) = IF i \in from..(from + v.written - 1)
                                   THEN cells[i - from + 1] ELSE Cell(g, n, i)
          /\ OthersKept(g, v.fs, n)
      BY <1>1, <2>2, <2>3, <2>4, WriteCellsEffect
    <2> HIDE DEF v
    <2>6. v.written \in Nat /\ from + v.written <= maxFilesize BY <1>1, <2>2, <2>5
    <2>7. OthersKept(d, v.fs, n) BY <2>3, <2>5, OthersKeptTwice
    <2>8. ASSUME NEW i \in Positions
          PROVE  \/ Cell(v.fs, n, i) \in {Cell(d, n, i), Wild, Stale}
                 \/ \E k \in 1..Len(cells) : Cell(v.fs, n, i) = cells[k]
      <3>1. CASE i \in from..(from + v.written - 1)
        <4>1. i - from + 1 \in 1..(to - from) BY <1>1, <2>2, <2>5, <3>1
        <4>2. i - from + 1 \in 1..Len(cells) BY <2>4, <4>1
        <4> QED BY <2>5, <3>1, <4>2
      <3>2. CASE i \notin from..(from + v.written - 1) BY <2>3, <2>5, <3>2
      <3> QED BY <3>1, <3>2
    <2>9. v.fs.inodes[n].dir = d.inodes[n].dir BY <2>3, <2>5
    <2> QED BY <2>1, <2>5, <2>6, <2>7, <2>8, <2>9
  <1>4. Goal BY <1>2, <1>3
  <1> QED BY <1>4

(* writeNode of one entry at the end of a directory.                        *)
LEMMA AppendEffect ==
  ASSUME NEW d, Sane(d), NEW n \in Nodes, isValidNode(d, n), NEW entry \in Entry,
         d.inodes[n].size + 1 <= maxFilesize
  PROVE  LET size == d.inodes[n].size
             e == writeNode(d, n, <<entry>>, size).fs
         IN  /\ Sane(e) /\ isValidNode(e, n) /\ e.inodes[n].dir = d.inodes[n].dir
             /\ e.inodes[n].size = size + 1
             /\ \A i \in 0..(size - 1) :
                   Cell(d, n, i) # Wild => Cell(e, n, i) = Cell(d, n, i)
             /\ Cell(e, n, size) \in {Wild, entry}
             /\ OthersKept(d, e, n)
  <1> DEFINE size == d.inodes[n].size
             cells == <<entry>>
             to == size + 1
             g == setNodeSize(d, n, to)
             v == writeCells(g, n, cells, size, to)
             e == v.fs
  <1>1. size \in Nat /\ maxFilesize \in Nat /\ to <= maxFilesize
    BY DiskTypes, Sizes DEF Sane
  <1>2. Len(cells) = 1 /\ cells[1] = entry OBVIOUS
  <1>3. writeNode(d, n, cells, size) = v
    <2> HIDE DEF size, cells, g
    <2>1. ~(size > size) /\ to > size /\ ~(size + 1 > maxFilesize) BY <1>1
    <2> QED BY <1>2, <2>1 DEF writeNode, size, g
  <1> HIDE DEF cells, size
  <1>4. Resized(d, g, n, to) BY <1>1, SetNodeSizeEffect
  <1> HIDE DEF g
  <1>5. entry \in Content BY DEF Content
  <1>6. \A k \in 1..(to - size) : cells[k] \in Content
    <2>1. to - size = 1 BY <1>1
    <2>2. \A k \in 1..1 : k = 1 OBVIOUS
    <2> QED BY <1>2, <1>5, <2>1, <2>2
  <1>7. /\ v.written \in 0..(to - size)
        /\ v.written < to - size => Cell(g, n, size + v.written) = Wild
        /\ Sane(e) /\ e.inodes = g.inodes /\ isValidNode(e, n)
        /\ \A i \in Positions :
              Cell(e, n, i) = IF i \in size..(size + v.written - 1)
                              THEN cells[i - size + 1] ELSE Cell(g, n, i)
        /\ OthersKept(g, e, n)
    <2>1. Sane(g) /\ isValidNode(g, n) BY <1>4 DEF Resized
    <2>2. to \in size..maxFilesize BY <1>1
    <2> HIDE DEF to
    <2> QED BY <1>1, <1>6, <2>1, <2>2, WriteCellsEffect
  <1> HIDE DEF v
  <1>8. OthersKept(d, e, n) BY <1>4, <1>7, OthersKeptTwice DEF Resized
  <1>9. v.written \in {0, 1} /\ size \in Positions BY <1>1, <1>7 DEF Positions
  <1>10. ASSUME NEW i \in 0..(size - 1), Cell(d, n, i) # Wild
         PROVE  Cell(e, n, i) = Cell(d, n, i)
    <2>1. i \in Positions /\ i < to /\ i \notin size..(size + v.written - 1)
      BY <1>1, <1>9 DEF Positions
    <2> QED BY <1>4, <1>7, <1>10, <2>1 DEF Resized
  <1>11. Cell(e, n, size) \in {Wild, entry}
    <2>1. CASE v.written = 0
      <3>1. size \notin size..(size + v.written - 1) BY <1>1, <2>1
      <3>2. Cell(e, n, size) = Cell(g, n, size) BY <1>7, <1>9, <3>1
      <3>3. v.written < to - size /\ size + v.written = size BY <1>1, <2>1
      <3> QED BY <1>7, <3>2, <3>3
    <2>2. CASE v.written = 1
      <3>1. size \in size..(size + v.written - 1) /\ size - size + 1 = 1 BY <1>1, <2>2
      <3>2. Cell(e, n, size) = cells[1] BY <1>7, <1>9, <3>1
      <3> QED BY <1>2, <3>2
    <2> QED BY <1>9, <2>1, <2>2
  <1>12. e.inodes[n].dir = d.inodes[n].dir /\ e.inodes[n].size = to
    BY <1>4, <1>7 DEF Resized
  <1>13. /\ Sane(e) /\ isValidNode(e, n) /\ e.inodes[n].dir = d.inodes[n].dir
         /\ e.inodes[n].size = size + 1
         /\ \A i \in 0..(size - 1) :
               Cell(d, n, i) # Wild => Cell(e, n, i) = Cell(d, n, i)
         /\ Cell(e, n, size) \in {Wild, entry}
         /\ OthersKept(d, e, n)
    BY <1>7, <1>8, <1>10, <1>11, <1>12
  <1>14. writeNode(d, n, <<entry>>, d.inodes[n].size).fs = e BY <1>3 DEF size, cells
  <1> HIDE DEF e
  <1> QED BY <1>13, <1>14 DEF size

(* findInDirectory                                                          *)
LEMMA FindResult ==
  ASSUME NEW d \in Disk, NEW dir \in Nodes, NEW name \in Names
  PROVE  LET found == findInDirectory(d, dir, name)
         IN  /\ found \in Nodes \cup {invalidNode, Wild}
             /\ found \in Nodes =>
                   \E i \in Positions : /\ IsPlace(d, dir, i)
                                        /\ Cell(d, dir, i).node = found
                                        /\ Cell(d, dir, i).name = name
             /\ found = invalidNode /\ isDirectory(d, dir) =>
                   \A i \in 0..(d.inodes[dir].size - 1) :
                      /\ Cell(d, dir, i) # Wild
                      /\ Cell(d, dir, i) \notin [name : {name}, node : Nodes]
  <1> DEFINE found == findInDirectory(d, dir, name)
             size == d.inodes[dir].size
             hits == {i \in 0..(size - 1) : \/ Cell(d, dir, i) = Wild
                                            \/ Cell(d, dir, i) \in [name : {name}, node : Nodes]}
             hit == Nth(hits, 0)
             Goal == /\ found \in Nodes \cup {invalidNode, Wild}
                     /\ found \in Nodes =>
                           \E i \in Positions : /\ IsPlace(d, dir, i)
                                                /\ Cell(d, dir, i).node = found
                                                /\ Cell(d, dir, i).name = name
                     /\ found = invalidNode /\ isDirectory(d, dir) =>
                           \A i \in 0..(size - 1) :
                              /\ Cell(d, dir, i) # Wild
                              /\ Cell(d, dir, i) \notin [name : {name}, node : Nodes]
  <1>1. size \in Nat /\ size <= maxFilesize /\ maxFilesize \in Nat BY DiskTypes, Sizes
  <1>2. found = IF ~isDirectory(d, dir) \/ hits = {} THEN invalidNode
                ELSE IF Cell(d, dir, hit) = Wild THEN Wild ELSE Cell(d, dir, hit).node
    BY DEF findInDirectory
  <1>3. invalidNode \notin Nodes /\ Wild \notin Nodes /\ Wild # invalidNode BY Sizes
  <1>4. \A i \in 0..(size - 1) : i \in Positions /\ i < size BY <1>1 DEF Positions
  <1>5. hits # {} => hit \in hits
    <2>1. hits \in SUBSET Nat /\ hits \in SUBSET (0..(size - 1)) BY <1>1
    <2>2. IsFiniteSet(0..(size - 1))
      <3>1. 0 \in Int /\ size - 1 \in Int BY <1>1
      <3> HIDE DEF size
      <3> QED BY <3>1, FS_Interval
    <2>3. IsFiniteSet(hits) BY <2>1, <2>2, FS_Subset
    <2> HIDE DEF hits
    <2> QED BY <2>1, <2>3, FirstExists
  <1>6. ASSUME ~isDirectory(d, dir) PROVE Goal
    <2> HIDE DEF found
    <2> QED BY <1>2, <1>3, <1>6
  <1>7. ASSUME isDirectory(d, dir), hits = {} PROVE Goal
    <2> HIDE DEF found
    <2> QED BY <1>2, <1>3, <1>7
  <1>8. ASSUME isDirectory(d, dir), hits # {} PROVE Goal
    <2>1. hit \in hits BY <1>5, <1>8
    <2> HIDE DEF found, hit
    <2>2. hit \in 0..(size - 1) /\ hit \in Positions /\ hit < size BY <1>4, <2>1
    <2>3. CASE Cell(d, dir, hit) = Wild
      <3>1. found = Wild BY <1>2, <1>8, <2>3
      <3> QED BY <1>3, <3>1
    <2>4. CASE Cell(d, dir, hit) # Wild
      <3>1. Cell(d, dir, hit) \in [name : {name}, node : Nodes] BY <2>1, <2>4
      <3>2. Cell(d, dir, hit).name = name /\ Cell(d, dir, hit).node \in Nodes BY <3>1
      <3>3. found = Cell(d, dir, hit).node BY <1>2, <1>8, <2>4
      <3>4. IsPlace(d, dir, hit) BY <1>8, <2>2, <2>4 DEF IsPlace
      <3> QED BY <1>3, <2>2, <3>2, <3>3, <3>4
    <2> QED BY <2>3, <2>4
  <1>9. Goal BY <1>6, <1>7, <1>8
  <1> QED BY <1>9

(* reserveFreeNode                                                          *)
LEMMA FreeNode ==
  ASSUME NEW d \in Disk
  PROVE  \/ freeNode(d) = invalidNode
         \/ freeNode(d) \in Nodes /\ ~isValidNode(d, freeNode(d))
  <1> DEFINE free == {n \in Nodes : d.inodes[n].refCount = 0}
  <1>1. free \in SUBSET Nat /\ IsFiniteSet(free)
    <2>1. free \subseteq Nodes OBVIOUS
    <2> QED BY <2>1, Sizes, FS_Subset
  <1>2. free # {} => Nth(free, 0) \in free
    <2> HIDE DEF free
    <2> QED BY <1>1, FirstExists
  <1> QED BY <1>2 DEF freeNode, isValidNode

LEMMA ReserveEffect ==
  ASSUME NEW d, Sane(d), NEW n \in Nodes, ~isValidNode(d, n), NEW isDir \in BOOLEAN
  PROVE  LET e == [d EXCEPT !.inodes[n] = NewInode(isDir)]
         IN  /\ Sane(e) /\ isValidNode(e, n)
             /\ e.inodes[n].dir = isDir /\ e.inodes[n].size = 0
             /\ \A i \in Positions : Cell(e, n, i) = Wild
             /\ OthersKept(d, e, n)
  <1> DEFINE node == NewInode(isDir)
             inodes == [d.inodes EXCEPT ![n] = node]
             e == [d EXCEPT !.inodes[n] = NewInode(isDir)]
  <1>1. d \in Disk BY DEF Sane
  <1>2. /\ node \in Inode /\ node.refCount = 1 /\ node.dir = isDir /\ node.size = 0
        /\ \A l \in Links : node.directBlocks[l] = invalidBlock
    <2>1. 0 \in 0..maxFilesize BY Sizes
    <2> QED BY <2>1 DEF NewInode, Inode
  <1>3. e = [inodes |-> inodes, bitmap |-> d.bitmap, data |-> d.data] BY <1>1 DEF Disk
  <1> HIDE DEF node
  <1>4. /\ inodes \in [Nodes -> Inode] /\ inodes[n] = node
        /\ \A m \in Nodes : m # n => inodes[m] = d.inodes[m]
    BY <1>1, <1>2, DiskTypes
  <1> HIDE DEF inodes, e
  <1>5. e \in Disk
    <2>1. d.bitmap \in SUBSET Blocks /\ d.data \in [Blocks -> [Offsets -> Content]]
      BY <1>1, DiskTypes
    <2> QED BY <1>3, <1>4, <2>1 DEF Disk
  <1>6. e.inodes = inodes /\ e.bitmap = d.bitmap /\ e.data = d.data BY <1>3
  <1>7. \A m \in Nodes, l \in Links, b \in Blocks : Owns(e, m, l, b) <=> Owns(d, m, l, b)
    <2> SUFFICES ASSUME NEW m \in Nodes, NEW l \in Links, NEW b \in Blocks
                 PROVE  Owns(e, m, l, b) <=> Owns(d, m, l, b)
      OBVIOUS
    <2>1. CASE m = n
      <3>1. e.inodes[n].directBlocks[l] = invalidBlock BY <1>2, <1>4, <1>6
      <3> QED BY <2>1, <3>1, Sizes DEF Owns
    <2>2. CASE m # n BY <1>4, <1>6, <2>2 DEF Owns, isValidNode
    <2> QED BY <2>1, <2>2
  <1>8. Sane(e) BY <1>5, <1>6, <1>7, SaneFrom
  <1>9. OthersKept(d, e, n)
    <2> SUFFICES ASSUME NEW m \in Nodes, m # n
                 PROVE  e.inodes[m] = d.inodes[m] /\ SameNode(d, e, m)
      BY DEF OthersKept
    <2>1. e.inodes[m] = d.inodes[m] BY <1>4, <1>6
    <2> QED BY <1>1, <1>5, <1>6, <2>1, CellsKept
  <1>10. \A i \in Positions : Cell(e, n, i) = Wild
    BY <1>2, <1>4, <1>6, PlaceOf DEF Cell
  <1>11. isValidNode(e, n) BY <1>2, <1>4, <1>6 DEF isValidNode
  <1>12. e.inodes[n].dir = isDir /\ e.inodes[n].size = 0 BY <1>2, <1>4, <1>6
  <1> QED BY <1>8, <1>9, <1>10, <1>11, <1>12 DEF e

(* createFile: a new inode, named by its directory unless that is full.     *)
KindsKept(d, e) ==
    \A m \in Nodes : isValidNode(d, m) =>
        isValidNode(e, m) /\ e.inodes[m].dir = d.inodes[m].dir

FilesKept(d, e) ==
    \A m \in Nodes : isValidNode(d, m) /\ ~isDirectory(d, m) => SameNode(d, e, m)

Extended(d, e) == DiskInv(e) /\ KindsKept(d, e) /\ FilesKept(d, e)

LEMMA ExtendedTwice ==
  ASSUME NEW d, NEW e, NEW g, Extended(d, e), Extended(e, g)
  PROVE  Extended(d, g)
  <1>1. KindsKept(d, g) BY DEF Extended, KindsKept
  <1>2. FilesKept(d, g)
    BY DEF Extended, KindsKept, FilesKept, SameNode, isDirectory
  <1> QED BY <1>1, <1>2 DEF Extended

LEMMA ExtendedSelf ==
  ASSUME NEW d, DiskInv(d)
  PROVE  Extended(d, d)
  BY DEF Extended, KindsKept, FilesKept, SameNode

LEMMA SamePlaces ==
  ASSUME NEW d, NEW e, NEW m \in Nodes, SameNode(d, e, m)
  PROVE  /\ isValidNode(e, m) <=> isValidNode(d, m)
         /\ isDirectory(e, m) <=> isDirectory(d, m)
         /\ \A i \in Positions : IsPlace(e, m, i) <=> IsPlace(d, m, i)
  BY DEF SameNode, isValidNode, isDirectory, IsPlace

LEMMA Sized ==
  ASSUME NEW d \in Disk, NEW n \in Nodes
  PROVE  /\ d.inodes[n].size \in Nat /\ d.inodes[n].size <= maxFilesize
         /\ maxFilesize \in Nat
         /\ \A i \in 0..(d.inodes[n].size - 1) : i \in Positions /\ i < d.inodes[n].size
  BY DiskTypes, Sizes DEF Positions

(* A directory with one entry more, of a node and a name that it lacked.    *)
Named(d, e, dir, entry) ==
    /\ Sane(d) /\ FilesHold(d) /\ DirsHold(d) /\ NamesInv(d)
    /\ isDirectory(d, dir) /\ isDirectory(e, dir) /\ Sane(e)
    /\ e.inodes[dir].size = d.inodes[dir].size + 1
    /\ \A i \in 0..(d.inodes[dir].size - 1) :
          /\ Cell(d, dir, i) # Wild /\ Cell(e, dir, i) = Cell(d, dir, i)
          /\ Cell(d, dir, i).name # entry.name
    /\ Cell(e, dir, d.inodes[dir].size) \in {Wild, entry}
    /\ \A m \in Nodes \ {dir} : isValidNode(d, m) => SameNode(d, e, m)
    /\ ~isValidNode(d, entry.node) /\ isValidNode(e, entry.node)
    /\ \A m \in Nodes : isDirectory(e, m) => isDirectory(d, m) \/ e.inodes[m].size = 0
    /\ entry.node # rootNode

LEMMA NamedPlaces ==
  ASSUME NEW d, NEW e, NEW dir \in Nodes, NEW entry \in Entry, Named(d, e, dir, entry)
  PROVE  NamesInv(e) /\ DirsHold(e)
  <1> DEFINE size == d.inodes[dir].size
  <1>1. d \in Disk /\ e \in Disk BY DEF Named, Sane
  <1>2. size \in Nat /\ maxFilesize \in Nat /\ size + 1 <= maxFilesize
    BY <1>1, Sized DEF Named
  <1>3. \A m \in Nodes : isValidNode(d, m) => isValidNode(e, m)
    BY SamePlaces DEF Named, isDirectory
  <1>4. ASSUME NEW m \in Nodes, NEW i \in Positions, IsPlace(e, m, i)
        PROVE  \/ IsPlace(d, m, i) /\ Cell(e, m, i) = Cell(d, m, i)
               \/ m = dir /\ i = size /\ Cell(e, m, i) = entry
    <2>1. i \in Nat BY <1>2 DEF Positions
    <2>2. CASE m = dir
      <3>1. i < size + 1 BY <1>4, <2>2 DEF IsPlace, Named
      <3>2. CASE i < size
        <4>1. i \in 0..(size - 1) BY <1>2, <2>1, <3>2
        <4>2. Cell(d, dir, i) # Wild /\ Cell(e, dir, i) = Cell(d, dir, i)
          BY <4>1 DEF Named
        <4> QED BY <2>2, <3>2, <4>2 DEF IsPlace, Named
      <3>3. CASE i = size BY <1>4, <2>2, <3>3 DEF IsPlace, Named
      <3> QED BY <1>2, <2>1, <3>1, <3>2, <3>3
    <2>3. CASE m # dir
      <3>1. isDirectory(e, m) /\ i < e.inodes[m].size BY <1>4 DEF IsPlace
      <3>2. e.inodes[m].size # 0 BY <2>1, <3>1
      <3>3. isDirectory(d, m) BY <3>1, <3>2 DEF Named
      <3>4. SameNode(d, e, m) BY <2>3, <3>3 DEF Named, isDirectory
      <3> QED BY <1>4, <3>4, SamePlaces DEF SameNode
    <2> QED BY <2>2, <2>3
  <1>5. \A i \in Positions : IsPlace(d, dir, i) => Cell(d, dir, i).name # entry.name
    <2> SUFFICES ASSUME NEW i \in Positions, IsPlace(d, dir, i)
                 PROVE  Cell(d, dir, i).name # entry.name
      OBVIOUS
    <2>1. i \in Nat /\ i < size BY <1>2 DEF Positions, IsPlace
    <2>2. i \in 0..(size - 1) BY <1>2, <2>1
    <2> QED BY <2>2 DEF Named
  <1>6. \A m \in Nodes, i \in Positions : IsPlace(d, m, i) =>
            /\ isValidNode(d, Cell(d, m, i).node) /\ Cell(d, m, i).node # rootNode
            /\ Cell(d, m, i).node # entry.node
    BY DEF Named, NamesInv
  <1>7. ASSUME NEW m \in Nodes, NEW i \in Positions, IsPlace(e, m, i)
        PROVE  isValidNode(e, Cell(e, m, i).node) /\ Cell(e, m, i).node # rootNode
    <2>1. CASE IsPlace(d, m, i) /\ Cell(e, m, i) = Cell(d, m, i)
      <3>1. isValidNode(d, Cell(d, m, i).node) /\ Cell(d, m, i).node # rootNode
        BY <1>6, <2>1
      <3>2. Cell(d, m, i).node \in Nodes BY <3>1 DEF isValidNode
      <3> QED BY <1>3, <2>1, <3>1, <3>2
    <2>2. CASE Cell(e, m, i) = entry BY <2>2 DEF Named
    <2> QED BY <1>4, <1>7, <2>1, <2>2
  <1>8. ASSUME NEW m \in Nodes, NEW p \in Nodes, NEW i \in Positions, NEW k \in Positions,
               IsPlace(e, m, i), IsPlace(e, p, k), Cell(e, m, i).node = Cell(e, p, k).node
        PROVE  m = p /\ i = k
    <2>1. \/ IsPlace(d, m, i) /\ Cell(e, m, i) = Cell(d, m, i)
          \/ m = dir /\ i = size /\ Cell(e, m, i) = entry
      BY <1>4, <1>8
    <2>2. \/ IsPlace(d, p, k) /\ Cell(e, p, k) = Cell(d, p, k)
          \/ p = dir /\ k = size /\ Cell(e, p, k) = entry
      BY <1>4, <1>8
    <2>3. \/ IsPlace(d, m, i) /\ Cell(e, m, i) = Cell(d, m, i)
             /\ IsPlace(d, p, k) /\ Cell(e, p, k) = Cell(d, p, k)
          \/ m = dir /\ i = size /\ p = dir /\ k = size
      BY <1>6, <1>8, <2>1, <2>2
    <2> HIDE DEF size
    <2> QED BY <1>8, <2>3 DEF Named, NamesInv
  <1>9. ASSUME NEW m \in Nodes, NEW i \in Positions, NEW k \in Positions,
               IsPlace(e, m, i), IsPlace(e, m, k), Cell(e, m, i).name = Cell(e, m, k).name
        PROVE  i = k
    <2>1. \/ IsPlace(d, m, i) /\ Cell(e, m, i) = Cell(d, m, i)
          \/ m = dir /\ i = size /\ Cell(e, m, i) = entry
      BY <1>4, <1>9
    <2>2. \/ IsPlace(d, m, k) /\ Cell(e, m, k) = Cell(d, m, k)
          \/ m = dir /\ k = size /\ Cell(e, m, k) = entry
      BY <1>4, <1>9
    <2>3. \/ IsPlace(d, m, i) /\ Cell(e, m, i) = Cell(d, m, i)
             /\ IsPlace(d, m, k) /\ Cell(e, m, k) = Cell(d, m, k)
          \/ i = size /\ k = size
      BY <1>5, <1>9, <2>1, <2>2
    <2> HIDE DEF size
    <2> QED BY <1>9, <2>3 DEF Named, NamesInv
  <1>10. NamesInv(e) BY <1>7, <1>8, <1>9 DEF NamesInv
  <1>11. ASSUME NEW m \in Nodes, isDirectory(e, m), NEW i \in 0..(e.inodes[m].size - 1)
         PROVE  Cell(e, m, i) \in Entry \cup {Wild}
    <2>1. i \in Positions /\ i < e.inodes[m].size BY <1>1, Sized
    <2>2. CASE Cell(e, m, i) # Wild
      <3>1. IsPlace(e, m, i) BY <1>11, <2>1, <2>2 DEF IsPlace
      <3>2. CASE IsPlace(d, m, i) /\ Cell(e, m, i) = Cell(d, m, i)
        <4>1. isDirectory(d, m) /\ i < d.inodes[m].size /\ i \in Nat /\ d.inodes[m].size \in Nat
          BY <1>1, <1>2, <2>1, <3>2, Sized DEF IsPlace, Positions
        <4>2. i \in 0..(d.inodes[m].size - 1) BY <4>1
        <4> QED BY <3>2, <4>1, <4>2 DEF Named, DirsHold
      <3> QED BY <1>4, <2>1, <3>1, <3>2
    <2> QED BY <2>2
  <1>12. DirsHold(e) BY <1>11 DEF DirsHold
  <1> QED BY <1>10, <1>12

\* The same, of an inode that was free: it is empty, and no other has changed
\* its kind.
Made(d, e, dir, entry) ==
    /\ Named(d, e, dir, entry) /\ e.inodes[entry.node].size = 0
    /\ \A m \in Nodes \ {entry.node} : isDirectory(e, m) <=> isDirectory(d, m)

FileCreated(d, c, dir, name, isDir) ==
    /\ Extended(d, c.fs)
    /\ c.node \in Nodes \cup {invalidNode, Wild}
    /\ c.node \in Nodes => /\ isValidNode(c.fs, c.node) /\ ~isValidNode(d, c.node)
                           /\ c.fs.inodes[c.node].dir = isDir
    /\ IF c.node \in Nodes THEN Made(d, c.fs, dir, [name |-> name, node |-> c.node])
       ELSE c.fs = d

LEMMA CreateFileEffect ==
  ASSUME NEW d, DiskInv(d), NEW dir \in Nodes, NEW name \in Names, NEW isDir \in BOOLEAN
  PROVE  FileCreated(d, createFile(d, dir, name, isDir), dir, name, isDir)
  <1> DEFINE n == freeNode(d)
             found == findInDirectory(d, dir, name)
             refused == \/ ~isDirectory(d, dir)
                        \/ d.inodes[dir].size + 1 >= maxFilesize
                        \/ found # invalidNode
                        \/ n = invalidNode
             entry == [name |-> name, node |-> n]
             reserved == [d EXCEPT !.inodes[n] = NewInode(isDir)]
             e == writeNode(reserved, dir, <<entry>>, d.inodes[dir].size).fs
             size == d.inodes[dir].size
             c == createFile(d, dir, name, isDir)
             Goal == FileCreated(d, c, dir, name, isDir)
  <1>1. d \in Disk /\ Sane(d) BY DEF DiskInv, Sane
  <1>2. c = IF refused
            THEN [fs |-> d, node |-> IF found = Wild THEN Wild ELSE invalidNode]
            ELSE [fs |-> e, node |-> n]
    BY DEF createFile
  <1>3. /\ found \in Nodes \cup {invalidNode, Wild}
        /\ found = invalidNode /\ isDirectory(d, dir) =>
              \A i \in 0..(size - 1) :
                 /\ Cell(d, dir, i) # Wild
                 /\ Cell(d, dir, i) \notin [name : {name}, node : Nodes]
    BY <1>1, FindResult
  <1>4. n = invalidNode \/ (n \in Nodes /\ ~isValidNode(d, n)) BY <1>1, FreeNode
  <1>5. invalidNode \notin Nodes /\ Wild \notin Nodes BY Sizes
  <1>6. size \in Nat /\ size <= maxFilesize /\ maxFilesize \in Nat BY <1>1, Sized
  <1>7. ASSUME refused PROVE Goal
    <2>1. c.fs = d /\ c.node \in {invalidNode, Wild}
      <3> HIDE DEF c, refused
      <3> QED BY <1>2, <1>7
    <2> HIDE DEF c, refused
    <2> QED BY <1>5, <2>1, ExtendedSelf DEF FileCreated
  <1>8. ASSUME ~refused PROVE Goal
    <2>1. /\ isDirectory(d, dir) /\ found = invalidNode /\ n \in Nodes
          /\ ~isValidNode(d, n) /\ ~(size + 1 >= maxFilesize)
      BY <1>4, <1>8
    <2>2. c.fs = e /\ c.node = n
      <3> HIDE DEF c, refused, e
      <3> QED BY <1>2, <1>8
    <2> HIDE DEF c, refused
    <2>3. entry \in Entry /\ entry.node = n /\ entry.name = name BY <2>1 DEF Entry
    <2> HIDE DEF n, found, entry
    <2>4. /\ Sane(reserved) /\ isValidNode(reserved, n)
          /\ reserved.inodes[n].dir = isDir /\ reserved.inodes[n].size = 0
          /\ \A i \in Positions : Cell(reserved, n, i) = Wild
          /\ OthersKept(d, reserved, n)
      BY <1>1, <2>1, ReserveEffect
    <2> HIDE DEF reserved
    <2>5. n # dir /\ isValidNode(d, dir) BY <2>1 DEF isDirectory
    <2>6. reserved.inodes[dir] = d.inodes[dir] /\ SameNode(d, reserved, dir)
      <3>1. OthersKept(d, reserved, n) BY <2>4
      <3> QED BY <2>5, <3>1, Zenon DEF OthersKept
    <2>7. /\ Sane(e) /\ isValidNode(e, dir) /\ e.inodes[dir].dir = d.inodes[dir].dir
          /\ e.inodes[dir].size = size + 1
          /\ \A i \in 0..(size - 1) :
                Cell(reserved, dir, i) # Wild => Cell(e, dir, i) = Cell(reserved, dir, i)
          /\ Cell(e, dir, size) \in {Wild, entry}
          /\ OthersKept(reserved, e, dir)
      <3>1. isValidNode(reserved, dir) BY <2>5, <2>6 DEF isValidNode
      <3>2. reserved.inodes[dir].size = size /\ size + 1 <= maxFilesize
        BY <1>6, <2>1, <2>6
      <3>3. LET g == writeNode(reserved, dir, <<entry>>, reserved.inodes[dir].size).fs
            IN  /\ Sane(g) /\ isValidNode(g, dir)
                /\ g.inodes[dir].dir = reserved.inodes[dir].dir
                /\ g.inodes[dir].size = reserved.inodes[dir].size + 1
                /\ \A i \in 0..(reserved.inodes[dir].size - 1) :
                      Cell(reserved, dir, i) # Wild => Cell(g, dir, i) = Cell(reserved, dir, i)
                /\ Cell(g, dir, reserved.inodes[dir].size) \in {Wild, entry}
                /\ OthersKept(reserved, g, dir)
        <4>1. Sane(reserved) BY <2>4
        <4>2. entry \in Entry BY <2>3
        <4>3. reserved.inodes[dir].size + 1 <= maxFilesize BY <3>2
        <4> QED BY <3>1, <4>1, <4>2, <4>3, AppendEffect
      <3> QED BY <2>6, <3>3
    <2> HIDE DEF e
    <2>8. \A i \in 0..(size - 1) :
             /\ i \in Positions /\ Cell(d, dir, i) # Wild
             /\ Cell(e, dir, i) = Cell(d, dir, i) /\ Cell(d, dir, i).name # name
      <3> SUFFICES ASSUME NEW i \in 0..(size - 1)
                   PROVE  /\ i \in Positions /\ Cell(d, dir, i) # Wild
                          /\ Cell(e, dir, i) = Cell(d, dir, i) /\ Cell(d, dir, i).name # name
        OBVIOUS
      <3>1. i \in Positions BY <1>1, Sized
      <3>2. Cell(d, dir, i) # Wild /\ Cell(d, dir, i) \notin [name : {name}, node : Nodes]
        BY <1>3, <2>1
      <3>3. Cell(reserved, dir, i) = Cell(d, dir, i) BY <2>6, <3>1 DEF SameNode
      <3>4. Cell(d, dir, i) \in Entry BY <2>1, <3>2 DEF DiskInv, DirsHold
      <3>5. Cell(d, dir, i).name # name BY <3>2, <3>4 DEF Entry
      <3> QED BY <2>7, <3>1, <3>2, <3>3, <3>5
    <2>9. /\ e.inodes[n] = reserved.inodes[n] /\ isValidNode(e, n)
          /\ \A i \in Positions : Cell(e, n, i) = Wild
      <3>1. e.inodes[n] = reserved.inodes[n] /\ SameNode(reserved, e, n)
        BY <2>1, <2>4, <2>5, <2>7 DEF OthersKept
      <3> QED BY <2>4, <3>1 DEF SameNode, isValidNode
    <2>10. ASSUME NEW m \in Nodes, m # dir, m # n
           PROVE  /\ e.inodes[m] = d.inodes[m]
                  /\ isValidNode(d, m) => SameNode(d, e, m)
      <3>1. reserved.inodes[m] = d.inodes[m] /\ e.inodes[m] = reserved.inodes[m]
        BY <2>4, <2>7, <2>10 DEF OthersKept
      <3>2. isValidNode(d, m) => isValidNode(reserved, m) BY <3>1 DEF isValidNode
      <3>3. isValidNode(d, m) => SameNode(d, reserved, m) /\ SameNode(reserved, e, m)
        BY <2>4, <2>7, <2>10, <3>2 DEF OthersKept
      <3> QED BY <3>1, <3>3 DEF SameNode
    <2>11. isDirectory(e, dir) BY <2>1, <2>7 DEF isDirectory
    <2>12. \A m \in Nodes : isDirectory(e, m) => isDirectory(d, m) \/ e.inodes[m].size = 0
      <3> SUFFICES ASSUME NEW m \in Nodes, isDirectory(e, m)
                   PROVE  isDirectory(d, m) \/ e.inodes[m].size = 0
        OBVIOUS
      <3>1. CASE m = n BY <2>4, <2>9, <3>1
      <3>2. CASE m = dir BY <2>1, <3>2
      <3>3. CASE m # n /\ m # dir BY <2>10, <3>3 DEF isDirectory, isValidNode
      <3> QED BY <3>1, <3>2, <3>3
    <2>13. Named(d, e, dir, entry)
      <3>1. n # rootNode BY <2>1 DEF DiskInv, isDirectory
      <3>2. \A m \in Nodes \ {dir} : isValidNode(d, m) => SameNode(d, e, m)
        BY <2>1, <2>10
      <3> QED BY <2>1, <2>3, <2>7, <2>8, <2>9, <2>11, <2>12, <3>1, <3>2
              DEF Named, DiskInv
    <2>14. NamesInv(e) /\ DirsHold(e) BY <2>3, <2>13, NamedPlaces
    <2>15. FilesHold(e)
      <3> SUFFICES ASSUME NEW m \in Nodes, isValidNode(e, m), ~isDirectory(e, m),
                          NEW i \in Positions
                   PROVE  Cell(e, m, i) \in Bytes \cup {Stale, Wild}
        BY DEF FilesHold
      <3>1. CASE m = n BY <2>9, <3>1
      <3>2. m # dir BY <2>11
      <3>3. CASE m # n
        <4>1. isValidNode(d, m) /\ SameNode(d, e, m)
          BY <2>10, <3>2, <3>3 DEF isValidNode
        <4>2. ~isDirectory(d, m) BY <4>1, SamePlaces
        <4> QED BY <4>1, <4>2 DEF SameNode, DiskInv, FilesHold
      <3> QED BY <3>1, <3>3
    <2>16. KindsKept(d, e)
      <3> SUFFICES ASSUME NEW m \in Nodes, isValidNode(d, m)
                   PROVE  isValidNode(e, m) /\ e.inodes[m].dir = d.inodes[m].dir
        BY DEF KindsKept
      <3>1. CASE m = dir BY <2>7, <3>1
      <3>2. CASE m # dir BY <2>1, <2>10, <3>2 DEF isValidNode
      <3> QED BY <3>1, <3>2
    <2>17. FilesKept(d, e) BY <2>1, <2>10 DEF FilesKept
    <2>18. isDirectory(e, rootNode)
      BY <2>16, Sizes DEF KindsKept, DiskInv, isDirectory
    <2>19. Extended(d, e) BY <2>7, <2>14, <2>15, <2>16, <2>17, <2>18 DEF Extended, DiskInv
    <2>20. e.inodes[n].dir = isDir BY <2>4, <2>9
    <2>21. Made(d, e, dir, entry)
      <3>1. ASSUME NEW m \in Nodes, m # n PROVE isDirectory(e, m) <=> isDirectory(d, m)
        <4>1. CASE m = dir BY <2>1, <2>11, <4>1
        <4>2. CASE m # dir BY <2>10, <3>1, <4>2 DEF isDirectory, isValidNode
        <4> QED BY <4>1, <4>2
      <3>2. e.inodes[n].size = 0 BY <2>4, <2>9
      <3> QED BY <2>3, <2>13, <3>1, <3>2 DEF Made
    <2>22. Made(d, c.fs, dir, [name |-> name, node |-> c.node])
      BY <2>2, <2>21 DEF entry, n
    <2> QED BY <2>1, <2>2, <2>9, <2>19, <2>20, <2>22 DEF FileCreated
  <1>9. Goal BY <1>7, <1>8
  <1> QED BY <1>9

(* resolveFile: directories may be added on the way.                        *)
LEMMA PathNames ==
  ASSUME NEW path \in Paths
  PROVE  /\ Len(path) \in Nat /\ \A k \in 1..Len(path) : path[k] \in Names
         /\ path # <<>> => Len(path) \in 1..Len(path) /\ Len(path) - 1 \in Nat
  <1>0. \A k \in 0..MaxDepth : k \in Nat BY DriverAssumption
  <1>1. PICK k \in Nat : path \in [1..k -> Names] BY <1>0 DEF Paths
  <1>2. path \in Seq(Names) /\ Len(path) = k BY <1>1
  <1>3. path # <<>> => k # 0
    <2> SUFFICES ASSUME k = 0 PROVE path = <<>> OBVIOUS
    <2> QED BY <1>2
  <1> QED BY <1>1, <1>2, <1>3

\* Where a walk through d has come to.
OnTheWay(d, at, create) ==
    /\ Extended(d, at.fs)
    /\ ~create => at.fs = d
    /\ at.parent \in Nodes \cup {invalidNode, Wild}

LEMMA FollowEffect ==
  ASSUME NEW d, NEW at, NEW name \in Names, NEW create \in BOOLEAN,
         OnTheWay(d, at, create)
  PROVE  OnTheWay(d, Follow(at, name, create), create)
  <1> USE DEF OnTheWay
  <1> DEFINE found == findInDirectory(at.fs, at.parent, name)
             made == createFile(at.fs, at.parent, name, TRUE)
             next == Follow(at, name, create)
             Goal == OnTheWay(d, next, create)
  <1>1. next = IF at.parent \in {Wild, invalidNode} THEN at
               ELSE IF found = invalidNode /\ create
                    THEN [fs |-> made.fs, parent |-> made.node]
               ELSE [fs |-> at.fs, parent |-> found]
    BY DEF Follow
  <1>2. DiskInv(at.fs) BY DEF Extended
  <1>3. at.fs \in Disk BY <1>2 DEF DiskInv, Sane
  <1> HIDE DEF next
  <1>4. ASSUME at.parent \in {Wild, invalidNode} PROVE Goal BY <1>1, <1>4
  <1>5. ASSUME at.parent \notin {Wild, invalidNode} PROVE Goal
    <2>1. at.parent \in Nodes BY <1>5
    <2>2. found \in Nodes \cup {invalidNode, Wild} BY <1>3, <2>1, FindResult
    <2>3. Extended(at.fs, made.fs) /\ made.node \in Nodes \cup {invalidNode, Wild}
      <3>1. FileCreated(at.fs, made, at.parent, name, TRUE) BY <1>2, <2>1, CreateFileEffect
      <3> QED BY <3>1 DEF FileCreated
    <2> HIDE DEF found, made
    <2>4. CASE found = invalidNode /\ create
      <3>1. next.fs = made.fs /\ next.parent = made.node BY <1>1, <1>5, <2>4
      <3>2. Extended(d, made.fs) BY <2>3, ExtendedTwice
      <3> QED BY <2>3, <2>4, <3>1, <3>2
    <2>5. CASE ~(found = invalidNode /\ create)
      <3>1. next.fs = at.fs /\ next.parent = found BY <1>1, <1>5, <2>5
      <3> QED BY <2>2, <3>1
    <2> QED BY <2>4, <2>5
  <1>6. Goal BY <1>4, <1>5
  <1> QED BY <1>6 DEF next

(* The recursion of Walk is defined on its whole domain.                    *)
IsWalk(f, base, path, create, N) ==
    f = [k \in 0..N |-> IF k = 0 THEN base ELSE Follow(f[k - 1], path[k], create)]

LEMMA WalkSteps ==
  ASSUME NEW base, NEW path, NEW create, NEW N \in Nat
  PROVE  \E f : IsWalk(f, base, path, create, N)
  <1> DEFINE Steps(f, n) == f = [k \in 0..n |-> IF k = 0 THEN base
                                                ELSE Follow(f[k - 1], path[k], create)]
             Bad == {n \in Nat : ~\E f : Steps(f, n)}
  <1>1. ASSUME Bad # {} PROVE FALSE
    <2>1. Bad \in SUBSET Nat OBVIOUS
    <2>2. PICK x \in Bad : \A y \in Bad : x <= y
      <3> HIDE DEF Bad
      <3> QED BY <1>1, <2>1, LeastExists
    <2>3. x \in Nat /\ ~\E f : Steps(f, x) OBVIOUS
    <2>4. ASSUME x = 0 PROVE FALSE
      <3> DEFINE f == [k \in 0..0 |-> base]
      <3>1. \A k \in 0..0 : k = 0 OBVIOUS
      <3>2. Steps(f, 0) BY <3>1
      <3> HIDE DEF f, Steps
      <3> QED BY <2>3, <2>4, <3>2
    <2>5. ASSUME x # 0 PROVE FALSE
      <3>1. x - 1 \in Nat /\ ~(x <= x - 1) BY <2>3, <2>5
      <3>2. x - 1 \notin Bad
        <4> HIDE DEF Bad
        <4> QED BY <2>2, <3>1
      <3>3. PICK f : Steps(f, x - 1)
        <4> HIDE DEF Steps
        <4> QED BY <3>1, <3>2
      <3> DEFINE g == [k \in 0..x |-> IF k = x THEN Follow(f[x - 1], path[x], create)
                                      ELSE f[k]]
      <3>4. \A k \in 0..(x - 1) : f[k] = IF k = 0 THEN base
                                         ELSE Follow(f[k - 1], path[k], create)
        BY <3>3
      <3>5. ASSUME NEW k \in 0..x
            PROVE  g[k] = IF k = 0 THEN base ELSE Follow(g[k - 1], path[k], create)
        <4>1. CASE k = x
          <5>1. x - 1 \in 0..x /\ x - 1 # x /\ x \in 0..x BY <2>3, <3>1
          <5>2. g[x - 1] = f[x - 1] /\ g[x] = Follow(f[x - 1], path[x], create) BY <5>1
          <5> HIDE DEF g
          <5> QED BY <2>5, <4>1, <5>2
        <4>2. CASE k # x
          <5>1. k \in 0..(x - 1) BY <2>3, <4>2
          <5>2. g[k] = f[k] BY <4>2
          <5>3. k # 0 => k - 1 \in 0..x /\ k - 1 # x BY <2>3, <5>1
          <5>4. k # 0 => g[k - 1] = f[k - 1] BY <5>3
          <5> HIDE DEF g
          <5> QED BY <3>4, <5>1, <5>2, <5>4
        <4> QED BY <4>1, <4>2
      <3>6. g = [k \in 0..x |-> g[k]] OBVIOUS
      <3> HIDE DEF g
      <3>7. Steps(g, x) BY <3>5, <3>6
      <3> HIDE DEF Steps
      <3> QED BY <2>3, <3>7
    <2> QED BY <2>4, <2>5
  <1>2. N \notin Bad
    <2> HIDE DEF Bad
    <2> QED BY <1>1
  <1>3. \E f : Steps(f, N) BY <1>2
  <1> QED BY <1>3 DEF IsWalk

LEMMA WalkIs ==
  ASSUME NEW d, NEW path \in Paths, path # <<>>, NEW create \in BOOLEAN
  PROVE  \E after : /\ Walk(d, path, create) = after[Len(path) - 1]
                    /\ after[0] = [fs |-> d, parent |-> rootNode]
                    /\ \A k \in 1..(Len(path) - 1) :
                          after[k] = Follow(after[k - 1], path[k], create)
  <1> DEFINE N == Len(path) - 1
             base == [fs |-> d, parent |-> rootNode]
             after == CHOOSE f : f = [k \in 0..N |-> IF k = 0 THEN base
                                        ELSE Follow(f[k - 1], path[k], create)]
  <1>1. N \in Nat BY PathNames
  <1>2. Walk(d, path, create) = after[N] BY DEF Walk
  <1> HIDE DEF N
  <1>3. after = [k \in 0..N |-> IF k = 0 THEN base
                                ELSE Follow(after[k - 1], path[k], create)]
    <2> HIDE DEF base
    <2>1. \E f : IsWalk(f, base, path, create, N) BY <1>1, WalkSteps
    <2> QED BY <2>1 DEF IsWalk
  <1> HIDE DEF after
  <1>4. /\ after[0] = base
        /\ \A k \in 1..N : after[k] = Follow(after[k - 1], path[k], create)
    <2> HIDE DEF base
    <2>1. 0 \in 0..N /\ \A k \in 1..N : k \in 0..N /\ k # 0 BY <1>1
    <2> QED BY <1>3, <2>1
  <1> QED BY <1>2, <1>4 DEF N

LEMMA WalkEffect ==
  ASSUME NEW d, DiskInv(d), NEW path \in Paths, path # <<>>, NEW create \in BOOLEAN
  PROVE  OnTheWay(d, Walk(d, path, create), create)
  <1> DEFINE N == Len(path) - 1
             base == [fs |-> d, parent |-> rootNode]
  <1>1. N \in Nat BY PathNames
  <1>2. \A k \in 1..N : path[k] \in Names
    <2>1. \A k \in 1..Len(path) : path[k] \in Names BY PathNames
    <2>2. Len(path) \in Nat BY PathNames
    <2> QED BY <2>1, <2>2
  <1>3. PICK after : /\ Walk(d, path, create) = after[N]
                     /\ after[0] = base
                     /\ \A k \in 1..N : after[k] = Follow(after[k - 1], path[k], create)
    BY WalkIs
  <1> DEFINE Fine(k) == OnTheWay(d, after[k], create)
             Bad == {k \in 0..N : ~Fine(k)}
  <1> HIDE DEF N
  <1>4. ASSUME Bad # {} PROVE FALSE
    <2>1. Bad \in SUBSET Nat OBVIOUS
    <2>2. PICK x \in Bad : \A y \in Bad : x <= y
      <3> HIDE DEF Bad
      <3> QED BY <1>4, <2>1, LeastExists
    <2>3. x \in 0..N /\ ~Fine(x) OBVIOUS
    <2>4. Fine(0)
      <3>1. base.fs = d /\ base.parent = rootNode OBVIOUS
      <3> QED BY <1>3, <3>1, ExtendedSelf, Sizes DEF OnTheWay
    <2>5. x \in 1..N /\ x - 1 \in 0..N /\ ~(x <= x - 1)
      <3> HIDE DEF Fine
      <3> QED BY <1>1, <2>3, <2>4
    <2>6. Fine(x - 1)
      <3>1. x - 1 \notin Bad
        <4> HIDE DEF Bad
        <4> QED BY <2>2, <2>5
      <3> HIDE DEF Fine
      <3> QED BY <2>5, <3>1
    <2>7. OnTheWay(d, Follow(after[x - 1], path[x], create), create)
      <3>1. path[x] \in Names BY <1>2, <2>5
      <3> QED BY <2>6, <3>1, FollowEffect
    <2>8. Fine(x) BY <1>3, <2>5, <2>7
    <2> QED BY <2>3, <2>8
  <1>5. Fine(N)
    <2>1. N \in 0..N BY <1>1
    <2> HIDE DEF Fine
    <2> QED BY <1>4, <2>1
  <1> QED BY <1>3, <1>5

Resolved(d, r, create) ==
    /\ Extended(d, r.fs)
    /\ ~create => r.fs = d
    /\ r.parent \in Nodes \cup {invalidNode, Wild}
    /\ r.file \in Nodes \cup {invalidNode, Wild}
    /\ r.file \in Nodes => isValidNode(r.fs, r.file)
    /\ r.file \in Nodes \ {rootNode} =>
          /\ r.parent \in Nodes
          /\ \E i \in Positions : /\ IsPlace(r.fs, r.parent, i)
                                  /\ Cell(r.fs, r.parent, i).node = r.file

LEMMA ResolveEffect ==
  ASSUME NEW d, DiskInv(d), NEW path \in Paths, NEW create \in BOOLEAN
  PROVE  /\ Resolved(d, resolveFile(d, path, create), create)
         /\ resolveFile(d, path, create).file = invalidNode =>
               path # <<>> /\ path[Len(path)] \in Names
  <1> DEFINE r == resolveFile(d, path, create)
             Goal == /\ Resolved(d, r, create)
                     /\ r.file = invalidNode => path # <<>> /\ path[Len(path)] \in Names
  <1>1. /\ invalidNode \notin Nodes /\ Wild \notin Nodes /\ rootNode \in Nodes
        /\ Wild # invalidNode
    BY Sizes
  <1>2. ASSUME path = <<>> PROVE Goal
    <2>1. r.fs = d /\ r.parent = rootNode /\ r.file = rootNode BY <1>2 DEF resolveFile
    <2>2. isValidNode(d, rootNode) BY DEF DiskInv, isDirectory
    <2> HIDE DEF r
    <2> QED BY <1>1, <2>1, <2>2, ExtendedSelf DEF Resolved
  <1>3. ASSUME path # <<>> PROVE Goal
    <2> DEFINE at == Walk(d, path, create)
               name == path[Len(path)]
               found == findInDirectory(at.fs, at.parent, name)
    <2>1. r = LookUp(at, name) BY <1>3 DEF resolveFile
    <2>2. name \in Names BY <1>3, PathNames
    <2>3. OnTheWay(d, at, create) BY <1>3, WalkEffect
    <2> HIDE DEF r, at, name
    <2>4. /\ r.fs = at.fs /\ r.parent = at.parent
          /\ r.file = IF at.parent \in {Wild, invalidNode} THEN at.parent ELSE found
      BY <2>1 DEF LookUp
    <2>5. Extended(d, at.fs) /\ at.parent \in Nodes \cup {invalidNode, Wild}
      BY <2>3 DEF OnTheWay
    <2>6. DiskInv(at.fs) /\ at.fs \in Disk BY <2>5 DEF Extended, DiskInv, Sane
    <2>7. CASE at.parent \in {Wild, invalidNode}
      <3>1. r.file = at.parent /\ r.file \notin Nodes BY <1>1, <2>4, <2>7
      <3>2. Resolved(d, r, create) BY <2>3, <2>4, <2>7, <3>1 DEF Resolved, OnTheWay
      <3> QED BY <1>3, <2>2, <3>2 DEF name
    <2>8. CASE at.parent \notin {Wild, invalidNode}
      <3>1. at.parent \in Nodes /\ r.file = found BY <2>4, <2>5, <2>8
      <3>2. /\ found \in Nodes \cup {invalidNode, Wild}
            /\ found \in Nodes =>
                  \E i \in Positions : /\ IsPlace(at.fs, at.parent, i)
                                       /\ Cell(at.fs, at.parent, i).node = found
        BY <2>2, <2>6, <3>1, FindResult
      <3> HIDE DEF found
      <3>3. found \in Nodes => isValidNode(at.fs, found)
        BY <2>6, <3>1, <3>2 DEF DiskInv, NamesInv
      <3>4. Resolved(d, r, create)
        BY <2>3, <2>4, <3>1, <3>2, <3>3 DEF Resolved, OnTheWay
      <3> QED BY <1>3, <2>2, <3>4 DEF name
    <2> QED BY <2>7, <2>8
  <1>4. Goal BY <1>2, <1>3
  <1> QED BY <1>4

(* deleteFile: the inodes that go are named by nobody who stays.            *)
LEMMA EntryIsPlace ==
  ASSUME NEW d, d \in Disk, DirsHold(d), NEW p \in Nodes, isDirectory(d, p),
         NEW n \in deletedEntries(d, p)
  PROVE  \E i \in Positions : IsPlace(d, p, i) /\ Cell(d, p, i).node = n
  <1>1. PICK i \in 0..(d.inodes[p].size - 1) : Cell(d, p, i) # Wild /\ Cell(d, p, i).node = n
    BY DEF deletedEntries
  <1>2. i \in Positions /\ i < d.inodes[p].size BY Sized
  <1> QED BY <1>1, <1>2 DEF IsPlace

LEMMA DeletedAre ==
  ASSUME NEW d, DiskInv(d), NEW f \in Nodes, isValidNode(d, f), f # rootNode
  PROVE  LET D == deletedNodes(d, f)
         IN  /\ D \in SUBSET Nodes /\ f \in D
             /\ \A n \in D : isValidNode(d, n) /\ n # rootNode
             /\ \A n \in D : \/ n = f
                             \/ \E p \in D, i \in Positions :
                                   IsPlace(d, p, i) /\ Cell(d, p, i).node = n
  <1> DEFINE D == deletedNodes(d, f)
             Whole(S) == /\ f \in S
                         /\ \A p \in S : isDirectory(d, p) => deletedEntries(d, p) \subseteq S
             L == {n \in Nodes : isValidNode(d, n) /\ n # rootNode}
  <1>1. \A n : n \in D <=> n \in Nodes /\ \A S \in SUBSET Nodes : Whole(S) => n \in S
    BY DEF deletedNodes
  <1>2. d \in Disk /\ DirsHold(d) /\ NamesInv(d) BY DEF DiskInv, Sane
  <1>3. \A p \in Nodes : isDirectory(d, p) =>
           \A n \in deletedEntries(d, p) :
              \E i \in Positions : IsPlace(d, p, i) /\ Cell(d, p, i).node = n
    BY <1>2, EntryIsPlace
  <1>4. \A p \in Nodes : isDirectory(d, p) => deletedEntries(d, p) \subseteq L
    BY <1>2, <1>3 DEF NamesInv, isValidNode
  <1> HIDE DEF D
  <1>5. Whole(L) BY <1>4
  <1>6. D \subseteq L
    <2>1. L \in SUBSET Nodes OBVIOUS
    <2> HIDE DEF L, Whole
    <2> QED BY <1>1, <1>5, <2>1
  <1>7. Whole(D)
    <2>1. f \in D BY <1>1
    <2>2. ASSUME NEW p \in D, isDirectory(d, p) PROVE deletedEntries(d, p) \subseteq D
      <3> SUFFICES ASSUME NEW n \in deletedEntries(d, p) PROVE n \in D OBVIOUS
      <3>1. p \in Nodes /\ n \in Nodes BY <1>1, <1>4, <2>2
      <3>2. ASSUME NEW S \in SUBSET Nodes, Whole(S) PROVE n \in S
        <4>1. p \in S BY <1>1, <3>2
        <4> QED BY <2>2, <3>2, <4>1
      <3> HIDE DEF Whole
      <3> QED BY <1>1, <3>1, <3>2
    <2> QED BY <2>1, <2>2
  <1>8. ASSUME NEW n \in D, n # f
        PROVE  \E p \in D, i \in Positions : IsPlace(d, p, i) /\ Cell(d, p, i).node = n
    <2>1. PICK p \in D : isDirectory(d, p) /\ n \in deletedEntries(d, p)
      <3> SUFFICES ASSUME \A p \in D : isDirectory(d, p) => n \notin deletedEntries(d, p)
                   PROVE  FALSE
        OBVIOUS
      <3> DEFINE S == D \ {n}
      <3>1. Whole(S) BY <1>7, <1>8
      <3>2. S \in SUBSET Nodes /\ n \notin S BY <1>1
      <3> HIDE DEF S, Whole
      <3> QED BY <1>1, <3>1, <3>2
    <2>2. p \in Nodes BY <1>1
    <2> QED BY <1>3, <2>1, <2>2
  <1>9. D \in SUBSET Nodes /\ f \in D /\ \A n \in D : isValidNode(d, n) /\ n # rootNode
    BY <1>1, <1>6, <1>7
  <1> QED BY <1>8, <1>9 DEF D

(* Names stay right where every place was one before.                       *)
LEMMA FewerPlaces ==
  ASSUME NEW d, NamesInv(d), NEW e, NEW before,
         \A n \in Nodes, i \in Positions : IsPlace(e, n, i) =>
            /\ before[n][i] \in Positions /\ IsPlace(d, n, before[n][i])
            /\ Cell(e, n, i) = Cell(d, n, before[n][i])
            /\ isValidNode(e, Cell(e, n, i).node),
         \A n \in Nodes, i, k \in Positions :
            /\ IsPlace(e, n, i) /\ IsPlace(e, n, k)
            /\ before[n][i] = before[n][k]
            => i = k
  PROVE  NamesInv(e)
  <1>1. ASSUME NEW n \in Nodes, NEW i \in Positions, IsPlace(e, n, i)
        PROVE  isValidNode(e, Cell(e, n, i).node) /\ Cell(e, n, i).node # rootNode
    BY <1>1 DEF NamesInv
  <1>2. ASSUME NEW n \in Nodes, NEW m \in Nodes, NEW i \in Positions, NEW k \in Positions,
               IsPlace(e, n, i), IsPlace(e, m, k), Cell(e, n, i).node = Cell(e, m, k).node
        PROVE  n = m /\ i = k
    <2>1. n = m /\ before[n][i] = before[m][k] BY <1>2 DEF NamesInv
    <2> QED BY <1>2, <2>1
  <1>3. ASSUME NEW n \in Nodes, NEW i \in Positions, NEW k \in Positions,
               IsPlace(e, n, i), IsPlace(e, n, k), Cell(e, n, i).name = Cell(e, n, k).name
        PROVE  i = k
    <2>1. before[n][i] = before[n][k] BY <1>3 DEF NamesInv
    <2> QED BY <1>3, <2>1
  <1> QED BY <1>1, <1>2, <1>3 DEF NamesInv

(* The entry at i0 goes, the later ones move down.                          *)
LEMMA RemoveEntryEffect ==
  ASSUME NEW g, Sane(g), NEW dir \in Nodes, isValidNode(g, dir), NEW f,
         NEW i0 \in 0..(g.inodes[dir].size - 1),
         \A i \in 0..(g.inodes[dir].size - 1) :
            Cell(g, dir, i) # Wild /\ (Cell(g, dir, i).node = f <=> i = i0)
  PROVE  LET e == removeEntry(g, dir, f)
             size == g.inodes[dir].size
         IN  /\ Sane(e) /\ isValidNode(e, dir) /\ e.inodes[dir].dir = g.inodes[dir].dir
             /\ e.inodes[dir].size = size - 1
             /\ \A i \in 0..(size - 2) :
                   Cell(e, dir, i) = Cell(g, dir, IF i < i0 THEN i ELSE i + 1)
             /\ OthersKept(g, e, dir)
  <1> DEFINE size == g.inodes[dir].size
             at == {i \in 0..(size - 1) : Cell(g, dir, i).node = f}
             cells == [i \in i0..(size - 2) |-> Cell(g, dir, i + 1)]
             moved == PutCells(g, dir, cells)
             e == setSize(moved, dir, size - 1)
  <1>1. g \in Disk BY DEF Sane
  <1>2. /\ size \in Nat /\ size <= maxFilesize /\ maxFilesize \in Nat
        /\ \A i \in 0..(size - 1) : i \in Positions /\ i < size
    BY <1>1, Sized
  <1>3. at = {i0} OBVIOUS
  <1>4. Nth(at, 0) = i0
    <2>1. i0 \in Nat BY <1>2
    <2>2. {i0} \in SUBSET Nat /\ IsFiniteSet({i0}) /\ {i0} # {} BY <2>1, FS_Singleton
    <2>3. Nth({i0}, 0) \in {i0} BY <2>2, FirstExists
    <2> HIDE DEF at
    <2> QED BY <1>3, <2>3
  <1>5. removeEntry(g, dir, f) = e
    <2>1. at # {} BY <1>3
    <2>2. removeEntry(g, dir, f)
            = IF at = {} \/ ~isValidNode(g, dir) THEN g
              ELSE setSize(PutCells(g, dir, [i \in Nth(at, 0)..(size - 2) |->
                                                 Cell(g, dir, i + 1)]), dir, size - 1)
      BY DEF removeEntry
    <2> HIDE DEF at
    <2> QED BY <1>4, <2>1, <2>2
  <1> HIDE DEF size
  <1>6. \A i \in i0..(size - 2) : i \in 0..(size - 1) /\ i + 1 \in 0..(size - 1)
    BY <1>2 DEF size
  <1>7. DOMAIN cells \subseteq Positions /\ DOMAIN cells = i0..(size - 2)
    BY <1>2, <1>6
  <1>8. \A i \in 0..(size - 1) : Cell(g, dir, i) \in Content /\ Cell(g, dir, i) # Wild
    <2> SUFFICES ASSUME NEW i \in 0..(size - 1)
                 PROVE  Cell(g, dir, i) \in Content /\ Cell(g, dir, i) # Wild
      OBVIOUS
    <2>1. i \in Positions /\ Cell(g, dir, i) # Wild BY <1>2 DEF size
    <2> QED BY <1>1, <2>1, CellIs
  <1>9. \A i \in i0..(size - 2) : cells[i] = Cell(g, dir, i + 1) OBVIOUS
  <1>10. \A i \in DOMAIN cells : cells[i] \in Content /\ Cell(g, dir, i) # Wild
    BY <1>6, <1>7, <1>8, <1>9
  <1> HIDE DEF cells
  <1>11. /\ Sane(moved) /\ moved.inodes = g.inodes
         /\ \A i \in Positions :
               Cell(moved, dir, i) = IF i \in DOMAIN cells THEN cells[i] ELSE Cell(g, dir, i)
         /\ \A m \in Nodes : m # dir /\ isValidNode(g, m) => SameNode(g, moved, m)
    BY <1>7, <1>10, PutCellsEffect
  <1> HIDE DEF moved
  <1>12. isValidNode(moved, dir) /\ OthersKept(g, moved, dir)
    BY <1>11 DEF isValidNode, OthersKept
  <1>13. Resized(moved, e, dir, size - 1)
    <2>1. i0 \in 0..(size - 1) BY DEF size
    <2>2. size - 1 \in 0..maxFilesize BY <1>2, <2>1
    <2>3. e = setNodeSize(moved, dir, size - 1) BY <1>12 DEF setSize
    <2> HIDE DEF e
    <2> QED BY <1>11, <1>12, <2>2, <2>3, SetNodeSizeEffect
  <1> HIDE DEF e
  <1>14. ASSUME NEW i \in 0..(size - 2)
         PROVE  Cell(e, dir, i) = Cell(g, dir, IF i < i0 THEN i ELSE i + 1)
    <2>1. i \in 0..(size - 1) /\ i < size - 1 /\ i + 1 \in 0..(size - 1) /\ i0 \in Nat
      BY <1>2 DEF size
    <2>2. i \in Positions BY <1>2, <2>1
    <2>3. i < i0 <=> i \notin i0..(size - 2) BY <1>2, <2>1
    <2>4. Cell(moved, dir, i) = Cell(g, dir, IF i < i0 THEN i ELSE i + 1)
      BY <1>7, <1>9, <1>11, <2>2, <2>3
    <2>5. Cell(moved, dir, i) # Wild BY <1>8, <2>1, <2>4
    <2> QED BY <1>13, <2>1, <2>2, <2>4, <2>5 DEF Resized
  <1>15. OthersKept(g, e, dir) BY <1>12, <1>13, OthersKeptTwice DEF Resized
  <1>16. /\ Sane(e) /\ isValidNode(e, dir) /\ e.inodes[dir].dir = g.inodes[dir].dir
         /\ e.inodes[dir].size = size - 1
    BY <1>11, <1>13 DEF Resized
  <1> DEFINE h == removeEntry(g, dir, f)
  <1>17. /\ Sane(h) /\ isValidNode(h, dir) /\ h.inodes[dir].dir = g.inodes[dir].dir
         /\ h.inodes[dir].size = size - 1
         /\ \A i \in 0..(size - 2) :
               Cell(h, dir, i) = Cell(g, dir, IF i < i0 THEN i ELSE i + 1)
         /\ OthersKept(g, h, dir)
    BY <1>5, <1>14, <1>15, <1>16
  <1> HIDE DEF h
  <1> QED BY <1>17 DEF h, size

\* What is left of d in e after the inodes of D have gone and the entry at i0
\* of dir; where an entry was before.
Left(d, e, D, dir, i0, before) ==
    /\ Sane(e) /\ \A m \in D : ~isValidNode(e, m)
    /\ \A m \in Nodes \ D : m # dir => /\ e.inodes[m] = d.inodes[m]
                                       /\ isValidNode(d, m) => SameNode(d, e, m)
    /\ dir \notin D => isValidNode(e, dir) /\ e.inodes[dir].dir = d.inodes[dir].dir
    /\ \A n \in Nodes, i \in Positions : IsPlace(e, n, i) =>
          /\ n \notin D /\ before[n][i] \in Positions /\ IsPlace(d, n, before[n][i])
          /\ Cell(e, n, i) = Cell(d, n, before[n][i])
          /\ ~(n = dir /\ before[n][i] = i0)
    /\ \A n \in Nodes, i, k \in Positions :
          /\ IsPlace(e, n, i) /\ IsPlace(e, n, k)
          /\ before[n][i] = before[n][k]
          => i = k
    /\ dir \notin D => \A k \in Positions : IsPlace(d, dir, k) /\ k # i0 =>
          \E i \in Positions : IsPlace(e, dir, i) /\ Cell(e, dir, i) = Cell(d, dir, k)

LEMMA LeftIsRight ==
  ASSUME NEW d, DiskInv(d), NEW dir \in Nodes, NEW f \in Nodes, f # rootNode,
         NEW i0 \in Positions, IsPlace(d, dir, i0), Cell(d, dir, i0).node = f,
         NEW e, NEW before, Left(d, e, deletedNodes(d, f), dir, i0, before)
  PROVE  /\ DiskInv(e)
         /\ \A m \in Nodes \ deletedNodes(d, f) : isValidNode(d, m) =>
               /\ isValidNode(e, m) /\ e.inodes[m].dir = d.inodes[m].dir
               /\ ~isDirectory(d, m) => SameNode(d, e, m)
  <1> DEFINE D == deletedNodes(d, f)
  <1>1. d \in Disk /\ DirsHold(d) /\ NamesInv(d) /\ FilesHold(d) /\ isDirectory(d, rootNode)
    BY DEF DiskInv, Sane
  <1>2. isDirectory(d, dir) /\ isValidNode(d, f) BY <1>1 DEF IsPlace, NamesInv
  <1>3. /\ D \in SUBSET Nodes /\ f \in D
        /\ \A n \in D : isValidNode(d, n) /\ n # rootNode
        /\ \A n \in D : \/ n = f
                        \/ \E p \in D, i \in Positions :
                              IsPlace(d, p, i) /\ Cell(d, p, i).node = n
    BY <1>2, DeletedAre
  <1>4. Left(d, e, D, dir, i0, before) OBVIOUS
  <1> HIDE DEF D
  <1>5. ASSUME NEW m \in Nodes \ D, isValidNode(d, m)
        PROVE  /\ isValidNode(e, m) /\ e.inodes[m].dir = d.inodes[m].dir
               /\ ~isDirectory(d, m) => SameNode(d, e, m)
    <2>1. CASE m = dir BY <1>2, <1>4, <2>1 DEF Left
    <2>2. CASE m # dir BY <1>4, <1>5, <2>2 DEF Left, isValidNode
    <2> QED BY <2>1, <2>2
  <1>6. ASSUME NEW n \in Nodes, NEW i \in Positions, IsPlace(e, n, i)
        PROVE  isValidNode(e, Cell(e, n, i).node)
    <2> DEFINE k == before[n][i]
               x == Cell(d, n, k).node
    <2>1. /\ n \notin D /\ k \in Positions /\ IsPlace(d, n, k)
          /\ Cell(e, n, i) = Cell(d, n, k) /\ ~(n = dir /\ k = i0)
      BY <1>4, <1>6 DEF Left
    <2> HIDE DEF k
    <2>2. isValidNode(d, x) /\ x \in Nodes BY <1>1, <2>1 DEF NamesInv, isValidNode
    <2>3. x # f BY <1>1, <2>1 DEF NamesInv
    <2>4. x \notin D
      <3> SUFFICES ASSUME x \in D PROVE FALSE OBVIOUS
      <3>1. PICK p \in D, j \in Positions : IsPlace(d, p, j) /\ Cell(d, p, j).node = x
        BY <1>3, <2>3
      <3>2. p \in Nodes BY <1>3
      <3>3. p = n BY <1>1, <2>1, <3>1, <3>2 DEF NamesInv
      <3> QED BY <2>1, <3>3
    <2> QED BY <1>5, <2>1, <2>2, <2>4
  <1>7. NamesInv(e)
    <2>1. \A n \in Nodes, i \in Positions : IsPlace(e, n, i) =>
            /\ before[n][i] \in Positions /\ IsPlace(d, n, before[n][i])
            /\ Cell(e, n, i) = Cell(d, n, before[n][i])
            /\ isValidNode(e, Cell(e, n, i).node)
      BY <1>4, <1>6 DEF Left
    <2>2. \A n \in Nodes, i, k \in Positions :
            /\ IsPlace(e, n, i) /\ IsPlace(e, n, k)
            /\ before[n][i] = before[n][k]
            => i = k
      BY <1>4 DEF Left
    <2> QED BY <1>1, <2>1, <2>2, FewerPlaces
  <1>8. ASSUME NEW m \in Nodes, isDirectory(e, m), NEW i \in 0..(e.inodes[m].size - 1)
        PROVE  Cell(e, m, i) \in Entry \cup {Wild}
    <2>1. e \in Disk BY <1>4 DEF Left, Sane
    <2>2. i \in Positions /\ i < e.inodes[m].size BY <2>1, Sized
    <2>3. CASE Cell(e, m, i) # Wild
      <3> DEFINE k == before[m][i]
      <3>1. IsPlace(e, m, i) BY <1>8, <2>2, <2>3 DEF IsPlace
      <3>2. k \in Positions /\ IsPlace(d, m, k) /\ Cell(e, m, i) = Cell(d, m, k)
        BY <1>4, <2>2, <3>1 DEF Left
      <3> HIDE DEF k
      <3>3. isDirectory(d, m) /\ k \in 0..(d.inodes[m].size - 1)
        BY <1>1, <3>2, Sized DEF IsPlace, Positions
      <3> QED BY <1>1, <3>2, <3>3 DEF DirsHold
    <2> QED BY <2>3
  <1>9. DirsHold(e) BY <1>8 DEF DirsHold
  <1>10. FilesHold(e)
    <2> SUFFICES ASSUME NEW m \in Nodes, isValidNode(e, m), ~isDirectory(e, m),
                        NEW i \in Positions
                 PROVE  Cell(e, m, i) \in Bytes \cup {Stale, Wild}
      BY DEF FilesHold
    <2>1. m \notin D BY <1>4 DEF Left
    <2>2. m # dir BY <1>2, <1>5, <2>1 DEF isDirectory
    <2>3. isValidNode(d, m) /\ SameNode(d, e, m) BY <1>4, <2>1, <2>2 DEF Left, isValidNode
    <2>4. ~isDirectory(d, m) BY <2>3, SamePlaces
    <2> QED BY <1>1, <2>3, <2>4 DEF FilesHold, SameNode
  <1>11. isDirectory(e, rootNode)
    <2>1. rootNode \in Nodes \ D BY <1>3, Sizes
    <2> QED BY <1>1, <1>5, <2>1 DEF isDirectory
  <1>12. Sane(e) BY <1>4 DEF Left
  <1>13. DiskInv(e) BY <1>7, <1>9, <1>10, <1>11, <1>12 DEF DiskInv
  <1> QED BY <1>5, <1>13 DEF D

LEMMA DeleteFileEffect ==
  ASSUME NEW d, DiskInv(d), NEW dir \in Nodes, NEW f \in Nodes, f # rootNode,
         NEW i0 \in Positions, IsPlace(d, dir, i0), Cell(d, dir, i0).node = f,
         canDelete(d, dir, f)
  PROVE  \E before : Left(d, deleteFile(d, dir, f), deletedNodes(d, f), dir, i0, before)
  <1> DEFINE D == deletedNodes(d, f)
             g == releaseNodes(d, D)
             e == removeEntry(g, dir, f)
             size == d.inodes[dir].size
  <1>1. d \in Disk /\ Sane(d) /\ NamesInv(d) BY DEF DiskInv, Sane
  <1>2. isDirectory(d, dir) /\ isValidNode(d, dir) /\ isValidNode(d, f) /\ i0 < size
    BY <1>1 DEF IsPlace, NamesInv, isDirectory
  <1>3. deleteFile(d, dir, f) = e BY <1>2 DEF deleteFile
  <1>4. D \in SUBSET Nodes /\ f \in D /\ \A n \in D : isValidNode(d, n) /\ n # rootNode
    BY <1>2, DeletedAre
  <1>5. \A i \in 0..(size - 1) : Cell(d, dir, i) # Wild BY DEF canDelete
  <1> HIDE DEF D
  <1>6. /\ Sane(g)
        /\ \A n \in D : ~isValidNode(g, n)
        /\ \A n \in Nodes \ D : g.inodes[n] = d.inodes[n]
        /\ \A n \in Nodes \ D : isValidNode(d, n) => SameNode(d, g, n)
    BY <1>1, <1>4, ReleaseNodesEffect
  <1> HIDE DEF g
  <1>7. ASSUME NEW n \in Nodes, NEW i \in Positions, IsPlace(g, n, i)
        PROVE  n \notin D /\ IsPlace(d, n, i) /\ Cell(g, n, i) = Cell(d, n, i)
    <2>1. isValidNode(g, n) BY <1>7 DEF IsPlace, isDirectory
    <2>2. n \notin D /\ isValidNode(d, n) BY <1>6, <2>1 DEF isValidNode
    <2>3. SameNode(d, g, n) BY <1>6, <2>2
    <2> QED BY <1>7, <2>2, <2>3, SamePlaces DEF SameNode
  <1>8. CASE dir \in D
    <2> DEFINE before == [n \in Nodes |-> [i \in Positions |-> i]]
    <2>1. e = g BY <1>6, <1>8 DEF removeEntry
    <2>2. \A n \in Nodes, i \in Positions : before[n][i] = i OBVIOUS
    <2> HIDE DEF before, e
    <2>3. Left(d, g, D, dir, i0, before) BY <1>6, <1>7, <1>8, <2>2 DEF Left
    <2> QED BY <1>3, <2>1, <2>3 DEF D
  <1>9. CASE dir \notin D
    <2> DEFINE before == [n \in Nodes |-> [i \in Positions |->
                             IF n = dir /\ ~(i < i0) THEN i + 1 ELSE i]]
    <2>1. SameNode(d, g, dir) /\ g.inodes[dir] = d.inodes[dir] BY <1>2, <1>6, <1>9
    <2>2. /\ size \in Nat /\ size <= maxFilesize /\ maxFilesize \in Nat /\ i0 \in Nat
          /\ \A i \in 0..(size - 1) : i \in Positions /\ i < size
      BY <1>1, Sized DEF Positions
    <2>3. \A i \in 0..(size - 1) :
             Cell(g, dir, i) # Wild /\ (Cell(g, dir, i).node = f <=> i = i0)
      <3> SUFFICES ASSUME NEW i \in 0..(size - 1)
                   PROVE  Cell(g, dir, i) # Wild /\ (Cell(g, dir, i).node = f <=> i = i0)
        OBVIOUS
      <3>1. i \in Positions /\ i < size /\ Cell(d, dir, i) # Wild BY <1>5, <2>2
      <3>2. IsPlace(d, dir, i) BY <1>2, <3>1 DEF IsPlace
      <3>3. Cell(d, dir, i).node = f <=> i = i0 BY <1>1, <3>1, <3>2 DEF NamesInv
      <3> QED BY <2>1, <3>1, <3>3 DEF SameNode
    <2>4. i0 \in 0..(size - 1) BY <1>2, <2>2
    <2>5. /\ Sane(e) /\ isValidNode(e, dir) /\ e.inodes[dir].dir = d.inodes[dir].dir
          /\ e.inodes[dir].size = size - 1
          /\ \A i \in 0..(size - 2) :
                Cell(e, dir, i) = Cell(g, dir, IF i < i0 THEN i ELSE i + 1)
          /\ OthersKept(g, e, dir)
      <3>1. isValidNode(g, dir) BY <1>2, <2>1 DEF isValidNode
      <3>2. g.inodes[dir].size = size BY <2>1
      <3>3. i0 \in 0..(g.inodes[dir].size - 1)
            /\ \A i \in 0..(g.inodes[dir].size - 1) :
                  Cell(g, dir, i) # Wild /\ (Cell(g, dir, i).node = f <=> i = i0)
        BY <2>3, <2>4, <3>2
      <3>4. /\ Sane(e) /\ isValidNode(e, dir) /\ e.inodes[dir].dir = g.inodes[dir].dir
            /\ e.inodes[dir].size = g.inodes[dir].size - 1
            /\ \A i \in 0..(g.inodes[dir].size - 2) :
                  Cell(e, dir, i) = Cell(g, dir, IF i < i0 THEN i ELSE i + 1)
            /\ OthersKept(g, e, dir)
        <4> HIDE DEF e
        <4> QED BY <1>6, <3>1, <3>3, RemoveEntryEffect DEF e
      <3> HIDE DEF e
      <3> QED BY <2>1, <3>2, <3>4
    <2> HIDE DEF e
    <2>6. \A n \in Nodes, i \in Positions :
             before[n][i] = IF n = dir /\ ~(i < i0) THEN i + 1 ELSE i
      OBVIOUS
    <2> HIDE DEF before
    <2>7. ASSUME NEW n \in Nodes \ D, n # dir
          PROVE  /\ e.inodes[n] = d.inodes[n]
                 /\ isValidNode(d, n) => SameNode(d, e, n)
      <3>1. g.inodes[n] = d.inodes[n] /\ e.inodes[n] = g.inodes[n]
        BY <1>6, <2>5, <2>7 DEF OthersKept
      <3>2. isValidNode(d, n) => SameNode(d, g, n) /\ SameNode(g, e, n)
        BY <1>6, <2>5, <2>7, <3>1 DEF OthersKept, isValidNode
      <3> QED BY <3>1, <3>2 DEF SameNode
    <2>8. \A n \in D : ~isValidNode(e, n)
      BY <1>4, <1>6, <1>9, <2>5 DEF OthersKept, isValidNode
    <2>9. ASSUME NEW n \in Nodes, NEW i \in Positions, IsPlace(e, n, i)
          PROVE  /\ n \notin D /\ before[n][i] \in Positions /\ IsPlace(d, n, before[n][i])
                 /\ Cell(e, n, i) = Cell(d, n, before[n][i])
                 /\ ~(n = dir /\ before[n][i] = i0)
      <3>1. n \notin D BY <2>8, <2>9 DEF IsPlace, isDirectory
      <3>2. CASE n # dir
        <4>1. isValidNode(d, n) BY <2>7, <2>9, <3>1, <3>2 DEF IsPlace, isDirectory, isValidNode
        <4>2. SameNode(d, e, n) BY <2>7, <3>1, <3>2, <4>1
        <4> QED BY <2>6, <2>9, <3>1, <3>2, <4>2, SamePlaces DEF SameNode
      <3>3. CASE n = dir
        <4>1. i \in Nat /\ i < size - 1 BY <2>2, <2>5, <2>9, <3>3 DEF IsPlace, Positions
        <4>2. i \in 0..(size - 2) /\ i \in 0..(size - 1) /\ i + 1 \in 0..(size - 1)
          BY <2>2, <4>1
        <4> DEFINE k == IF i < i0 THEN i ELSE i + 1
        <4>3. before[n][i] = k BY <2>6, <3>3
        <4>4. k \in 0..(size - 1) /\ k # i0 BY <2>2, <4>1, <4>2
        <4>5. Cell(e, dir, i) = Cell(g, dir, k) BY <2>5, <4>2
        <4> HIDE DEF k
        <4>6. k \in Positions /\ k < size BY <2>2, <4>4
        <4>7. Cell(g, dir, k) = Cell(d, dir, k) BY <2>1, <4>6 DEF SameNode
        <4>8. IsPlace(d, dir, k) BY <1>2, <1>5, <4>4, <4>6 DEF IsPlace
        <4> QED BY <3>1, <3>3, <4>3, <4>4, <4>5, <4>6, <4>7, <4>8
      <3> QED BY <3>2, <3>3
    <2>10. \A n \in Nodes, i, k \in Positions : before[n][i] = before[n][k] => i = k
      <3>1. \A i \in Positions : i \in Nat BY <2>2 DEF Positions
      <3> QED BY <2>2, <2>6, <3>1
    <2>11. ASSUME NEW k \in Positions, IsPlace(d, dir, k), k # i0
           PROVE  \E i \in Positions : IsPlace(e, dir, i) /\ Cell(e, dir, i) = Cell(d, dir, k)
      <3> DEFINE i == IF k < i0 THEN k ELSE k - 1
      <3>1. k \in Nat /\ k < size BY <2>2, <2>11 DEF IsPlace, Positions
      <3>2. /\ i \in 0..(size - 2) /\ i \in 0..(size - 1) /\ i < size - 1
            /\ k = IF i < i0 THEN i ELSE i + 1
        BY <1>2, <2>2, <2>11, <3>1
      <3> HIDE DEF i
      <3>3. Cell(e, dir, i) = Cell(g, dir, k) BY <2>5, <3>2
      <3>4. Cell(g, dir, k) = Cell(d, dir, k) BY <2>1 DEF SameNode
      <3>5. isDirectory(e, dir) BY <1>2, <2>5 DEF isDirectory
      <3>6. IsPlace(e, dir, i) BY <2>5, <2>11, <3>2, <3>3, <3>4, <3>5 DEF IsPlace
      <3> QED BY <2>2, <3>2, <3>3, <3>4, <3>6
    <2>12. Left(d, e, D, dir, i0, before)
      BY <1>9, <2>5, <2>7, <2>8, <2>9, <2>10, <2>11 DEF Left
    <2> QED BY <1>3, <2>12 DEF D, e
  <1> QED BY <1>8, <1>9

(* One file with other contents, or one directory that has become empty.    *)
LEMMA OneChanged ==
  ASSUME NEW d, DiskInv(d), NEW n \in Nodes, isValidNode(d, n),
         NEW e, Sane(e), isValidNode(e, n), e.inodes[n].dir = d.inodes[n].dir,
         OthersKept(d, e, n),
         isDirectory(d, n) => e.inodes[n].size = 0,
         ~isDirectory(d, n) => \A i \in Positions : Cell(e, n, i) \in Bytes \cup {Stale, Wild}
  PROVE  DiskInv(e) /\ KindsKept(d, e)
  <1>1. d \in Disk /\ DirsHold(d) /\ NamesInv(d) /\ FilesHold(d) /\ isDirectory(d, rootNode)
        /\ e \in Disk
    BY DEF DiskInv, Sane
  <1>2. KindsKept(d, e) BY DEF KindsKept, OthersKept, isValidNode
  <1>3. \A m \in Nodes : isDirectory(e, m) <=> isDirectory(d, m)
    BY DEF OthersKept, isValidNode, isDirectory
  <1>4. ASSUME NEW m \in Nodes, m # n
        PROVE  isValidNode(e, m) => isValidNode(d, m) /\ SameNode(d, e, m)
    BY <1>4 DEF OthersKept, isValidNode
  <1>5. ASSUME NEW m \in Nodes, NEW i \in Positions, IsPlace(e, m, i)
        PROVE  m # n /\ IsPlace(d, m, i) /\ Cell(e, m, i) = Cell(d, m, i)
    <2>1. m # n
      <3> SUFFICES ASSUME m = n PROVE FALSE OBVIOUS
      <3>1. isDirectory(d, n) BY <1>3, <1>5 DEF IsPlace
      <3>2. i < 0 BY <1>5, <3>1 DEF IsPlace
      <3> QED BY <3>2, PlaceOf
    <2>2. SameNode(d, e, m) BY <1>4, <1>5, <2>1 DEF IsPlace, isDirectory
    <2> QED BY <1>5, <2>1, <2>2, SamePlaces DEF SameNode
  <1>6. NamesInv(e)
    <2> DEFINE before == [m \in Nodes |-> [i \in Positions |-> i]]
    <2>1. \A m \in Nodes, i \in Positions : before[m][i] = i OBVIOUS
    <2> HIDE DEF before
    <2>2. \A m \in Nodes, i \in Positions : IsPlace(e, m, i) =>
             /\ before[m][i] \in Positions /\ IsPlace(d, m, before[m][i])
             /\ Cell(e, m, i) = Cell(d, m, before[m][i])
             /\ isValidNode(e, Cell(e, m, i).node)
      <3> SUFFICES ASSUME NEW m \in Nodes, NEW i \in Positions, IsPlace(e, m, i)
                   PROVE  /\ IsPlace(d, m, i) /\ Cell(e, m, i) = Cell(d, m, i)
                          /\ isValidNode(e, Cell(e, m, i).node)
        BY <2>1
      <3>1. IsPlace(d, m, i) /\ Cell(e, m, i) = Cell(d, m, i) BY <1>5
      <3>2. isValidNode(d, Cell(d, m, i).node) BY <1>1, <3>1 DEF NamesInv
      <3> QED BY <1>2, <3>1, <3>2 DEF KindsKept, isValidNode
    <2>3. \A m \in Nodes, i, k \in Positions :
             /\ IsPlace(e, m, i) /\ IsPlace(e, m, k)
             /\ before[m][i] = before[m][k]
             => i = k
      BY <2>1
    <2> QED BY <1>1, <2>2, <2>3, FewerPlaces
  <1>7. ASSUME NEW m \in Nodes, isDirectory(e, m), NEW i \in 0..(e.inodes[m].size - 1)
        PROVE  Cell(e, m, i) \in Entry \cup {Wild}
    <2>1. i \in Positions /\ i < e.inodes[m].size BY <1>1, Sized
    <2>2. CASE Cell(e, m, i) # Wild
      <3>1. IsPlace(e, m, i) BY <1>7, <2>1, <2>2 DEF IsPlace
      <3>2. IsPlace(d, m, i) /\ Cell(e, m, i) = Cell(d, m, i) BY <1>5, <2>1, <3>1
      <3>3. isDirectory(d, m) /\ i \in 0..(d.inodes[m].size - 1)
        BY <1>1, <2>1, <3>2, Sized DEF IsPlace, Positions
      <3> QED BY <1>1, <3>2, <3>3 DEF DirsHold
    <2> QED BY <2>2
  <1>8. DirsHold(e) BY <1>7 DEF DirsHold
  <1>9. FilesHold(e)
    <2> SUFFICES ASSUME NEW m \in Nodes, isValidNode(e, m), ~isDirectory(e, m),
                        NEW i \in Positions
                 PROVE  Cell(e, m, i) \in Bytes \cup {Stale, Wild}
      BY DEF FilesHold
    <2>1. ~isDirectory(d, m) BY <1>3
    <2>2. CASE m = n BY <2>1, <2>2
    <2>3. CASE m # n
      <3>1. isValidNode(d, m) /\ SameNode(d, e, m) BY <1>4, <2>3
      <3> QED BY <1>1, <2>1, <3>1 DEF FilesHold, SameNode
    <2> QED BY <2>2, <2>3
  <1>10. isDirectory(e, rootNode) BY <1>1, <1>3, Sizes
  <1> QED BY <1>2, <1>6, <1>8, <1>9, <1>10 DEF DiskInv

(* setSize of a file, or of a directory to nothing.                         *)
LEMMA SetSizeEffect ==
  ASSUME NEW d, DiskInv(d), NEW n \in Nodes, NEW size \in 0..maxFilesize,
         isDirectory(d, n) => size = 0
  PROVE  /\ DiskInv(setSize(d, n, size)) /\ KindsKept(d, setSize(d, n, size))
         /\ OthersKept(d, setSize(d, n, size), n)
         /\ isValidNode(d, n) => setSize(d, n, size).inodes[n].size = size
  <1> DEFINE e == setNodeSize(d, n, size)
  <1>1. CASE isValidNode(d, n)
    <2>1. setSize(d, n, size) = e BY <1>1 DEF setSize
    <2>2. Resized(d, e, n, size) BY <1>1, SetNodeSizeEffect DEF DiskInv
    <2> HIDE DEF e
    <2>3. ~isDirectory(d, n) => \A i \in Positions : Cell(e, n, i) \in Bytes \cup {Stale, Wild}
      BY <1>1, <2>2 DEF Resized, DiskInv, FilesHold
    <2>4. DiskInv(e) /\ KindsKept(d, e) BY <1>1, <2>2, <2>3, OneChanged DEF Resized
    <2> QED BY <2>1, <2>2, <2>4 DEF Resized
  <1>2. CASE ~isValidNode(d, n)
    <2>1. setSize(d, n, size) = d BY <1>2 DEF setSize
    <2> QED BY <1>2, <2>1 DEF KindsKept, OthersKept, SameNode
  <1> QED BY <1>1, <1>2

(* writeNode of a file.                                                     *)
LEMMA WriteFileEffect ==
  ASSUME NEW d, DiskInv(d), NEW n \in Nodes, isValidNode(d, n), ~isDirectory(d, n),
         NEW from \in 0..maxFilesize, NEW cells \in Seq(Bytes)
  PROVE  LET w == writeNode(d, n, cells, from)
         IN  /\ w.written \in Nat /\ from + w.written <= maxFilesize
             /\ DiskInv(w.fs) /\ KindsKept(d, w.fs) /\ OthersKept(d, w.fs, n)
  <1> DEFINE w == writeNode(d, n, cells, from)
             e == w.fs
  <1>1. cells \in Seq(Content) /\ \A k \in 1..Len(cells) : cells[k] \in Bytes
    BY DEF Content
  <1>2. Sane(d) BY DEF DiskInv
  <1>3. /\ w.written \in Nat /\ from + w.written <= maxFilesize
        /\ Sane(e) /\ isValidNode(e, n) /\ e.inodes[n].dir = d.inodes[n].dir
        /\ \A i \in Positions :
              \/ Cell(e, n, i) \in {Cell(d, n, i), Wild, Stale}
              \/ \E k \in 1..Len(cells) : Cell(e, n, i) = cells[k]
        /\ OthersKept(d, e, n)
    BY <1>1, <1>2, WriteNodeEffect
  <1> HIDE DEF w
  <1>4. \A i \in Positions : Cell(d, n, i) \in Bytes \cup {Stale, Wild}
    BY DEF DiskInv, FilesHold
  <1>5. \A i \in Positions : Cell(e, n, i) \in Bytes \cup {Stale, Wild}
    BY <1>1, <1>3, <1>4
  <1>6. DiskInv(e) /\ KindsKept(d, e) BY <1>3, <1>5, OneChanged
  <1> QED BY <1>3, <1>6 DEF w
-----------------------------------------------------------------------------
(* The invariant holds at the start and in every step. Programs do not      *)
(* delete the root, nor what they have open.                                *)

Careful == "delete open files" \notin Liberties /\ "delete the root" \notin Liberties

\* One file changes at most.
OneAtMost(d, e) ==
    \E x : \A n \in Nodes :
        /\ n # x /\ isValidNode(d, n) /\ isValidNode(e, n)
        /\ ~isDirectory(d, n)
        => SameNode(d, e, n)

LEMMA EmptyIsRight == DiskInv(EmptyDisk)
  <1> DEFINE e == EmptyDisk
  <1>1. /\ e.inodes = [n \in Nodes |-> IF n = rootNode THEN NewInode(TRUE) ELSE FreeInode]
        /\ e.bitmap = {} /\ e.data = [b \in Blocks |-> [j \in Offsets |-> Stale]]
        /\ e = [inodes |-> e.inodes, bitmap |-> e.bitmap, data |-> e.data]
    BY DEF EmptyDisk, Offsets
  <1> HIDE DEF e
  <1>2. /\ NewInode(TRUE) \in Inode /\ NewInode(TRUE).refCount = 1 /\ NewInode(TRUE).dir = TRUE
        /\ NewInode(TRUE).size = 0
        /\ \A l \in Links : NewInode(TRUE).directBlocks[l] = invalidBlock
        /\ FreeInode \in Inode /\ FreeInode.refCount = 0
    <2>1. 0 \in 0..maxFilesize /\ 0 \in Blocks BY Sizes DEF Blocks
    <2> QED BY <2>1 DEF NewInode, FreeInode, Inode
  <1>3. /\ e.inodes \in [Nodes -> Inode]
        /\ \A n \in Nodes : isValidNode(e, n) <=> n = rootNode
        /\ e.inodes[rootNode] = NewInode(TRUE)
    <2> DEFINE new == NewInode(TRUE)
               free == FreeInode
    <2>1. new \in Inode /\ free \in Inode /\ new.refCount = 1 /\ free.refCount = 0
      BY <1>2
    <2>2. e.inodes = [n \in Nodes |-> IF n = rootNode THEN new ELSE free] BY <1>1
    <2> HIDE DEF new, free
    <2>3. e.inodes \in [Nodes -> Inode] BY <2>1, <2>2
    <2>4. \A n \in Nodes : e.inodes[n] = IF n = rootNode THEN new ELSE free BY <2>2
    <2>5. \A n \in Nodes : isValidNode(e, n) <=> n = rootNode
      BY <2>1, <2>4 DEF isValidNode
    <2>6. e.inodes[rootNode] = new BY <2>4, Sizes
    <2> QED BY <2>3, <2>5, <2>6 DEF new
  <1>4. e.data \in [Blocks -> [Offsets -> Content]] BY <1>1, WildIsOutside
  <1>5. e \in Disk
    <2> DEFINE inodes == e.inodes
               bitmap == e.bitmap
               data == e.data
    <2>1. bitmap \in SUBSET Blocks /\ e = [inodes |-> inodes, bitmap |-> bitmap, data |-> data]
      BY <1>1
    <2>2. inodes \in [Nodes -> Inode] /\ data \in [Blocks -> [Offsets -> Content]]
      BY <1>3, <1>4
    <2> HIDE DEF inodes, bitmap, data
    <2> QED BY <2>1, <2>2 DEF Disk
  <1>6. \A n \in Nodes, l \in Links, b \in Blocks : ~Owns(e, n, l, b)
    BY <1>2, <1>3, Sizes DEF Owns
  <1>7. Accounted(e) BY <1>1, <1>6 DEF Accounted
  <1>8. FreeIsStale(e) BY <1>1 DEF FreeIsStale
  <1>9. isDirectory(e, rootNode) BY <1>2, <1>3, Sizes DEF isDirectory
  <1>10. \A n \in Nodes : isDirectory(e, n) => e.inodes[n].size = 0
    BY <1>2, <1>3 DEF isDirectory
  <1>11. FilesHold(e) BY <1>3, <1>9 DEF FilesHold
  <1>12. DirsHold(e)
    <2>1. 0..(0 - 1) = {} OBVIOUS
    <2> QED BY <1>10, <2>1 DEF DirsHold
  <1>13. \A n \in Nodes, i \in Positions : ~IsPlace(e, n, i)
    <2>1. \A i \in Positions : ~(i < 0) BY PlaceOf
    <2> QED BY <1>10, <2>1 DEF IsPlace
  <1>14. NamesInv(e) BY <1>13 DEF NamesInv
  <1> QED BY <1>5, <1>7, <1>8, <1>9, <1>11, <1>12, <1>14 DEF DiskInv, Sane, e

LEMMA IInvInit == Init => IInv
  <1> SUFFICES ASSUME Init PROVE IInv OBVIOUS
  <1>1. DiskInv(fs) BY EmptyIsRight DEF Init
  <1>2. FilesInv
    <2>1. 0 \in 0..maxFilesize BY Sizes
    <2> QED BY <2>1 DEF FilesInv, Init, Closed
  <1>3. DescriptorsLive BY DEF Init, DescriptorsLive, Open
  <1> QED BY <1>1, <1>2, <1>3 DEF IInv

(* Descriptors stay right if the inodes keep their kinds.                   *)
LEMMA KeptDescriptors ==
  ASSUME IInv, DiskInv(fs'), KindsKept(fs, fs'), FilesInv',
         \A fd \in Fds : files'[fd] # Closed =>
            \/ /\ files[fd] # Closed /\ files'[fd].inode = files[fd].inode
               /\ files'[fd].dir = files[fd].dir
            \/ /\ isValidNode(fs', files'[fd].inode)
               /\ files'[fd].dir = isDirectory(fs', files'[fd].inode)
  PROVE  IInv'
  <1>1. ASSUME NEW fd \in Fds, files'[fd] # Closed
        PROVE  /\ isValidNode(fs', files'[fd].inode)
               /\ files'[fd].dir = isDirectory(fs', files'[fd].inode)
    <2>1. CASE /\ files[fd] # Closed /\ files'[fd].inode = files[fd].inode
               /\ files'[fd].dir = files[fd].dir
      <3> DEFINE n == files[fd].inode
      <3>1. n \in Nodes /\ isValidNode(fs, n) /\ files[fd].dir = isDirectory(fs, n)
        BY <2>1 DEF IInv, DescriptorsLive, Open, Live
      <3> HIDE DEF n
      <3>2. isValidNode(fs', n) /\ fs'.inodes[n].dir = fs.inodes[n].dir
        BY <3>1 DEF KindsKept
      <3>3. isDirectory(fs', n) = isDirectory(fs, n) BY <3>1, <3>2 DEF isDirectory
      <3> QED BY <2>1, <3>1, <3>2, <3>3 DEF n
    <2> QED BY <1>1, <2>1
  <1>2. DescriptorsLive' BY <1>1 DEF DescriptorsLive, Open, Live, isValidNode
  <1> QED BY <1>2 DEF IInv

\* A descriptor of a type, in the next state.
Descriptor == [inode : Nodes \cup {invalidNode}, position : 0..maxFilesize, dir : BOOLEAN]

LEMMA FilesInvNext ==
  ASSUME FilesInv, NEW fd \in Fds, NEW v \in Descriptor,
         files' = [files EXCEPT ![fd] = v], crashed' = crashed
  PROVE  FilesInv'
  BY DEF FilesInv, Descriptor

LEMMA OneFile ==
  ASSUME NEW d, NEW g, KindsKept(d, g), FilesKept(d, g)
  PROVE  /\ OneAtMost(d, g)
         /\ \A e, n : OthersKept(g, e, n) => OneAtMost(d, e)
  <1>1. OneAtMost(d, g) BY DEF OneAtMost, FilesKept
  <1>2. ASSUME NEW e, NEW n, OthersKept(g, e, n) PROVE OneAtMost(d, e)
    <2>1. ASSUME NEW m \in Nodes, m # n, isValidNode(d, m), ~isDirectory(d, m)
          PROVE  SameNode(d, e, m)
      <3>1. SameNode(d, g, m) /\ isValidNode(g, m) BY <2>1 DEF KindsKept, FilesKept
      <3>2. SameNode(g, e, m) BY <1>2, <2>1, <3>1 DEF OthersKept
      <3> QED BY <3>1, <3>2 DEF SameNode
    <2> QED BY <2>1 DEF OneAtMost
  <1> QED BY <1>1, <1>2

LEMMA KindsKeptTwice ==
  ASSUME NEW d, NEW g, NEW e, KindsKept(d, g), KindsKept(g, e)
  PROVE  KindsKept(d, e)
  BY DEF KindsKept

LEMMA CrashStep ==
  ASSUME IInv, Crash
  PROVE  IInv' /\ OneAtMost(fs, fs')
  <1>1. fs' = fs /\ files' = files /\ crashed' = TRUE BY DEF Crash
  <1>2. DiskInv(fs') BY <1>1 DEF IInv
  <1>3. Extended(fs, fs') BY <1>1, ExtendedSelf DEF IInv
  <1>4. FilesInv' BY <1>1 DEF IInv, FilesInv
  <1>5. IInv' BY <1>1, <1>2, <1>3, <1>4, KeptDescriptors DEF Extended
  <1>6. OneAtMost(fs, fs') BY <1>3, OneFile DEF Extended
  <1> QED BY <1>5, <1>6

(* A scan that has left the disk is not followed by a creation.             *)
LEMMA CreatedInside ==
  ASSUME NEW d \in Disk, NEW dir, NEW name, NEW isDir,
         findInDirectory(d, dir, name) = invalidNode
  PROVE  createFile(d, dir, name, isDir).node # Wild
  <1> DEFINE n == freeNode(d)
             found == findInDirectory(d, dir, name)
             c == createFile(d, dir, name, isDir)
  <1>1. c.node \in {IF found = Wild THEN Wild ELSE invalidNode, n} BY DEF createFile
  <1>2. n \in Nodes \cup {invalidNode} BY FreeNode
  <1>3. found = invalidNode OBVIOUS
  <1> HIDE DEF n, found
  <1> QED BY <1>1, <1>2, <1>3

LEMMA LookedUp ==
  ASSUME NEW d, NEW path, path # <<>>, NEW create,
         resolveFile(d, path, create).parent \in Nodes
  PROVE  resolveFile(d, path, create).file =
           findInDirectory(resolveFile(d, path, create).fs,
                           resolveFile(d, path, create).parent, path[Len(path)])
  <1> DEFINE at == Walk(d, path, create)
  <1>1. resolveFile(d, path, create) = LookUp(at, path[Len(path)]) BY DEF resolveFile
  <1> HIDE DEF at
  <1>2. Wild \notin Nodes /\ invalidNode \notin Nodes BY Sizes
  <1> QED BY <1>1, <1>2 DEF LookUp

LEMMA OpenFileStep ==
  ASSUME IInv, NEW fd \in Fds, NEW path \in Paths,
         NEW createNew \in BOOLEAN, NEW dir \in BOOLEAN, OpenFile(fd, path, createNew, dir)
  PROVE  IInv' /\ OneAtMost(fs, fs')
  <1> DEFINE r == resolveFile(fs, path, createNew)
             made == createFile(r.fs, r.parent, path[Len(path)], dir)
             open(n) == files' = [files EXCEPT ![fd] = createDescriptor(n, dir)]
  <1>1. DiskInv(fs) /\ FilesInv BY DEF IInv
  <1>2. /\ Resolved(fs, r, createNew)
        /\ r.file = invalidNode => path # <<>> /\ path[Len(path)] \in Names
    BY <1>1, ResolveEffect
  <1>3. \/ Crash
        \/ /\ r.file \in Nodes /\ fileTypeMatches(r.fs, r.file, dir)
           /\ open(r.file)
           /\ fs' = IF createNew THEN setSize(r.fs, r.file, 0) ELSE r.fs
           /\ UNCHANGED crashed
        \/ fs' = r.fs /\ UNCHANGED <<files, crashed>>
        \/ /\ r.file = invalidNode /\ r.parent \in Nodes
           /\ fs' = made.fs
           /\ IF made.node = invalidNode THEN UNCHANGED files ELSE open(made.node)
           /\ UNCHANGED crashed
    BY DEF OpenFile
  <1> HIDE DEF r, made
  <1>4. /\ Extended(fs, r.fs) /\ DiskInv(r.fs) /\ KindsKept(fs, r.fs) /\ FilesKept(fs, r.fs)
        /\ r.file \in Nodes => isValidNode(r.fs, r.file)
    BY <1>2 DEF Resolved, Extended
  <1>5. \A n \in Nodes : createDescriptor(n, dir) \in Descriptor
    <2>1. 0 \in 0..maxFilesize BY Sizes
    <2> QED BY <2>1 DEF createDescriptor, Descriptor
  <1>6. ASSUME NEW n \in Nodes, open(n), UNCHANGED crashed, DiskInv(fs'), KindsKept(fs, fs'),
               isValidNode(fs', n), dir = isDirectory(fs', n)
        PROVE  IInv'
    <2> DEFINE v == createDescriptor(n, dir)
    <2>1. v \in Descriptor /\ files' = [files EXCEPT ![fd] = v] BY <1>5, <1>6
    <2>2. v.inode = n /\ v.dir = dir BY DEF createDescriptor
    <2> HIDE DEF v
    <2>3. FilesInv' BY <1>1, <1>6, <2>1, FilesInvNext
    <2>4. \A x \in Fds : files'[x] = IF x = fd THEN v ELSE files[x]
      BY <1>1, <2>1 DEF FilesInv
    <2>5. \A x \in Fds : files'[x] # Closed =>
            \/ /\ files[x] # Closed /\ files'[x].inode = files[x].inode
               /\ files'[x].dir = files[x].dir
            \/ /\ isValidNode(fs', files'[x].inode)
               /\ files'[x].dir = isDirectory(fs', files'[x].inode)
      <3> SUFFICES ASSUME NEW x \in Fds, files'[x] # Closed
                   PROVE  \/ /\ files[x] # Closed /\ files'[x].inode = files[x].inode
                             /\ files'[x].dir = files[x].dir
                          \/ /\ isValidNode(fs', files'[x].inode)
                             /\ files'[x].dir = isDirectory(fs', files'[x].inode)
        OBVIOUS
      <3>1. CASE x = fd BY <1>6, <2>2, <2>4, <3>1
      <3>2. CASE x # fd BY <2>4, <3>2
      <3> QED BY <3>1, <3>2
    <2> QED BY <1>6, <2>3, <2>5, KeptDescriptors
  <1>7. ASSUME UNCHANGED <<files, crashed>>, DiskInv(fs'), KindsKept(fs, fs')
        PROVE  IInv'
    <2>1. FilesInv' BY <1>1, <1>7 DEF FilesInv
    <2> QED BY <1>7, <2>1, KeptDescriptors
  <1>8. CASE Crash BY <1>8, CrashStep
  <1>9. CASE /\ r.file \in Nodes /\ fileTypeMatches(r.fs, r.file, dir)
             /\ open(r.file)
             /\ fs' = IF createNew THEN setSize(r.fs, r.file, 0) ELSE r.fs
             /\ UNCHANGED crashed
    <2> DEFINE n == r.file
    <2>1. n \in Nodes /\ isValidNode(r.fs, n) /\ dir = isDirectory(r.fs, n)
      BY <1>4, <1>9 DEF fileTypeMatches
    <2>2. DiskInv(fs') /\ KindsKept(r.fs, fs') /\ OthersKept(r.fs, fs', n)
      <3>1. CASE createNew
        <4>1. fs' = setSize(r.fs, n, 0) BY <1>9, <3>1
        <4>2. 0 \in 0..maxFilesize BY Sizes
        <4> HIDE DEF n
        <4> QED BY <1>4, <2>1, <4>1, <4>2, SetSizeEffect
      <3>2. CASE ~createNew
        <4>1. fs' = r.fs BY <1>9, <3>2
        <4> QED BY <1>4, <4>1 DEF KindsKept, OthersKept, SameNode
      <3> QED BY <3>1, <3>2
    <2>3. KindsKept(fs, fs') BY <1>4, <2>2, KindsKeptTwice
    <2>4. isValidNode(fs', n) /\ isDirectory(fs', n) = isDirectory(r.fs, n)
      <3>1. isValidNode(fs', n) /\ fs'.inodes[n].dir = r.fs.inodes[n].dir
        BY <2>1, <2>2 DEF KindsKept
      <3> QED BY <2>1, <3>1 DEF isDirectory
    <2>5. IInv' BY <1>6, <1>9, <2>1, <2>2, <2>3, <2>4
    <2>6. OneAtMost(fs, fs') BY <1>4, <2>2, OneFile
    <2> QED BY <2>5, <2>6
  <1>10. CASE fs' = r.fs /\ UNCHANGED <<files, crashed>>
    <2>1. IInv' BY <1>4, <1>7, <1>10
    <2>2. OneAtMost(fs, fs') BY <1>4, <1>10, OneFile
    <2> QED BY <2>1, <2>2
  <1>11. CASE /\ r.file = invalidNode /\ r.parent \in Nodes
              /\ fs' = made.fs
              /\ IF made.node = invalidNode THEN UNCHANGED files ELSE open(made.node)
              /\ UNCHANGED crashed
    <2>1. /\ Extended(r.fs, made.fs)
          /\ made.node \in Nodes \cup {invalidNode, Wild}
          /\ made.node \in Nodes => isValidNode(made.fs, made.node)
                                    /\ made.fs.inodes[made.node].dir = dir
      <3>1. path[Len(path)] \in Names BY <1>2, <1>11
      <3>2. FileCreated(r.fs, made, r.parent, path[Len(path)], dir)
        BY <1>4, <1>11, <3>1, CreateFileEffect DEF made
      <3> QED BY <3>2 DEF FileCreated
    <2>2. Extended(fs, fs') BY <1>4, <1>11, <2>1, ExtendedTwice
    <2>3. DiskInv(fs') /\ KindsKept(fs, fs') /\ OneAtMost(fs, fs')
      BY <2>2, OneFile DEF Extended
    <2>4. CASE made.node = invalidNode
      <3>1. UNCHANGED <<files, crashed>> BY <1>11, <2>4
      <3> QED BY <1>7, <2>3, <3>1
    <2>5. CASE made.node \in Nodes
      <3>1. made.node # invalidNode BY <2>5, Sizes
      <3>2. isValidNode(fs', made.node) /\ dir = isDirectory(fs', made.node)
        BY <1>11, <2>1, <2>5 DEF isDirectory
      <3>3. open(made.node) BY <1>11, <3>1
      <3> QED BY <1>6, <1>11, <2>3, <2>5, <3>2, <3>3
    <2>6. made.node # Wild
      <3>1. path # <<>> /\ r.file = invalidNode /\ r.parent \in Nodes BY <1>2, <1>11
      <3>2. findInDirectory(r.fs, r.parent, path[Len(path)]) = invalidNode
        BY <3>1, LookedUp DEF r
      <3>3. r.fs \in Disk BY <1>4 DEF DiskInv, Sane
      <3> QED BY <3>2, <3>3, CreatedInside DEF made
    <2> QED BY <2>1, <2>3, <2>4, <2>5, <2>6
  <1> QED BY <1>3, <1>8, <1>9, <1>10, <1>11

\* A step on one open descriptor that stays on its inode, or closes.
LEMMA DescriptorStep ==
  ASSUME IInv, NEW fd \in Fds, files[fd] # Closed, NEW v \in Descriptor,
         files' = [files EXCEPT ![fd] = v], UNCHANGED crashed,
         v = Closed \/ (v.inode = files[fd].inode /\ v.dir = files[fd].dir),
         DiskInv(fs'), KindsKept(fs, fs')
  PROVE  IInv'
  <1>1. FilesInv BY DEF IInv
  <1>2. FilesInv' BY <1>1, FilesInvNext
  <1>3. \A x \in Fds : files'[x] = IF x = fd THEN v ELSE files[x] BY <1>1 DEF FilesInv
  <1>4. \A x \in Fds : files'[x] # Closed =>
           /\ files[x] # Closed /\ files'[x].inode = files[x].inode
           /\ files'[x].dir = files[x].dir
    BY <1>3
  <1> QED BY <1>2, <1>4, KeptDescriptors

LEMMA OldDescriptor ==
  ASSUME IInv, NEW fd \in Fds
  PROVE  /\ files[fd] \in Descriptor
         /\ files[fd].position \in 0..maxFilesize
         /\ files[fd] # Closed =>
               /\ files[fd].inode \in Nodes /\ isValidNode(fs, files[fd].inode)
               /\ files[fd].dir = isDirectory(fs, files[fd].inode)
         /\ \A p \in 0..maxFilesize :
               /\ [files[fd] EXCEPT !.position = p] \in Descriptor
               /\ [files[fd] EXCEPT !.position = p].inode = files[fd].inode
               /\ [files[fd] EXCEPT !.position = p].dir = files[fd].dir
               /\ [files EXCEPT ![fd].position = p]
                     = [files EXCEPT ![fd] = [files[fd] EXCEPT !.position = p]]
         /\ Closed \in Descriptor
  <1>1. files[fd] \in Descriptor BY DEF IInv, FilesInv, Descriptor
  <1>2. files[fd] # Closed =>
               /\ files[fd].inode \in Nodes /\ isValidNode(fs, files[fd].inode)
               /\ files[fd].dir = isDirectory(fs, files[fd].inode)
    BY DEF IInv, DescriptorsLive, Open, Live
  <1>3. 0 \in 0..maxFilesize BY Sizes
  <1>4. Closed \in Descriptor BY <1>3 DEF Closed, Descriptor
  <1> QED BY <1>1, <1>2, <1>4 DEF Descriptor

LEMMA SameDisk ==
  ASSUME IInv
  PROVE  DiskInv(fs) /\ KindsKept(fs, fs) /\ OneAtMost(fs, fs)
  BY OneFile, ExtendedSelf DEF Extended, IInv

LEMMA CloseFileStep ==
  ASSUME IInv, NEW fd \in Fds, CloseFile(fd)
  PROVE  IInv' /\ OneAtMost(fs, fs')
  <1>1. /\ files[fd] # Closed /\ files' = [files EXCEPT ![fd] = Closed]
        /\ fs' = fs /\ UNCHANGED crashed
    BY DEF CloseFile, Open
  <1>2. Closed \in Descriptor BY OldDescriptor
  <1>3. DiskInv(fs') /\ KindsKept(fs, fs') BY <1>1, SameDisk
  <1>4. IInv' BY <1>1, <1>2, <1>3, DescriptorStep
  <1> QED BY <1>1, <1>4, SameDisk

LEMMA ReadStep ==
  ASSUME IInv, NEW fd \in Fds, NEW length \in 1..MaxWrite, Read(fd, length)
  PROVE  IInv' /\ OneAtMost(fs, fs')
  <1> DEFINE n == files[fd].inode
             from == files[fd].position
             size == fs.inodes[n].size
             to == IF isValidNode(fs, n) THEN Smaller(from + length, size) ELSE from
             v == [files[fd] EXCEPT !.position = to]
  <1>1. /\ files[fd] # Closed
        /\ \/ Crash
           \/ files' = [files EXCEPT ![fd].position = to] /\ UNCHANGED <<fs, crashed>>
    BY DEF Read, Open
  <1>2. CASE Crash BY <1>2, CrashStep
  <1>3. CASE files' = [files EXCEPT ![fd].position = to] /\ UNCHANGED <<fs, crashed>>
    <2>1. n \in Nodes /\ from \in 0..maxFilesize BY <1>1, OldDescriptor
    <2>2. size \in 0..maxFilesize BY <2>1, DiskTypes DEF IInv, DiskInv, Sane
    <2>3. length \in Nat /\ maxFilesize \in Nat BY Sizes, DriverAssumption
    <2> HIDE DEF size, from, n
    <2>4. to \in 0..maxFilesize BY <2>1, <2>2, <2>3 DEF Smaller
    <2> HIDE DEF to
    <2>5. /\ v \in Descriptor /\ v.inode = files[fd].inode /\ v.dir = files[fd].dir
          /\ files' = [files EXCEPT ![fd] = v]
      BY <1>3, <2>4, OldDescriptor
    <2> HIDE DEF v
    <2>6. DiskInv(fs') /\ KindsKept(fs, fs') BY <1>3, SameDisk
    <2>7. IInv' BY <1>1, <1>3, <2>5, <2>6, DescriptorStep
    <2> QED BY <1>3, <2>7, SameDisk
  <1> QED BY <1>1, <1>2, <1>3

LEMMA WriteStep ==
  ASSUME IInv, NEW fd \in Fds, NEW k \in 1..MaxWrite, NEW cells \in [1..k -> Bytes],
         Write(fd, cells)
  PROVE  IInv' /\ OneAtMost(fs, fs')
  <1> DEFINE n == files[fd].inode
             from == files[fd].position
             w == writeNode(fs, n, cells, from)
             to == from + w.written
             v == [files[fd] EXCEPT !.position = to]
  <1>1. /\ files[fd] # Closed /\ ~files[fd].dir
        /\ fs' = w.fs /\ files' = [files EXCEPT ![fd].position = to]
        /\ UNCHANGED crashed
    BY DEF Write, Open
  <1>2. /\ n \in Nodes /\ isValidNode(fs, n) /\ ~isDirectory(fs, n)
        /\ from \in 0..maxFilesize
    BY <1>1, OldDescriptor
  <1>3. cells \in Seq(Bytes)
    <2>1. k \in Nat BY DriverAssumption
    <2> QED BY <2>1
  <1>4. DiskInv(fs) BY DEF IInv
  <1>5. /\ w.written \in Nat /\ to <= maxFilesize
        /\ DiskInv(w.fs) /\ KindsKept(fs, w.fs) /\ OthersKept(fs, w.fs, n)
    <2> HIDE DEF n, from
    <2> QED BY <1>2, <1>3, <1>4, WriteFileEffect
  <1> HIDE DEF w
  <1>6. to \in 0..maxFilesize BY <1>2, <1>5, Sizes
  <1> HIDE DEF to
  <1>7. /\ v \in Descriptor /\ v.inode = files[fd].inode /\ v.dir = files[fd].dir
        /\ files' = [files EXCEPT ![fd] = v]
    BY <1>1, <1>6, OldDescriptor
  <1> HIDE DEF v
  <1>8. IInv' BY <1>1, <1>5, <1>7, DescriptorStep
  <1>9. OneAtMost(fs, fs')
    <2>1. KindsKept(fs, fs) /\ FilesKept(fs, fs) BY <1>4, ExtendedSelf DEF Extended
    <2> QED BY <1>1, <1>5, <2>1, OneFile
  <1> QED BY <1>8, <1>9

LEMMA SetPosStep ==
  ASSUME IInv, NEW fd \in Fds, NEW position \in 0..maxFilesize, NEW setType \in BOOLEAN,
         SetPos(fd, position, setType)
  PROVE  IInv' /\ OneAtMost(fs, fs')
  <1> DEFINE n == files[fd].inode
             v == [files[fd] EXCEPT !.position = position]
  <1>1. /\ files[fd] # Closed /\ (setType => ~files[fd].dir)
        /\ files' = [files EXCEPT ![fd].position = position]
        /\ fs' = IF setType THEN setSize(fs, n, position) ELSE fs
        /\ UNCHANGED crashed
    BY DEF SetPos, Open
  <1>2. n \in Nodes /\ files[fd].dir = isDirectory(fs, n) BY <1>1, OldDescriptor
  <1>3. DiskInv(fs) BY DEF IInv
  <1>4. KindsKept(fs, fs) /\ FilesKept(fs, fs) /\ OneAtMost(fs, fs)
    BY <1>3, ExtendedSelf, OneFile DEF Extended
  <1>5. DiskInv(fs') /\ KindsKept(fs, fs') /\ OneAtMost(fs, fs')
    <2>1. CASE setType
      <3>1. fs' = setSize(fs, n, position) /\ ~files[fd].dir BY <1>1, <2>1
      <3> HIDE DEF n
      <3>2. ~isDirectory(fs, n) BY <1>2, <3>1
      <3>3. DiskInv(fs') /\ KindsKept(fs, fs') /\ OthersKept(fs, fs', n)
        BY <1>2, <1>3, <3>1, <3>2, SetSizeEffect
      <3> QED BY <1>4, <3>3, OneFile
    <2>2. CASE ~setType
      <3>1. fs' = fs BY <1>1, <2>2
      <3> QED BY <1>3, <1>4, <3>1
    <2> QED BY <2>1, <2>2
  <1>6. /\ v \in Descriptor /\ v.inode = files[fd].inode /\ v.dir = files[fd].dir
        /\ files' = [files EXCEPT ![fd] = v]
    BY <1>1, OldDescriptor
  <1> HIDE DEF v
  <1>7. IInv' BY <1>1, <1>5, <1>6, DescriptorStep
  <1> QED BY <1>5, <1>7

LEMMA DeleteFileStep ==
  ASSUME Careful, IInv, NEW path \in Paths, DeleteFile(path)
  PROVE  IInv' /\ OneAtMost(fs, fs')
  <1> DEFINE r == resolveFile(fs, path, FALSE)
             f == r.file
             dir == r.parent
             D == deletedNodes(fs, f)
             e == deleteFile(fs, dir, f)
  <1>1. DiskInv(fs) /\ FilesInv BY DEF IInv
  <1>2. Resolved(fs, r, FALSE) BY <1>1, ResolveEffect
  <1>3. \/ Crash
        \/ /\ f \in Nodes /\ canDelete(fs, dir, f) /\ MayDelete(f)
           /\ fs' = e /\ UNCHANGED <<files, crashed>>
    BY DEF DeleteFile
  <1> HIDE DEF r
  <1>4. CASE Crash BY <1>4, CrashStep
  <1>5. CASE /\ f \in Nodes /\ canDelete(fs, dir, f) /\ MayDelete(f)
             /\ fs' = e /\ UNCHANGED <<files, crashed>>
    <2>1. f # rootNode /\ \A fd \in Fds : files[fd] # Closed => files[fd].inode \notin D
      BY <1>5 DEF MayDelete, Careful, Open
    <2>2. r.fs = fs BY <1>2 DEF Resolved
    <2>3. dir \in Nodes /\ \E i \in Positions : IsPlace(fs, dir, i) /\ Cell(fs, dir, i).node = f
      BY <1>2, <1>5, <2>1, <2>2 DEF Resolved
    <2> HIDE DEF f, dir, D, e
    <2>4. PICK i0 \in Positions : IsPlace(fs, dir, i0) /\ Cell(fs, dir, i0).node = f BY <2>3
    <2>5. PICK before : Left(fs, e, D, dir, i0, before)
      BY <1>1, <1>5, <2>1, <2>3, <2>4, DeleteFileEffect DEF e, D
    <2>6. /\ DiskInv(e)
          /\ \A m \in Nodes \ D : isValidNode(fs, m) =>
                /\ isValidNode(e, m) /\ e.inodes[m].dir = fs.inodes[m].dir
                /\ ~isDirectory(fs, m) => SameNode(fs, e, m)
      BY <1>1, <1>5, <2>1, <2>3, <2>4, <2>5, LeftIsRight DEF D
    <2>7. \A m \in D : ~isValidNode(e, m) BY <2>5 DEF Left
    <2>8. ASSUME NEW fd \in Fds, files'[fd] # Closed
          PROVE  /\ isValidNode(fs', files'[fd].inode)
                 /\ files'[fd].dir = isDirectory(fs', files'[fd].inode)
      <3> DEFINE n == files[fd].inode
      <3>1. files'[fd] = files[fd] BY <1>5
      <3>2. n \in Nodes /\ isValidNode(fs, n) /\ files[fd].dir = isDirectory(fs, n)
        BY <2>8, <3>1, OldDescriptor
      <3>3. n \notin D BY <2>1, <2>8, <3>1
      <3> HIDE DEF n
      <3>4. isValidNode(e, n) /\ e.inodes[n].dir = fs.inodes[n].dir BY <2>6, <3>2, <3>3
      <3>5. isDirectory(e, n) = isDirectory(fs, n) BY <3>2, <3>4 DEF isDirectory
      <3> QED BY <1>5, <3>1, <3>2, <3>4, <3>5 DEF n
    <2>9. DescriptorsLive' BY <2>8 DEF DescriptorsLive, Open, Live, isValidNode
    <2>10. FilesInv' BY <1>1, <1>5 DEF FilesInv
    <2>11. IInv' BY <1>5, <2>6, <2>9, <2>10 DEF IInv
    <2>12. OneAtMost(fs, fs') BY <1>5, <2>6, <2>7 DEF OneAtMost
    <2> QED BY <2>11, <2>12
  <1> QED BY <1>3, <1>4, <1>5

LEMMA IInvStep == Careful /\ IInv /\ Next => IInv' /\ OneAtMost(fs, fs')
  <1> SUFFICES ASSUME Careful, IInv, Next PROVE IInv' /\ OneAtMost(fs, fs') OBVIOUS
  <1>1. CASE \E path \in Paths : DeleteFile(path) BY <1>1, DeleteFileStep
  <1>2. ASSUME NEW fd \in Fds, NEW path \in Paths, NEW createNew \in BOOLEAN,
               NEW dir \in BOOLEAN, OpenFile(fd, path, createNew, dir)
        PROVE  IInv' /\ OneAtMost(fs, fs')
    BY <1>2, OpenFileStep
  <1>3. CASE \E fd \in Fds : CloseFile(fd) BY <1>3, CloseFileStep
  <1>4. CASE \E fd \in Fds, length \in 1..MaxWrite : Read(fd, length) BY <1>4, ReadStep
  <1>5. ASSUME NEW fd \in Fds, NEW k \in 1..MaxWrite, NEW cells \in [1..k -> Bytes],
               Write(fd, cells)
        PROVE  IInv' /\ OneAtMost(fs, fs')
    BY <1>5, WriteStep
  <1>6. ASSUME NEW fd \in Fds, NEW position \in 0..maxFilesize, NEW setType \in BOOLEAN,
               SetPos(fd, position, setType)
        PROVE  IInv' /\ OneAtMost(fs, fs')
    BY <1>6, SetPosStep
  <1> QED BY <1>1, <1>2, <1>3, <1>4, <1>5, <1>6 DEF Next

LEMMA IInvNext == Careful /\ IInv /\ [Next]_vars => IInv'
  <1> SUFFICES ASSUME Careful, IInv, [Next]_vars PROVE IInv' OBVIOUS
  <1>1. CASE Next BY <1>1, IInvStep
  <1>2. CASE UNCHANGED vars
    <2>1. fs' = fs /\ files' = files /\ crashed' = crashed BY <1>2 DEF vars
    <2>2. DiskInv(fs') /\ KindsKept(fs, fs') BY <2>1, SameDisk
    <2>3. FilesInv' BY <2>1 DEF IInv, FilesInv
    <2> QED BY <2>1, <2>2, <2>3, KeptDescriptors
  <1> QED BY <1>1, <1>2

LEMMA IInvAlways == Careful => (Spec => []IInv)
  <1> SUFFICES ASSUME Careful PROVE Spec => []IInv OBVIOUS
  <1>1. IInv /\ [Next]_vars => IInv' BY IInvNext
  <1> QED BY <1>1, IInvInit, PTL DEF Spec
-----------------------------------------------------------------------------
(* The disk by names: a set of names, each a directory, a name and the      *)
(* inode that it leads to.                                                  *)

Triples == Nodes \X Names \X Nodes

\* One level further down.
Down(S, names) ==
    UNION {{<<Append(pn[1], e[2]), e[3]>> : e \in {e \in names : e[1] = pn[2]}} : pn \in S}

Top == {<<<<>>, rootNode>>}

LEMMA DownIs ==
  ASSUME NEW S, NEW names
  PROVE  \A pm : pm \in Down(S, names) <=>
            \E pn \in S, e \in names : e[1] = pn[2] /\ pm = <<Append(pn[1], e[2]), e[3]>>
  BY DEF Down

(* The recursion of Places is defined on its whole domain.                  *)
IsLevels(at, names, N) ==
    at = [k \in 0..N |-> IF k = 0 THEN Top ELSE Down(at[k - 1], names)]

LEMMA LevelsExist ==
  ASSUME NEW names, NEW N \in Nat
  PROVE  \E at : IsLevels(at, names, N)
  <1> DEFINE Bad == {n \in Nat : ~\E at : IsLevels(at, names, n)}
  <1>1. ASSUME Bad # {} PROVE FALSE
    <2>1. Bad \in SUBSET Nat OBVIOUS
    <2>2. PICK x \in Bad : \A y \in Bad : x <= y
      <3> HIDE DEF Bad
      <3> QED BY <1>1, <2>1, LeastExists
    <2>3. x \in Nat /\ ~\E at : IsLevels(at, names, x) OBVIOUS
    <2>4. ASSUME x = 0 PROVE FALSE
      <3> DEFINE at == [k \in 0..0 |-> Top]
      <3>1. \A k \in 0..0 : k = 0 OBVIOUS
      <3>2. at = [k \in 0..0 |-> IF k = 0 THEN Top ELSE Down(at[k - 1], names)] BY <3>1
      <3>3. IsLevels(at, names, 0) BY <3>2 DEF IsLevels
      <3> HIDE DEF at
      <3> QED BY <2>3, <2>4, <3>3
    <2>5. ASSUME x # 0 PROVE FALSE
      <3>1. x - 1 \in Nat /\ ~(x <= x - 1) BY <2>3, <2>5
      <3>2. x - 1 \notin Bad
        <4> HIDE DEF Bad
        <4> QED BY <2>2, <3>1
      <3>3. PICK at : IsLevels(at, names, x - 1) BY <3>1, <3>2
      <3> DEFINE next == [k \in 0..x |-> IF k = x THEN Down(at[x - 1], names) ELSE at[k]]
      <3>4. \A k \in 0..(x - 1) : at[k] = IF k = 0 THEN Top ELSE Down(at[k - 1], names)
        BY <3>3 DEF IsLevels
      <3>5. ASSUME NEW k \in 0..x
            PROVE  next[k] = IF k = 0 THEN Top ELSE Down(next[k - 1], names)
        <4>1. CASE k = x
          <5>1. x - 1 \in 0..x /\ x - 1 # x /\ x \in 0..x BY <2>3, <3>1
          <5>2. next[x - 1] = at[x - 1] /\ next[x] = Down(at[x - 1], names) BY <5>1
          <5> HIDE DEF next
          <5> QED BY <2>5, <4>1, <5>2
        <4>2. CASE k # x
          <5>1. k \in 0..(x - 1) BY <2>3, <4>2
          <5>2. next[k] = at[k] BY <4>2
          <5>3. k # 0 => k - 1 \in 0..x /\ k - 1 # x BY <2>3, <5>1
          <5>4. k # 0 => next[k - 1] = at[k - 1] BY <5>3
          <5> HIDE DEF next
          <5> QED BY <3>4, <5>1, <5>2, <5>4
        <4> QED BY <4>1, <4>2
      <3>6. next = [k \in 0..x |-> next[k]] OBVIOUS
      <3> HIDE DEF next
      <3>7. next = [k \in 0..x |-> IF k = 0 THEN Top ELSE Down(next[k - 1], names)]
        BY <3>5, <3>6
      <3>8. IsLevels(next, names, x) BY <3>7 DEF IsLevels
      <3> QED BY <2>3, <3>8
    <2> QED BY <2>4, <2>5
  <1>2. N \notin Bad
    <2> HIDE DEF Bad
    <2> QED BY <1>1
  <1> QED BY <1>2

LEMMA PlacesAre ==
  ASSUME NEW names
  PROVE  \E at : /\ Places(names) = UNION {at[k] : k \in 0..MaxDepth}
                 /\ at[0] = Top
                 /\ \A k \in 1..MaxDepth : at[k] = Down(at[k - 1], names)
  <1> DEFINE at == CHOOSE at : at = [k \in 0..MaxDepth |->
                       IF k = 0 THEN {<<<<>>, rootNode>>}
                       ELSE UNION {{<<Append(pn[1], e[2]), e[3]>> :
                                      e \in {e \in names : e[1] = pn[2]}} : pn \in at[k - 1]}]
  <1>1. Places(names) = UNION {at[k] : k \in 0..MaxDepth} BY DEF Places
  <1>2. IsLevels(at, names, MaxDepth)
    <2>1. \E x : IsLevels(x, names, MaxDepth) BY LevelsExist, DriverAssumption
    <2> QED BY <2>1 DEF IsLevels, Top, Down
  <1> HIDE DEF at
  <1>3. 0 \in 0..MaxDepth /\ \A k \in 1..MaxDepth : k \in 0..MaxDepth /\ k # 0
    BY DriverAssumption
  <1>4. at[0] = Top /\ \A k \in 1..MaxDepth : at[k] = Down(at[k - 1], names)
    BY <1>2, <1>3 DEF IsLevels
  <1> QED BY <1>1, <1>4

(* The places are closed under the names, up to the bound on paths, and     *)
(* nothing else is one.                                                     *)
LEMMA PlacesClosed ==
  ASSUME NEW names \in SUBSET Triples
  PROVE  /\ <<<<>>, rootNode>> \in Places(names)
         /\ \A pn \in Places(names) :
               /\ pn = <<pn[1], pn[2]>> /\ pn[1] \in Seq(Names) /\ pn[2] \in Nodes
               /\ Len(pn[1]) \in 0..MaxDepth
         /\ \A q, n, x, m :
               /\ <<q, n>> \in Places(names) /\ <<n, x, m>> \in names /\ Len(q) < MaxDepth
               => <<Append(q, x), m>> \in Places(names)
  <1> DEFINE P == Places(names)
             Fine(k, pn) == /\ pn = <<pn[1], pn[2]>> /\ pn[1] \in Seq(Names)
                            /\ pn[2] \in Nodes /\ Len(pn[1]) = k
  <1>1. PICK at : /\ P = UNION {at[k] : k \in 0..MaxDepth}
                  /\ at[0] = Top
                  /\ \A k \in 1..MaxDepth : at[k] = Down(at[k - 1], names)
    BY PlacesAre
  <1> DEFINE Bad == {k \in 0..MaxDepth : ~\A pn \in at[k] : Fine(k, pn)}
  <1>2. MaxDepth \in Nat BY DriverAssumption
  <1> HIDE DEF P
  <1>3. ASSUME Bad # {} PROVE FALSE
    <2>1. Bad \in SUBSET Nat OBVIOUS
    <2>2. PICK k \in Bad : \A y \in Bad : k <= y
      <3> HIDE DEF Bad
      <3> QED BY <1>3, <2>1, LeastExists
    <2>3. k \in 0..MaxDepth OBVIOUS
    <2>4. PICK pm \in at[k] : ~Fine(k, pm) OBVIOUS
    <2>5. CASE k = 0
      <3>1. pm = <<<<>>, rootNode>> BY <1>1, <2>4, <2>5 DEF Top
      <3>2. Fine(0, pm) BY <3>1, Sizes
      <3> QED BY <2>4, <2>5, <3>2
    <2>6. CASE k # 0
      <3>1. k \in 1..MaxDepth /\ k - 1 \in 0..MaxDepth /\ ~(k <= k - 1) /\ k \in Nat
        BY <1>2, <2>3, <2>6
      <3>2. \A pn \in at[k - 1] : Fine(k - 1, pn)
        <4>1. k - 1 \notin Bad
          <5> HIDE DEF Bad
          <5> QED BY <2>2, <3>1
        <4> HIDE DEF Fine
        <4> QED BY <3>1, <4>1
      <3>3. pm \in Down(at[k - 1], names) BY <1>1, <2>4, <3>1
      <3>4. PICK pn \in at[k - 1], e \in names :
               e[1] = pn[2] /\ pm = <<Append(pn[1], e[2]), e[3]>>
        BY <3>3, DownIs
      <3>5. e[2] \in Names /\ e[3] \in Nodes BY DEF Triples
      <3>6. pn[1] \in Seq(Names) /\ Len(pn[1]) = k - 1 BY <3>2
      <3>7. Append(pn[1], e[2]) \in Seq(Names) /\ Len(Append(pn[1], e[2])) = k
        BY <3>1, <3>5, <3>6
      <3>8. Fine(k, pm) BY <3>4, <3>5, <3>7
      <3> QED BY <2>4, <3>8
    <2> QED BY <2>5, <2>6
  <1>4. \A k \in 0..MaxDepth : \A pn \in at[k] : Fine(k, pn)
    <2> HIDE DEF Fine
    <2> QED BY <1>3
  <1>5. 0 \in 0..MaxDepth BY <1>2
  <1>6. <<<<>>, rootNode>> \in P BY <1>1, <1>5 DEF Top
  <1>7. \A pn \in P : /\ pn = <<pn[1], pn[2]>> /\ pn[1] \in Seq(Names) /\ pn[2] \in Nodes
                      /\ Len(pn[1]) \in 0..MaxDepth
    BY <1>1, <1>4
  <1>8. ASSUME NEW q, NEW n, NEW x, NEW m,
               <<q, n>> \in P, <<n, x, m>> \in names, Len(q) < MaxDepth
        PROVE  <<Append(q, x), m>> \in P
    <2>1. PICK k \in 0..MaxDepth : <<q, n>> \in at[k] BY <1>1, <1>8
    <2>2. Len(q) = k
      <3>1. Fine(k, <<q, n>>) BY <1>4, <2>1
      <3> QED BY <3>1
    <2>3. k + 1 \in 1..MaxDepth /\ k + 1 \in 0..MaxDepth /\ (k + 1) - 1 = k
      BY <1>2, <1>8, <2>2
    <2>4. <<Append(q, x), m>> \in Down(at[k], names)
      <3> DEFINE pn == <<q, n>>
                 e == <<n, x, m>>
      <3>1. pn[1] = q /\ pn[2] = n /\ e[1] = n /\ e[2] = x /\ e[3] = m OBVIOUS
      <3> HIDE DEF pn, e
      <3>2. pn \in at[k] /\ e \in names BY <1>8, <2>1 DEF pn, e
      <3> QED BY <3>1, <3>2, DownIs
    <2>5. <<Append(q, x), m>> \in at[k + 1] BY <1>1, <2>3, <2>4
    <2> QED BY <1>1, <2>3, <2>5
  <1> QED BY <1>6, <1>7, <1>8 DEF P

LEMMA PlacesLeast ==
  ASSUME NEW names \in SUBSET Triples, NEW S, <<<<>>, rootNode>> \in S,
         \A q \in Seq(Names), n \in Nodes, x \in Names, m \in Nodes :
            /\ <<q, n>> \in Places(names) /\ <<q, n>> \in S
            /\ <<n, x, m>> \in names /\ Len(q) < MaxDepth
            => <<Append(q, x), m>> \in S
  PROVE  Places(names) \subseteq S
  <1> DEFINE P == Places(names)
  <1>1. PICK at : /\ P = UNION {at[k] : k \in 0..MaxDepth}
                  /\ at[0] = Top
                  /\ \A k \in 1..MaxDepth : at[k] = Down(at[k - 1], names)
    BY PlacesAre
  <1>2. MaxDepth \in Nat BY DriverAssumption
  <1>3. \A pn \in P : /\ pn = <<pn[1], pn[2]>> /\ pn[1] \in Seq(Names) /\ pn[2] \in Nodes
                      /\ Len(pn[1]) \in 0..MaxDepth
    BY PlacesClosed
  <1> DEFINE Fine(k) == \A pn \in at[k] : pn \in S /\ Len(pn[1]) = k
             Bad == {k \in 0..MaxDepth : ~Fine(k)}
  <1>4. ASSUME Bad # {} PROVE FALSE
    <2>1. Bad \in SUBSET Nat OBVIOUS
    <2>2. PICK k \in Bad : \A y \in Bad : k <= y
      <3> HIDE DEF Bad
      <3> QED BY <1>4, <2>1, LeastExists
    <2>3. k \in 0..MaxDepth OBVIOUS
    <2>4. PICK pm \in at[k] : ~(pm \in S /\ Len(pm[1]) = k) OBVIOUS
    <2>5. CASE k = 0
      <3>1. pm = <<<<>>, rootNode>> BY <1>1, <2>4, <2>5 DEF Top
      <3>2. pm[1] = <<>> /\ Len(<<>>) = 0 BY <3>1
      <3> QED BY <2>4, <2>5, <3>1, <3>2
    <2>6. CASE k # 0
      <3>1. k \in 1..MaxDepth /\ k - 1 \in 0..MaxDepth /\ ~(k <= k - 1) /\ k \in Nat
        BY <1>2, <2>3, <2>6
      <3>2. Fine(k - 1)
        <4>1. k - 1 \notin Bad
          <5> HIDE DEF Bad
          <5> QED BY <2>2, <3>1
        <4> HIDE DEF Fine
        <4> QED BY <3>1, <4>1
      <3>3. pm \in Down(at[k - 1], names) BY <1>1, <2>4, <3>1
      <3>4. PICK pn \in at[k - 1], e \in names :
               e[1] = pn[2] /\ pm = <<Append(pn[1], e[2]), e[3]>>
        BY <3>3, DownIs
      <3>5. e[2] \in Names /\ e[3] \in Nodes /\ e = <<e[1], e[2], e[3]>> /\ e[1] \in Nodes
        BY DEF Triples
      <3>6. pn \in S /\ Len(pn[1]) = k - 1 BY <3>2
      <3>7. pn \in P BY <1>1, <3>1
      <3>8. pn = <<pn[1], pn[2]>> /\ pn[1] \in Seq(Names) /\ pn[2] \in Nodes BY <1>3, <3>7
      <3>9. Len(pn[1]) < MaxDepth BY <1>2, <3>1, <3>6
      <3> DEFINE q == pn[1]
                 n == pn[2]
      <3>10. <<q, n>> \in P /\ <<q, n>> \in S /\ q \in Seq(Names) /\ n \in Nodes
             /\ Len(q) < MaxDepth /\ <<n, e[2], e[3]>> \in names
        BY <3>4, <3>5, <3>6, <3>7, <3>8, <3>9
      <3>11. pm = <<Append(q, e[2]), e[3]>> /\ Len(q) = k - 1 BY <3>4, <3>6
      <3> HIDE DEF q, n
      <3>12. pm \in S BY <3>5, <3>10, <3>11
      <3>13. pm[1] = Append(q, e[2]) BY <3>11
      <3>14. Len(Append(q, e[2])) = k BY <3>1, <3>5, <3>10, <3>11
      <3> QED BY <2>4, <3>12, <3>13, <3>14
    <2> QED BY <2>5, <2>6
  <1>5. \A k \in 0..MaxDepth : Fine(k)
    <2> HIDE DEF Fine
    <2> QED BY <1>4
  <1> HIDE DEF P
  <1>6. P \subseteq S BY <1>1, <1>5
  <1> QED BY <1>6 DEF P
-----------------------------------------------------------------------------
(* Paths, one name longer.                                                  *)

LEMMA OneLonger ==
  ASSUME NEW q \in Seq(Names), NEW x \in Names
  PROVE  /\ Append(q, x) \in Seq(Names) /\ Len(Append(q, x)) = Len(q) + 1
         /\ Append(q, x) # <<>> /\ Append(q, x) # q /\ Len(q) \in Nat
         /\ \A i \in 0..Len(q) : SubSeq(Append(q, x), 1, i) = SubSeq(q, 1, i)
  <1> DEFINE p == Append(q, x)
  <1>1. /\ p \in Seq(Names) /\ p # <<>> /\ Len(p) = Len(q) + 1 /\ Len(q) \in Nat
        /\ \A i \in 1..Len(q) : p[i] = q[i] /\ p[i] \in Names /\ q[i] \in Names
    BY AppendProperties
  <1> HIDE DEF p
  <1>2. ASSUME NEW i \in 0..Len(q) PROVE SubSeq(p, 1, i) = SubSeq(q, 1, i)
    <2>1. i \in Int /\ \A k \in 1..i : k \in 1..Len(q) BY <1>1
    <2> DEFINE a == SubSeq(p, 1, i)
               b == SubSeq(q, 1, i)
    <2>2. a \in Seq(Names) /\ b \in Seq(Names)
          /\ Len(a) = (IF 1 <= i THEN i - 1 + 1 ELSE 0)
          /\ Len(b) = (IF 1 <= i THEN i - 1 + 1 ELSE 0)
          /\ \A k \in 1..(i - 1 + 1) : a[k] = p[1 + k - 1] /\ b[k] = q[1 + k - 1]
      BY <1>1, <2>1, SubSeqProperties
    <2> HIDE DEF a, b
    <2>3. Len(a) = i /\ Len(b) = i /\ \A k \in 1..i : a[k] = b[k] BY <1>1, <2>1, <2>2
    <2>4. a = b BY <2>2, <2>3
    <2> QED BY <2>4 DEF a, b
  <1>3. p # q BY <1>1
  <1> QED BY <1>1, <1>2, <1>3 DEF p

LEMMA AncestorsOfLonger ==
  ASSUME NEW q \in Seq(Names), NEW x \in Names
  PROVE  Directories!Ancestors(Append(q, x)) = Directories!Ancestors(q) \cup {q}
  <1> DEFINE p == Append(q, x)
             n == Len(q)
  <1>1. n \in Nat /\ Len(p) - 1 = n /\ \A i \in 0..n : SubSeq(p, 1, i) = SubSeq(q, 1, i)
    BY OneLonger
  <1>2. SubSeq(q, 1, n) = q BY SubSeqFull
  <1> HIDE DEF p
  <1>3. Directories!Ancestors(p) = {SubSeq(q, 1, i) : i \in 0..n}
    BY <1>1 DEF Directories!Ancestors
  <1>4. Directories!Ancestors(q) = {SubSeq(q, 1, i) : i \in 0..(n - 1)}
    BY DEF Directories!Ancestors
  <1> HIDE DEF n
  <1>5. 0..n = 0..(n - 1) \cup {n} BY <1>1
  <1> QED BY <1>2, <1>3, <1>4, <1>5 DEF p

LEMMA NoAncestors == Directories!Ancestors(<<>>) = {}
  <1>1. 0..(Len(<<>>) - 1) = {} OBVIOUS
  <1> QED BY <1>1 DEF Directories!Ancestors

LEMMA PrefixOfLonger ==
  ASSUME NEW p \in Seq(Names), NEW q \in Seq(Names), NEW x \in Names
  PROVE  IsPrefix(p, Append(q, x)) <=> p = Append(q, x) \/ IsPrefix(p, q)
  <1> DEFINE r == Append(q, x)
  <1>1. /\ r \in Seq(Names) /\ Len(r) = Len(q) + 1 /\ Len(q) \in Nat /\ Len(p) \in Nat
        /\ \A i \in 0..Len(q) : SubSeq(r, 1, i) = SubSeq(q, 1, i)
    BY OneLonger
  <1> HIDE DEF r
  <1>2. SubSeq(p, 1, Len(p)) = p /\ SubSeq(r, 1, Len(r)) = r BY <1>1, SubSeqFull
  <1>3. IsPrefix(p, r) <=> Len(p) <= Len(r) /\ p = SubSeq(r, 1, Len(p)) BY <1>2 DEF IsPrefix
  <1>4. IsPrefix(p, q) <=> Len(p) <= Len(q) /\ p = SubSeq(q, 1, Len(p)) BY <1>2 DEF IsPrefix
  <1>5. CASE Len(p) <= Len(q)
    <2>1. Len(p) \in 0..Len(q) BY <1>1, <1>5
    <2>2. p # r BY <1>1, <1>5
    <2> QED BY <1>1, <1>3, <1>4, <1>5, <2>1, <2>2 DEF r
  <1>6. CASE Len(p) = Len(r)
    <2>1. IsPrefix(p, r) <=> p = r BY <1>1, <1>2, <1>3, <1>6
    <2>2. ~IsPrefix(p, q) BY <1>1, <1>4, <1>6
    <2> QED BY <2>1, <2>2 DEF r
  <1>7. CASE Len(p) > Len(r)
    <2>1. ~IsPrefix(p, r) /\ ~IsPrefix(p, q) /\ p # r BY <1>1, <1>3, <1>4, <1>7
    <2> QED BY <2>1 DEF r
  <1> QED BY <1>1, <1>5, <1>6, <1>7

LEMMA PrefixOfNothing ==
  ASSUME NEW p \in Seq(Names)
  PROVE  /\ IsPrefix(p, <<>>) <=> p = <<>>
         /\ IsPrefix(p, p)
  <1>1. Len(p) \in Nat /\ Len(<<>>) = 0 /\ (Len(p) = 0 => p = <<>>) OBVIOUS
  <1>2. IsPrefix(p, <<>>) => p = <<>> BY <1>1 DEF IsPrefix
  <1>3. IsPrefix(p, p) BY <1>1 DEF IsPrefix
  <1>4. IsPrefix(<<>>, <<>>) BY <1>1 DEF IsPrefix
  <1> QED BY <1>2, <1>3, <1>4
-----------------------------------------------------------------------------
(* In a directory no two entries have one name, and no inode has two        *)
(* entries: a path leads to one inode, and one path leads to an inode.      *)

WellNamed(names, dirs) ==
    /\ names \in SUBSET Triples /\ rootNode \in dirs
    /\ \A n, x, m : <<n, x, m>> \in names => n \in dirs /\ m # rootNode
    /\ \A n, x, m, k, y : <<n, x, m>> \in names /\ <<k, y, m>> \in names => n = k /\ x = y
    /\ \A n, x, m, k : <<n, x, m>> \in names /\ <<n, x, k>> \in names => m = k

LEMMA LastStep ==
  ASSUME NEW names \in SUBSET Triples
  PROVE  \A p, m : <<p, m>> \in Places(names) =>
            \/ p = <<>> /\ m = rootNode
            \/ \E q \in Seq(Names), n \in Nodes, x \in Names :
                  /\ <<q, n>> \in Places(names) /\ <<n, x, m>> \in names
                  /\ Len(q) < MaxDepth /\ p = Append(q, x)
  <1> DEFINE P == Places(names)
             Good(p, m) == \/ p = <<>> /\ m = rootNode
                           \/ \E q \in Seq(Names), n \in Nodes, x \in Names :
                                 /\ <<q, n>> \in P /\ <<n, x, m>> \in names
                                 /\ Len(q) < MaxDepth /\ p = Append(q, x)
             S == {pm \in P : Good(pm[1], pm[2])}
  <1>1. <<<<>>, rootNode>> \in S
    <2>1. <<<<>>, rootNode>> \in P BY PlacesClosed
    <2> QED BY <2>1
  <1>2. ASSUME NEW q \in Seq(Names), NEW n \in Nodes, NEW x \in Names, NEW m \in Nodes,
               <<q, n>> \in P, <<n, x, m>> \in names, Len(q) < MaxDepth
        PROVE  <<Append(q, x), m>> \in S
    <2>1. <<Append(q, x), m>> \in P BY <1>2, PlacesClosed
    <2>2. Good(Append(q, x), m) BY <1>2
    <2> HIDE DEF P, Good
    <2> QED BY <2>1, <2>2
  <1>3. P \subseteq S
    <2> HIDE DEF S
    <2> QED BY <1>1, <1>2, PlacesLeast
  <1>4. ASSUME NEW p, NEW m, <<p, m>> \in P PROVE Good(p, m)
    <2>1. <<p, m>> \in S BY <1>3, <1>4
    <2> HIDE DEF P, Good
    <2> QED BY <2>1
  <1> QED BY <1>4

LEMMA OnePath ==
  ASSUME NEW names, NEW dirs, WellNamed(names, dirs)
  PROVE  \A p, q, n : <<p, n>> \in Places(names) /\ <<q, n>> \in Places(names) => p = q
  <1> DEFINE P == Places(names)
             S == {pn \in P : \A r : <<r, pn[2]>> \in P => r = pn[1]}
  <1>1. names \in SUBSET Triples BY DEF WellNamed
  <1>2. \A p, m : <<p, m>> \in P =>
            \/ p = <<>> /\ m = rootNode
            \/ \E q \in Seq(Names), n \in Nodes, x \in Names :
                  /\ <<q, n>> \in P /\ <<n, x, m>> \in names
                  /\ Len(q) < MaxDepth /\ p = Append(q, x)
    BY <1>1, LastStep
  <1>3. <<<<>>, rootNode>> \in P
        /\ \A q, n, x, m : /\ <<q, n>> \in P /\ <<n, x, m>> \in names /\ Len(q) < MaxDepth
                           => <<Append(q, x), m>> \in P
    BY <1>1, PlacesClosed
  <1>4. \A p, n : <<p, n>> \in S <=> <<p, n>> \in P /\ \A r : <<r, n>> \in P => r = p
    OBVIOUS
  <1>5. P \subseteq S
    <2> HIDE DEF P, S
    <2>1. <<<<>>, rootNode>> \in S
      <3>1. ASSUME NEW r, <<r, rootNode>> \in P PROVE r = <<>>
        <4>1. ~\E q \in Seq(Names), n \in Nodes, x \in Names :
                  /\ <<q, n>> \in P /\ <<n, x, rootNode>> \in names
                  /\ Len(q) < MaxDepth /\ r = Append(q, x)
          BY DEF WellNamed
        <4> QED BY <1>2, <3>1, <4>1
      <3> QED BY <1>3, <1>4, <3>1
    <2>2. ASSUME NEW q \in Seq(Names), NEW n \in Nodes, NEW x \in Names, NEW m \in Nodes,
                 <<q, n>> \in P, <<q, n>> \in S, <<n, x, m>> \in names, Len(q) < MaxDepth
          PROVE  <<Append(q, x), m>> \in S
      <3>1. <<Append(q, x), m>> \in P BY <1>3, <2>2
      <3>2. ASSUME NEW r, <<r, m>> \in P PROVE r = Append(q, x)
        <4>1. m # rootNode BY <2>2 DEF WellNamed
        <4>2. \E q2 \in Seq(Names), k \in Nodes, y \in Names :
                 /\ <<q2, k>> \in P /\ <<k, y, m>> \in names
                 /\ Len(q2) < MaxDepth /\ r = Append(q2, y)
          BY <1>2, <3>2, <4>1
        <4>3. PICK q2 \in Seq(Names), k \in Nodes, y \in Names :
                 <<q2, k>> \in P /\ <<k, y, m>> \in names /\ r = Append(q2, y)
          BY <4>2
        <4>4. k = n /\ y = x BY <2>2, <4>3 DEF WellNamed
        <4>5. q2 = q BY <1>4, <2>2, <4>3, <4>4
        <4> QED BY <4>3, <4>4, <4>5
      <3> QED BY <1>4, <3>1, <3>2
    <2>3. Places(names) \subseteq S BY <1>1, <2>1, <2>2, PlacesLeast DEF P
    <2> QED BY <2>3 DEF P
  <1> HIDE DEF S
  <1> QED BY <1>4, <1>5

LEMMA OneNode ==
  ASSUME NEW names, NEW dirs, WellNamed(names, dirs)
  PROVE  \A p, n, m : <<p, n>> \in Places(names) /\ <<p, m>> \in Places(names) => n = m
  <1> DEFINE P == Places(names)
             S == {pn \in P : \A k : <<pn[1], k>> \in P => k = pn[2]}
  <1>1. names \in SUBSET Triples BY DEF WellNamed
  <1>2. \A p, m : <<p, m>> \in P =>
            \/ p = <<>> /\ m = rootNode
            \/ \E q \in Seq(Names), n \in Nodes, x \in Names :
                  /\ <<q, n>> \in P /\ <<n, x, m>> \in names
                  /\ Len(q) < MaxDepth /\ p = Append(q, x)
    BY <1>1, LastStep
  <1>3. <<<<>>, rootNode>> \in P
        /\ \A q, n, x, m : /\ <<q, n>> \in P /\ <<n, x, m>> \in names /\ Len(q) < MaxDepth
                           => <<Append(q, x), m>> \in P
    BY <1>1, PlacesClosed
  <1>4. \A p, n : <<p, n>> \in S <=> <<p, n>> \in P /\ \A k : <<p, k>> \in P => k = n
    OBVIOUS
  <1>5. P \subseteq S
    <2> HIDE DEF P, S
    <2>1. <<<<>>, rootNode>> \in S
      <3>1. ASSUME NEW k, <<<<>>, k>> \in P PROVE k = rootNode
        <4>1. \A q \in Seq(Names), x \in Names : Append(q, x) # <<>> BY OneLonger
        <4>2. ~\E q \in Seq(Names), n \in Nodes, x \in Names :
                  /\ <<q, n>> \in P /\ <<n, x, k>> \in names
                  /\ Len(q) < MaxDepth /\ <<>> = Append(q, x)
          BY <4>1
        <4> QED BY <1>2, <3>1, <4>2
      <3> QED BY <1>3, <1>4, <3>1
    <2>2. ASSUME NEW q \in Seq(Names), NEW n \in Nodes, NEW x \in Names, NEW m \in Nodes,
                 <<q, n>> \in P, <<q, n>> \in S, <<n, x, m>> \in names, Len(q) < MaxDepth
          PROVE  <<Append(q, x), m>> \in S
      <3>1. <<Append(q, x), m>> \in P BY <1>3, <2>2
      <3>2. ASSUME NEW k, <<Append(q, x), k>> \in P PROVE k = m
        <4>1. Append(q, x) # <<>> BY OneLonger
        <4>2. \E q2 \in Seq(Names), n2 \in Nodes, y \in Names :
                 /\ <<q2, n2>> \in P /\ <<n2, y, k>> \in names
                 /\ Len(q2) < MaxDepth /\ Append(q, x) = Append(q2, y)
          BY <1>2, <3>2, <4>1
        <4>3. PICK q2 \in Seq(Names), n2 \in Nodes, y \in Names :
                 /\ <<q2, n2>> \in P /\ <<n2, y, k>> \in names /\ Append(q, x) = Append(q2, y)
          BY <4>2
        <4>4. q2 = q /\ y = x BY <4>3, AppendInjective
        <4>5. n2 = n BY <1>4, <2>2, <4>3, <4>4
        <4> QED BY <2>2, <4>3, <4>4, <4>5 DEF WellNamed
      <3> QED BY <1>4, <3>1, <3>2
    <2>3. Places(names) \subseteq S BY <1>1, <2>1, <2>2, PlacesLeast DEF P
    <2> QED BY <2>3 DEF P
  <1> HIDE DEF S
  <1> QED BY <1>4, <1>5

\* t is what lies at the places, and what is on the way to one is a directory.
IsTreeAt(t, places, dirs) ==
    /\ DOMAIN t \subseteq Seq(Names)
    /\ t = [p \in DOMAIN t |-> t[p]]
    /\ \A p : p \in DOMAIN t <=> \E n : <<p, n>> \in places
    /\ \A p, n : <<p, n>> \in places => t[p] = IF n \in dirs THEN "dir" ELSE "file"
    /\ \A p \in DOMAIN t : \A a \in Directories!Ancestors(p) : Directories!IsDir(t, a)

LEMMA TreeIs ==
  ASSUME NEW names, NEW dirs, WellNamed(names, dirs)
  PROVE  IsTreeAt(TreeOf(names, dirs), Places(names), dirs)
  <1> DEFINE t == TreeOf(names, dirs)
             P == Places(names)
  <1>1. names \in SUBSET Triples BY DEF WellNamed
  <1>2. \A pn \in P : pn = <<pn[1], pn[2]>> /\ pn[1] \in Seq(Names) /\ pn[2] \in Nodes
    BY <1>1, PlacesClosed
  <1>3. t = [p \in {pn[1] : pn \in P} |->
               IF \E n \in dirs : <<p, n>> \in P THEN "dir" ELSE "file"]
    BY DEF TreeOf
  <1>4. \A p, n, m : <<p, n>> \in P /\ <<p, m>> \in P => n = m BY OneNode
  <1>5. /\ <<<<>>, rootNode>> \in P
        /\ \A q, n, x, m : /\ <<q, n>> \in P /\ <<n, x, m>> \in names /\ Len(q) < MaxDepth
                           => <<Append(q, x), m>> \in P
    BY <1>1, PlacesClosed
  <1> HIDE DEF t, P
  <1>6. \A p : p \in DOMAIN t <=> \E n : <<p, n>> \in P
    <2>1. DOMAIN t = {pn[1] : pn \in P} BY <1>3
    <2>2. ASSUME NEW p, NEW n, <<p, n>> \in P PROVE p \in DOMAIN t
      <3>1. <<p, n>>[1] = p OBVIOUS
      <3> QED BY <2>1, <2>2, <3>1
    <2>3. ASSUME NEW p \in DOMAIN t PROVE \E n : <<p, n>> \in P
      <3>1. PICK pn \in P : p = pn[1] BY <2>1
      <3>2. pn = <<p, pn[2]>> BY <1>2, <3>1
      <3> QED BY <3>2
    <2> QED BY <2>2, <2>3
  <1>7. DOMAIN t \subseteq Seq(Names) BY <1>2, <1>3
  <1>8. \A p, n : <<p, n>> \in P => t[p] = IF n \in dirs THEN "dir" ELSE "file"
    <2> SUFFICES ASSUME NEW p, NEW n, <<p, n>> \in P
                 PROVE  t[p] = IF n \in dirs THEN "dir" ELSE "file"
      OBVIOUS
    <2>1. p \in DOMAIN t BY <1>6
    <2>2. t[p] = IF \E m \in dirs : <<p, m>> \in P THEN "dir" ELSE "file" BY <1>3, <2>1
    <2>3. (\E m \in dirs : <<p, m>> \in P) <=> n \in dirs BY <1>4
    <2> QED BY <2>2, <2>3
  <1> DEFINE Good(p) == \A a \in Directories!Ancestors(p) : Directories!IsDir(t, a)
             S == {pn \in P : Good(pn[1])}
  <1>9. P \subseteq S
    <2>1. \A p, n : <<p, n>> \in S <=> <<p, n>> \in P /\ Good(p) OBVIOUS
    <2>2. <<<<>>, rootNode>> \in S
      <3>1. Good(<<>>) BY NoAncestors
      <3> HIDE DEF Good, S
      <3> QED BY <1>5, <2>1, <3>1
    <2>3. ASSUME NEW q \in Seq(Names), NEW n \in Nodes, NEW x \in Names, NEW m \in Nodes,
                 <<q, n>> \in P, <<q, n>> \in S, <<n, x, m>> \in names, Len(q) < MaxDepth
          PROVE  <<Append(q, x), m>> \in S
      <3>1. <<Append(q, x), m>> \in P BY <1>5, <2>3
      <3>2. n \in dirs BY <2>3 DEF WellNamed
      <3>3. Directories!IsDir(t, q)
        BY <1>6, <1>8, <2>3, <3>2 DEF Directories!IsDir, Directories!Exists
      <3>4. Good(q)
        <4> HIDE DEF Good, S
        <4> QED BY <2>1, <2>3
      <3>5. Good(Append(q, x)) BY <3>3, <3>4, AncestorsOfLonger
      <3> HIDE DEF Good, S
      <3> QED BY <2>1, <3>1, <3>5
    <2> HIDE DEF S
    <2> QED BY <1>1, <2>2, <2>3, PlacesLeast DEF P
  <1>10. \A p \in DOMAIN t : Good(p)
    <2> SUFFICES ASSUME NEW p \in DOMAIN t PROVE Good(p) OBVIOUS
    <2>1. PICK n : <<p, n>> \in P BY <1>6
    <2>2. <<p, n>> \in S BY <1>9, <2>1
    <2> HIDE DEF Good
    <2> QED BY <2>2
  <1>11. t = [p \in DOMAIN t |-> t[p]] BY <1>3
  <1> QED BY <1>6, <1>7, <1>8, <1>10, <1>11 DEF t, P, IsTreeAt
-----------------------------------------------------------------------------
(* What becomes of the tree when the names change.                          *)

LEMMA SameKinds ==
  ASSUME NEW names, NEW dirs, NEW dirs2,
         \A p, n : <<p, n>> \in Places(names) => (n \in dirs2 <=> n \in dirs)
  PROVE  TreeOf(names, dirs2) = TreeOf(names, dirs)
  <1> DEFINE P == Places(names)
  <1>1. \A p : (\E n \in dirs2 : <<p, n>> \in P) <=> (\E n \in dirs : <<p, n>> \in P) OBVIOUS
  <1> HIDE DEF P
  <1>2. [p \in {pn[1] : pn \in P} |-> IF \E n \in dirs2 : <<p, n>> \in P THEN "dir" ELSE "file"]
      = [p \in {pn[1] : pn \in P} |-> IF \E n \in dirs : <<p, n>> \in P THEN "dir" ELSE "file"]
    BY <1>1
  <1> QED BY <1>2 DEF P, TreeOf

\* One call of the driver has created path, with the directories on the way.
Grown(t, u, path) ==
    /\ path \in DOMAIN u /\ Directories!Creatable(t, path)
    /\ u = Directories!Created(t, path, u[path])

LEMMA GrownTwice ==
  ASSUME NEW t, NEW u, NEW v, NEW p \in Seq(Names), NEW x \in Names,
         Grown(t, u, p), Grown(u, v, Append(p, x))
  PROVE  Grown(t, v, Append(p, x))
  <1> DEFINE r == Append(p, x)
             A == Directories!Ancestors(p)
  <1>1. Directories!Ancestors(r) = A \cup {p} BY AncestorsOfLonger
  <1> HIDE DEF r, A
  <1>2. /\ p \in DOMAIN u /\ p \notin DOMAIN t
        /\ \A a \in A : a \in DOMAIN t => t[a] = "dir"
        /\ u = [q \in DOMAIN t \cup {p} \cup A |->
                  IF q \in DOMAIN t THEN t[q] ELSE IF q = p THEN u[p] ELSE "dir"]
    BY DEF Grown, Directories!Creatable, Directories!Created, Directories!Exists,
           Directories!IsDir, A
  <1>3. /\ r \in DOMAIN v /\ r \notin DOMAIN u
        /\ \A a \in A \cup {p} : a \in DOMAIN u => u[a] = "dir"
        /\ v = [q \in DOMAIN u \cup {r} \cup (A \cup {p}) |->
                  IF q \in DOMAIN u THEN u[q] ELSE IF q = r THEN v[r] ELSE "dir"]
    BY <1>1 DEF Grown, Directories!Creatable, Directories!Created, Directories!Exists,
                Directories!IsDir, r
  <1>4. DOMAIN u = DOMAIN t \cup {p} \cup A BY <1>2
  <1>5. \A q \in DOMAIN u : u[q] = IF q \in DOMAIN t THEN t[q] ELSE "dir" BY <1>2, <1>3
  <1>6. DOMAIN u \cup {r} \cup (A \cup {p}) = DOMAIN t \cup {r} \cup (A \cup {p}) BY <1>4
  <1>7. \A q \in DOMAIN t \cup {r} \cup (A \cup {p}) :
           (IF q \in DOMAIN u THEN u[q] ELSE IF q = r THEN v[r] ELSE "dir")
             = IF q \in DOMAIN t THEN t[q] ELSE IF q = r THEN v[r] ELSE "dir"
    BY <1>3, <1>4, <1>5
  <1>8. v = [q \in DOMAIN t \cup {r} \cup (A \cup {p}) |->
               IF q \in DOMAIN t THEN t[q] ELSE IF q = r THEN v[r] ELSE "dir"]
    BY <1>3, <1>6, <1>7
  <1>9. r \notin DOMAIN t /\ \A a \in A \cup {p} : a \in DOMAIN t => t[a] = "dir"
    BY <1>2, <1>3, <1>4
  <1>10. Directories!Creatable(t, r)
    BY <1>1, <1>9 DEF Directories!Creatable, Directories!Exists, Directories!IsDir
  <1>11. v = Directories!Created(t, r, v[r])
    BY <1>1, <1>8 DEF Directories!Created, Directories!Exists
  <1> QED BY <1>3, <1>10, <1>11 DEF Grown, r

OnePlaceMore(P, Q, dir, name, new) ==
    /\ P \subseteq Q
    /\ \A p : <<p, new>> \notin P
    /\ \A p, n : <<p, n>> \in Q =>
          \/ <<p, n>> \in P
          \/ /\ n = new
             /\ \E q \in Seq(Names) : /\ <<q, dir>> \in P
                                      /\ Len(q) < MaxDepth /\ p = Append(q, name)

(* A name more, for an inode that was neither named nor a directory.        *)
LEMMA PlacesGrow ==
  ASSUME NEW names, NEW dirs, WellNamed(names, dirs),
         NEW more, NEW dirs2, WellNamed(more, dirs2),
         NEW dir \in Nodes, NEW name \in Names, NEW new \in Nodes, new # dir,
         \A e : e \in more <=> e \in names \/ e = <<dir, name, new>>,
         \A n, x, m : <<n, x, m>> \in names => n # new /\ m # new
  PROVE  OnePlaceMore(Places(names), Places(more), dir, name, new)
  <1> DEFINE P == Places(names)
             Q == Places(more)
             Is(p, n) == \/ <<p, n>> \in P
                         \/ /\ n = new
                            /\ \E q \in Seq(Names) : /\ <<q, dir>> \in P
                                                     /\ Len(q) < MaxDepth /\ p = Append(q, name)
             S == {pn \in Q : Is(pn[1], pn[2])}
  <1>1. names \in SUBSET Triples /\ more \in SUBSET Triples BY DEF WellNamed
  <1>2. /\ <<<<>>, rootNode>> \in P
        /\ \A q, n, x, m : /\ <<q, n>> \in P /\ <<n, x, m>> \in names /\ Len(q) < MaxDepth
                           => <<Append(q, x), m>> \in P
    BY <1>1, PlacesClosed
  <1>3. /\ <<<<>>, rootNode>> \in Q
        /\ \A q, n, x, m : /\ <<q, n>> \in Q /\ <<n, x, m>> \in more /\ Len(q) < MaxDepth
                           => <<Append(q, x), m>> \in Q
    BY <1>1, PlacesClosed
  <1>4. P \subseteq Q
    <2>1. names \subseteq more OBVIOUS
    <2> HIDE DEF Q
    <2> QED BY <1>1, <1>3, <2>1, PlacesLeast
  <1>5. new # rootNode BY DEF WellNamed
  <1>6. ASSUME NEW p, <<p, new>> \in P PROVE FALSE
    <2>1. \E q \in Seq(Names), n \in Nodes, x \in Names :
             /\ <<q, n>> \in P /\ <<n, x, new>> \in names
             /\ Len(q) < MaxDepth /\ p = Append(q, x)
      BY <1>1, <1>5, <1>6, LastStep
    <2> QED BY <2>1
  <1>7. \A p, n : <<p, n>> \in S <=> <<p, n>> \in Q /\ Is(p, n) OBVIOUS
  <1>8. Q \subseteq S
    <2> HIDE DEF S, P, Q
    <2>1. <<<<>>, rootNode>> \in S BY <1>2, <1>3, <1>7
    <2>2. ASSUME NEW q \in Seq(Names), NEW n \in Nodes, NEW x \in Names, NEW m \in Nodes,
                 <<q, n>> \in Q, <<q, n>> \in S, <<n, x, m>> \in more, Len(q) < MaxDepth
          PROVE  <<Append(q, x), m>> \in S
      <3>1. <<Append(q, x), m>> \in Q BY <1>3, <2>2
      <3>2. CASE <<n, x, m>> \in names
        <4>1. n # new BY <3>2
        <4>2. <<q, n>> \in P BY <1>7, <2>2, <4>1
        <4>3. <<Append(q, x), m>> \in P BY <1>2, <2>2, <3>2, <4>2
        <4> QED BY <1>7, <3>1, <4>3
      <3>3. CASE <<n, x, m>> = <<dir, name, new>>
        <4>1. n = dir /\ x = name /\ m = new BY <3>3
        <4>2. <<q, n>> \in P BY <1>7, <2>2, <4>1
        <4>3. Is(Append(q, x), m) BY <2>2, <4>1, <4>2
        <4> HIDE DEF Is
        <4> QED BY <1>7, <3>1, <4>3
      <3> QED BY <2>2, <3>2, <3>3
    <2> HIDE DEF Is
    <2>3. Places(more) \subseteq S BY <1>1, <2>1, <2>2, PlacesLeast DEF Q
    <2> QED BY <2>3 DEF Q
  <1>9. \A p, n : <<p, n>> \in Q => Is(p, n)
    <2> HIDE DEF S, P, Q, Is
    <2> QED BY <1>7, <1>8
  <1> QED BY <1>4, <1>6, <1>9 DEF OnePlaceMore

LEMMA TreeGrows ==
  ASSUME NEW names, NEW dirs, WellNamed(names, dirs),
         NEW more, NEW dirs2, WellNamed(more, dirs2),
         NEW dir \in Nodes, NEW name \in Names, NEW new \in Nodes, new # dir,
         \A e : e \in more <=> e \in names \/ e = <<dir, name, new>>,
         \A n, x, m : <<n, x, m>> \in names => n # new /\ m # new,
         \A n : n # new => (n \in dirs2 <=> n \in dirs)
  PROVE  /\ \A q : <<q, dir>> \in Places(names) /\ Len(q) < MaxDepth =>
               /\ <<Append(q, name), new>> \in Places(more)
               /\ Grown(TreeOf(names, dirs), TreeOf(more, dirs2), Append(q, name))
         /\ (\A q : <<q, dir>> \in Places(names) => ~(Len(q) < MaxDepth)) =>
               /\ Places(more) = Places(names)
               /\ TreeOf(more, dirs2) = TreeOf(names, dirs)
  <1> DEFINE P == Places(names)
             Q == Places(more)
             t == TreeOf(names, dirs)
             u == TreeOf(more, dirs2)
  <1>1. /\ P \subseteq Q
        /\ \A p : <<p, new>> \notin P
        /\ \A p, n : <<p, n>> \in Q =>
              \/ <<p, n>> \in P
              \/ /\ n = new
                 /\ \E q \in Seq(Names) : /\ <<q, dir>> \in P
                                          /\ Len(q) < MaxDepth /\ p = Append(q, name)
    <2> HIDE DEF P, Q
    <2>1. OnePlaceMore(P, Q, dir, name, new) BY PlacesGrow DEF P, Q
    <2> QED BY <2>1 DEF OnePlaceMore
  <1>2. names \in SUBSET Triples /\ more \in SUBSET Triples BY DEF WellNamed
  <1>3. /\ \A pn \in P : pn = <<pn[1], pn[2]>> /\ pn[1] \in Seq(Names)
        /\ \A pn \in Q : pn = <<pn[1], pn[2]>>
        /\ \A q, n, x, m : /\ <<q, n>> \in Q /\ <<n, x, m>> \in more /\ Len(q) < MaxDepth
                           => <<Append(q, x), m>> \in Q
    BY <1>2, PlacesClosed
  <1>4. /\ DOMAIN t \subseteq Seq(Names)
        /\ t = [p \in DOMAIN t |-> t[p]]
        /\ \A p : p \in DOMAIN t <=> \E n : <<p, n>> \in P
        /\ \A p, n : <<p, n>> \in P => t[p] = IF n \in dirs THEN "dir" ELSE "file"
        /\ \A p \in DOMAIN t : \A a \in Directories!Ancestors(p) : Directories!IsDir(t, a)
    <2> HIDE DEF t, P
    <2>1. IsTreeAt(t, P, dirs) BY TreeIs DEF t, P
    <2> QED BY <2>1 DEF IsTreeAt
  <1>5. /\ u = [p \in DOMAIN u |-> u[p]]
        /\ \A p : p \in DOMAIN u <=> \E n : <<p, n>> \in Q
        /\ \A p, n : <<p, n>> \in Q => u[p] = IF n \in dirs2 THEN "dir" ELSE "file"
    <2> HIDE DEF u, Q
    <2>1. IsTreeAt(u, Q, dirs2) BY TreeIs DEF u, Q
    <2> QED BY <2>1 DEF IsTreeAt
  <1>6. \A p, q, n : <<p, n>> \in P /\ <<q, n>> \in P => p = q BY OnePath
  <1>7. \A p, n, m : <<p, n>> \in Q /\ <<p, m>> \in Q => n = m BY OneNode
  <1>8. dir \in dirs BY DEF WellNamed
  <1>9. TreeOf(names, dirs2) = t BY <1>1, SameKinds
  <1> HIDE DEF P, Q, t, u
  <1>10. ASSUME NEW q, <<q, dir>> \in P, Len(q) < MaxDepth
         PROVE  <<Append(q, name), new>> \in Q /\ Grown(t, u, Append(q, name))
    <2> DEFINE r == Append(q, name)
    <2>1. q \in Seq(Names)
      <3>1. <<q, dir>>[1] = q OBVIOUS
      <3> QED BY <1>3, <1>10, <3>1
    <2>2. <<r, new>> \in Q BY <1>1, <1>3, <1>10
    <2>3. Directories!Ancestors(r) = Directories!Ancestors(q) \cup {q}
      BY <2>1, AncestorsOfLonger
    <2> HIDE DEF r
    <2>4. q \in DOMAIN t /\ t[q] = "dir" BY <1>4, <1>8, <1>10
    <2>5. \A a \in Directories!Ancestors(r) : a \in DOMAIN t /\ t[a] = "dir"
      BY <1>4, <2>3, <2>4 DEF Directories!IsDir, Directories!Exists
    <2>6. r \notin DOMAIN t BY <1>1, <1>4, <1>7, <2>2
    <2>7. DOMAIN u = DOMAIN t \cup {r}
      <3>1. ASSUME NEW p \in DOMAIN u, p # r PROVE p \in DOMAIN t
        <4>1. PICK n : <<p, n>> \in Q BY <1>5
        <4>2. <<p, n>> \in P
          <5> SUFFICES ASSUME <<p, n>> \notin P PROVE FALSE OBVIOUS
          <5>1. PICK s \in Seq(Names) : <<s, dir>> \in P /\ p = Append(s, name)
            BY <1>1, <4>1
          <5>2. s = q BY <1>6, <1>10, <5>1
          <5> QED BY <3>1, <5>1, <5>2 DEF r
        <4> QED BY <1>4, <4>2
      <3>2. ASSUME NEW p \in DOMAIN t PROVE p \in DOMAIN u
        <4>1. PICK n : <<p, n>> \in P BY <1>4
        <4>2. <<p, n>> \in Q BY <1>1, <4>1
        <4> QED BY <1>5, <4>2
      <3>3. r \in DOMAIN u BY <1>5, <2>2
      <3> QED BY <3>1, <3>2, <3>3
    <2>8. \A p \in DOMAIN t : u[p] = t[p]
      <3> SUFFICES ASSUME NEW p \in DOMAIN t PROVE u[p] = t[p] OBVIOUS
      <3>1. PICK n : <<p, n>> \in P BY <1>4
      <3>2. n # new /\ <<p, n>> \in Q BY <1>1, <3>1
      <3> QED BY <1>4, <1>5, <3>1, <3>2
    <2>9. Directories!Creatable(t, r)
      BY <2>5, <2>6 DEF Directories!Creatable, Directories!Exists, Directories!IsDir
    <2>10. u = Directories!Created(t, r, u[r])
      <3>1. DOMAIN t \cup {r} \cup Directories!Ancestors(r) = DOMAIN u BY <2>5, <2>7
      <3>2. Directories!Created(t, r, u[r])
              = [p \in DOMAIN u |-> IF p \in DOMAIN t THEN t[p] ELSE IF p = r THEN u[r] ELSE "dir"]
        BY <3>1 DEF Directories!Created, Directories!Exists
      <3>3. \A p \in DOMAIN u :
               u[p] = IF p \in DOMAIN t THEN t[p] ELSE IF p = r THEN u[r] ELSE "dir"
        BY <2>7, <2>8
      <3> QED BY <1>5, <3>2, <3>3
    <2>11. r \in DOMAIN u BY <2>7
    <2> QED BY <2>2, <2>9, <2>10, <2>11 DEF r, Grown
  <1>11. ASSUME \A q : <<q, dir>> \in P => ~(Len(q) < MaxDepth)
         PROVE  Q = P /\ u = t
    <2>1. \A p, n : <<p, n>> \in Q => <<p, n>> \in P BY <1>1, <1>11
    <2>2. Q = P
      <3>1. ASSUME NEW pn \in Q PROVE pn \in P
        <4>1. pn = <<pn[1], pn[2]>> BY <1>3
        <4>2. <<pn[1], pn[2]>> \in P BY <2>1, <4>1
        <4> QED BY <4>1, <4>2
      <3> QED BY <1>1, <3>1
    <2>3. u = TreeOf(names, dirs2) BY <2>2 DEF TreeOf, P, Q, u
    <2> QED BY <1>9, <2>2, <2>3
  <1> QED BY <1>10, <1>11 DEF P, Q, t, u

\* What is left of a tree.
Pruned(t, u, gone) == u = Restrict(t, DOMAIN t \ gone)

LEMMA TreeShrinks ==
  ASSUME NEW t, NEW P, NEW dirs, IsTreeAt(t, P, dirs),
         NEW u, NEW Q, NEW dirs2, IsTreeAt(u, Q, dirs2), NEW gone,
         \A p, n : <<p, n>> \in Q <=> <<p, n>> \in P /\ p \notin gone,
         \A p, n : <<p, n>> \in Q => (n \in dirs2 <=> n \in dirs)
  PROVE  Pruned(t, u, gone)
  <1>1. DOMAIN u = DOMAIN t \ gone BY DEF IsTreeAt
  <1>2. \A p \in DOMAIN u : u[p] = t[p]
    <2> SUFFICES ASSUME NEW p \in DOMAIN u PROVE u[p] = t[p] OBVIOUS
    <2>1. PICK n : <<p, n>> \in Q BY DEF IsTreeAt
    <2>2. <<p, n>> \in P /\ (n \in dirs2 <=> n \in dirs) BY <2>1
    <2> QED BY <2>1, <2>2 DEF IsTreeAt
  <1>3. u = [p \in DOMAIN u |-> u[p]] BY DEF IsTreeAt
  <1> QED BY <1>1, <1>2, <1>3 DEF Pruned, Restrict

(* A directory without its names: what was below it is reached no more.     *)
LEMMA TreeCleared ==
  ASSUME NEW names, NEW dirs, WellNamed(names, dirs), NEW fewer, WellNamed(fewer, dirs),
         NEW path, NEW n, <<path, n>> \in Places(names),
         \A k, x, m : <<k, x, m>> \in fewer <=> <<k, x, m>> \in names /\ k # n
  PROVE  TreeOf(fewer, dirs) = Directories!Cleared(TreeOf(names, dirs), path)
  <1> DEFINE P == Places(names)
             Q == Places(fewer)
             t == TreeOf(names, dirs)
             u == TreeOf(fewer, dirs)
             gone == {p \in Seq(Names) : IsPrefix(path, p) /\ p # path}
  <1>1. names \in SUBSET Triples /\ fewer \in SUBSET Triples BY DEF WellNamed
  <1>2. /\ <<<<>>, rootNode>> \in P
        /\ \A pk \in P : pk = <<pk[1], pk[2]>> /\ pk[1] \in Seq(Names)
        /\ \A q, k, x, m : /\ <<q, k>> \in P /\ <<k, x, m>> \in names /\ Len(q) < MaxDepth
                           => <<Append(q, x), m>> \in P
    BY <1>1, PlacesClosed
  <1>3. /\ <<<<>>, rootNode>> \in Q
        /\ \A pk \in Q : pk[1] \in Seq(Names)
        /\ \A q, k, x, m : /\ <<q, k>> \in Q /\ <<k, x, m>> \in fewer /\ Len(q) < MaxDepth
                           => <<Append(q, x), m>> \in Q
    BY <1>1, PlacesClosed
  <1>4. \A p, q, k : <<p, k>> \in P /\ <<q, k>> \in P => p = q BY OnePath
  <1>5. \A p, k, m : <<p, k>> \in P /\ <<p, m>> \in P => k = m BY OneNode
  <1>6. IsTreeAt(t, P, dirs) /\ IsTreeAt(u, Q, dirs) BY TreeIs
  <1>7. path \in Seq(Names)
    <2>1. <<path, n>>[1] = path OBVIOUS
    <2> QED BY <1>2, <2>1
  <1> DEFINE S == {pk \in P : pk[1] \notin gone}
  <1>8. Q \subseteq S
    <2>0. \A p, k : <<p, k>> \in S <=> <<p, k>> \in P /\ p \notin gone OBVIOUS
    <2>1. \A p : p \in gone <=> p \in Seq(Names) /\ IsPrefix(path, p) /\ p # path OBVIOUS
    <2>2. <<path, n>> \in P OBVIOUS
    <2> HIDE DEF S, P, Q, gone
    <2>3. <<<<>>, rootNode>> \in S BY <1>2, <1>7, <2>0, <2>1, PrefixOfNothing
    <2>4. ASSUME NEW q \in Seq(Names), NEW k \in Nodes, NEW x \in Names, NEW m \in Nodes,
                 <<q, k>> \in Q, <<q, k>> \in S, <<k, x, m>> \in fewer, Len(q) < MaxDepth
          PROVE  <<Append(q, x), m>> \in S
      <3>1. <<k, x, m>> \in names /\ k # n BY <2>4
      <3>2. <<q, k>> \in P /\ q \notin gone BY <2>0, <2>4
      <3>3. <<Append(q, x), m>> \in P BY <1>2, <2>4, <3>1, <3>2
      <3>4. q # path BY <1>5, <2>2, <3>1, <3>2
      <3>5. Append(q, x) \notin gone BY <1>7, <2>1, <3>2, <3>4, PrefixOfLonger
      <3> QED BY <2>0, <3>3, <3>5
    <2>5. Places(fewer) \subseteq S BY <1>1, <2>3, <2>4, PlacesLeast DEF Q
    <2> QED BY <2>5 DEF Q
  <1> DEFINE R == {pk \in P : pk[1] \in gone \/ pk \in Q}
  <1>9. P \subseteq R
    <2>0. \A p, k : <<p, k>> \in R <=> <<p, k>> \in P /\ (p \in gone \/ <<p, k>> \in Q) OBVIOUS
    <2>1. \A p : p \in gone <=> p \in Seq(Names) /\ IsPrefix(path, p) /\ p # path OBVIOUS
    <2>2. <<path, n>> \in P OBVIOUS
    <2> HIDE DEF R, P, Q, gone
    <2>3. <<<<>>, rootNode>> \in R BY <1>2, <1>3, <2>0
    <2>4. ASSUME NEW q \in Seq(Names), NEW k \in Nodes, NEW x \in Names, NEW m \in Nodes,
                 <<q, k>> \in P, <<q, k>> \in R, <<k, x, m>> \in names, Len(q) < MaxDepth
          PROVE  <<Append(q, x), m>> \in R
      <3>1. <<Append(q, x), m>> \in P BY <1>2, <2>4
      <3>2. CASE IsPrefix(path, q)
        <4>1. /\ Append(q, x) \in Seq(Names) /\ Len(Append(q, x)) = Len(q) + 1
              /\ Len(q) \in Nat /\ Len(path) \in Nat
          BY <1>7, OneLonger
        <4>2. IsPrefix(path, Append(q, x)) BY <1>7, <3>2, PrefixOfLonger
        <4>3. Len(path) <= Len(q) BY <3>2 DEF IsPrefix
        <4>4. Append(q, x) # path BY <4>1, <4>3
        <4> QED BY <2>0, <2>1, <3>1, <4>1, <4>2, <4>4
      <3>3. CASE ~IsPrefix(path, q)
        <4>1. <<q, k>> \in Q BY <2>0, <2>1, <2>4, <3>3
        <4>2. q # path BY <1>7, <3>3, PrefixOfNothing
        <4>3. k # n BY <1>4, <2>2, <2>4, <4>2
        <4>4. <<Append(q, x), m>> \in Q BY <1>3, <2>4, <4>1, <4>3
        <4> QED BY <2>0, <3>1, <4>4
      <3> QED BY <3>2, <3>3
    <2>5. Places(names) \subseteq R BY <1>1, <2>3, <2>4, PlacesLeast DEF P
    <2> QED BY <2>5 DEF P
  <1>10. \A p, k : <<p, k>> \in Q <=> <<p, k>> \in P /\ p \notin gone
    <2>1. \A p, k : <<p, k>> \in S <=> <<p, k>> \in P /\ p \notin gone OBVIOUS
    <2>2. \A p, k : <<p, k>> \in R <=> <<p, k>> \in P /\ (p \in gone \/ <<p, k>> \in Q) OBVIOUS
    <2> HIDE DEF S, R, P, Q, gone
    <2> QED BY <1>8, <1>9, <2>1, <2>2
  <1> HIDE DEF S, R, P, Q, t, u
  <1>11. Pruned(t, u, gone)
    <2> HIDE DEF gone
    <2> QED BY <1>6, <1>10, TreeShrinks
  <1>12. DOMAIN t \ gone = DOMAIN t \ Directories!Below(t, path)
    BY <1>6 DEF Directories!Below, Directories!IsPrefix, IsPrefix, IsTreeAt
  <1>13. u = Directories!Cleared(t, path)
    BY <1>11, <1>12 DEF Pruned, Directories!Cleared, Directories!Restrict, Restrict
  <1> QED BY <1>13 DEF t, u

(* The inodes of D are gone, f among them and what D names, and so is the   *)
(* name of f.                                                               *)
Taken(names, dirs, fewer, dirs2, D, f) ==
    /\ f \in D /\ rootNode \notin D
    /\ \A m \in D : m = f \/ \E k \in D : \E x : <<k, x, m>> \in names
    /\ \A k, x, m : <<k, x, m>> \in fewer <=> <<k, x, m>> \in names /\ k \notin D /\ m # f
    /\ \A k : k \notin D => (k \in dirs2 <=> k \in dirs)

LEMMA TreeDeleted ==
  ASSUME NEW names, NEW dirs, WellNamed(names, dirs),
         NEW fewer, NEW dirs2, WellNamed(fewer, dirs2),
         NEW path, NEW f, <<path, f>> \in Places(names),
         NEW D, Taken(names, dirs, fewer, dirs2, D, f)
  PROVE  TreeOf(fewer, dirs2) = Directories!Deleted(TreeOf(names, dirs), path)
  <1> USE DEF Taken
  <1> DEFINE P == Places(names)
             Q == Places(fewer)
             t == TreeOf(names, dirs)
             u == TreeOf(fewer, dirs2)
             gone == {p \in Seq(Names) : IsPrefix(path, p)}
  <1>1. names \in SUBSET Triples /\ fewer \in SUBSET Triples BY DEF WellNamed
  <1>2. /\ <<<<>>, rootNode>> \in P
        /\ \A pk \in P : pk = <<pk[1], pk[2]>> /\ pk[1] \in Seq(Names)
        /\ \A q, k, x, m : /\ <<q, k>> \in P /\ <<k, x, m>> \in names /\ Len(q) < MaxDepth
                           => <<Append(q, x), m>> \in P
    BY <1>1, PlacesClosed
  <1>3. /\ <<<<>>, rootNode>> \in Q
        /\ \A q, k, x, m : /\ <<q, k>> \in Q /\ <<k, x, m>> \in fewer /\ Len(q) < MaxDepth
                           => <<Append(q, x), m>> \in Q
    BY <1>1, PlacesClosed
  <1>4. \A p, q, k : <<p, k>> \in P /\ <<q, k>> \in P => p = q BY OnePath
  <1>5. \A p, k, m : <<p, k>> \in P /\ <<p, m>> \in P => k = m BY OneNode
  <1>6. IsTreeAt(t, P, dirs) /\ IsTreeAt(u, Q, dirs2) BY TreeIs
  <1>7. path \in Seq(Names)
    <2>1. <<path, f>>[1] = path OBVIOUS
    <2> QED BY <1>2, <2>1
  <1>8. \A p : p \in gone <=> p \in Seq(Names) /\ IsPrefix(path, p) OBVIOUS
  <1>9. <<path, f>> \in P OBVIOUS
  <1>10. \A k, y, m, n, x : <<k, y, m>> \in names /\ <<n, x, m>> \in names => k = n
    BY DEF WellNamed
  <1>11. ASSUME NEW q \in Seq(Names), NEW x \in Names, q \in gone
         PROVE  Append(q, x) \in gone
    <2> HIDE DEF gone
    <2> QED BY <1>7, <1>8, <1>11, OneLonger, PrefixOfLonger
  <1> DEFINE I == {pk \in P : pk[2] \in D => pk[1] \in gone}
  <1>12. P \subseteq I
    <2>1. \A p, k : <<p, k>> \in I <=> <<p, k>> \in P /\ (k \in D => p \in gone) OBVIOUS
    <2> HIDE DEF I, P, gone
    <2>2. <<<<>>, rootNode>> \in I BY <1>2, <2>1
    <2>3. ASSUME NEW q \in Seq(Names), NEW k \in Nodes, NEW x \in Names, NEW m \in Nodes,
                 <<q, k>> \in P, <<q, k>> \in I, <<k, x, m>> \in names, Len(q) < MaxDepth
          PROVE  <<Append(q, x), m>> \in I
      <3>1. <<Append(q, x), m>> \in P BY <1>2, <2>3
      <3>2. CASE m = f
        <4>1. Append(q, x) = path BY <1>4, <1>9, <3>1, <3>2
        <4>2. path \in gone BY <1>7, <1>8, PrefixOfNothing
        <4> QED BY <2>1, <3>1, <4>1, <4>2
      <3>3. CASE m \in D /\ m # f
        <4>1. PICK j \in D : \E y : <<j, y, m>> \in names BY <3>3
        <4>2. k \in D BY <1>10, <2>3, <4>1
        <4>3. q \in gone BY <2>1, <2>3, <4>2
        <4> QED BY <1>11, <2>1, <3>1, <4>3
      <3>4. CASE m \notin D BY <2>1, <3>1, <3>4
      <3> QED BY <3>2, <3>3, <3>4
    <2>4. Places(names) \subseteq I BY <1>1, <2>2, <2>3, PlacesLeast DEF P
    <2> QED BY <2>4 DEF P
  <1>13. \A p, k : <<p, k>> \in P /\ k \in D => p \in gone
    <2>1. \A p, k : <<p, k>> \in I <=> <<p, k>> \in P /\ (k \in D => p \in gone) OBVIOUS
    <2> HIDE DEF I, P, gone
    <2> QED BY <1>12, <2>1
  <1> HIDE DEF I
  <1> DEFINE S == {pk \in P : pk[1] \notin gone}
  <1>14. Q \subseteq S
    <2>1. \A p, k : <<p, k>> \in S <=> <<p, k>> \in P /\ p \notin gone OBVIOUS
    <2> HIDE DEF S, P, Q, gone
    <2>2. <<>> \notin gone
      <3> SUFFICES ASSUME <<>> \in gone PROVE FALSE OBVIOUS
      <3>1. path = <<>> BY <1>7, <1>8, PrefixOfNothing
      <3>2. f = rootNode BY <1>2, <1>5, <1>9, <3>1
      <3> QED BY <3>2
    <2>3. <<<<>>, rootNode>> \in S BY <1>2, <2>1, <2>2
    <2>4. ASSUME NEW q \in Seq(Names), NEW k \in Nodes, NEW x \in Names, NEW m \in Nodes,
                 <<q, k>> \in Q, <<q, k>> \in S, <<k, x, m>> \in fewer, Len(q) < MaxDepth
          PROVE  <<Append(q, x), m>> \in S
      <3>1. <<k, x, m>> \in names /\ k \notin D /\ m # f BY <2>4
      <3>2. <<q, k>> \in P /\ q \notin gone BY <2>1, <2>4
      <3>3. <<Append(q, x), m>> \in P BY <1>2, <2>4, <3>1, <3>2
      <3>4. Append(q, x) # path BY <1>5, <1>9, <3>1, <3>3
      <3>5. Append(q, x) \notin gone BY <1>7, <1>8, <3>2, <3>4, PrefixOfLonger
      <3> QED BY <2>1, <3>3, <3>5
    <2>5. Places(fewer) \subseteq S BY <1>1, <2>3, <2>4, PlacesLeast DEF Q
    <2> QED BY <2>5 DEF Q
  <1> DEFINE R == {pk \in P : pk[1] \in gone \/ pk \in Q}
  <1>15. P \subseteq R
    <2>1. \A p, k : <<p, k>> \in R <=> <<p, k>> \in P /\ (p \in gone \/ <<p, k>> \in Q) OBVIOUS
    <2> HIDE DEF R, P, Q, gone
    <2>2. <<<<>>, rootNode>> \in R BY <1>2, <1>3, <2>1
    <2>3. ASSUME NEW q \in Seq(Names), NEW k \in Nodes, NEW x \in Names, NEW m \in Nodes,
                 <<q, k>> \in P, <<q, k>> \in R, <<k, x, m>> \in names, Len(q) < MaxDepth
          PROVE  <<Append(q, x), m>> \in R
      <3>1. <<Append(q, x), m>> \in P BY <1>2, <2>3
      <3>2. CASE q \in gone BY <1>11, <2>1, <3>1, <3>2
      <3>3. CASE q \notin gone
        <4>1. <<q, k>> \in Q /\ k \notin D BY <1>13, <2>1, <2>3, <3>3
        <4>2. CASE m = f
          <5>1. <<Append(q, x), f>> \in P BY <3>1, <4>2
          <5>2. Append(q, x) \in gone BY <1>13, <5>1
          <5> QED BY <2>1, <3>1, <5>2
        <4>3. CASE m # f
          <5>1. <<k, x, m>> \in fewer BY <2>3, <4>1, <4>3
          <5>2. <<Append(q, x), m>> \in Q BY <1>3, <2>3, <4>1, <5>1
          <5> QED BY <2>1, <3>1, <5>2
        <4> QED BY <4>2, <4>3
      <3> QED BY <3>2, <3>3
    <2>4. Places(names) \subseteq R BY <1>1, <2>2, <2>3, PlacesLeast DEF P
    <2> QED BY <2>4 DEF P
  <1>16. \A p, k : <<p, k>> \in Q <=> <<p, k>> \in P /\ p \notin gone
    <2>1. \A p, k : <<p, k>> \in S <=> <<p, k>> \in P /\ p \notin gone OBVIOUS
    <2>2. \A p, k : <<p, k>> \in R <=> <<p, k>> \in P /\ (p \in gone \/ <<p, k>> \in Q) OBVIOUS
    <2> HIDE DEF S, R, P, Q, gone
    <2> QED BY <1>14, <1>15, <2>1, <2>2
  <1> HIDE DEF S, R, P, Q, t, u
  <1>17. \A p, k : <<p, k>> \in Q => (k \in dirs2 <=> k \in dirs)
    <2> HIDE DEF gone
    <2> QED BY <1>13, <1>16
  <1>18. Pruned(t, u, gone)
    <2> HIDE DEF gone
    <2> QED BY <1>6, <1>16, <1>17, TreeShrinks
  <1>19. DOMAIN t \ gone = DOMAIN t \ (Directories!Below(t, path) \cup {path})
    <2>1. IsPrefix(path, path) BY <1>7, PrefixOfNothing
    <2>2. \A p \in DOMAIN t : p \in Seq(Names) BY <1>6 DEF IsTreeAt
    <2>3. \A p : p \in Directories!Below(t, path) <=>
                    p \in DOMAIN t /\ p # path /\ IsPrefix(path, p)
      BY DEF Directories!Below, Directories!IsPrefix, IsPrefix
    <2> HIDE DEF gone
    <2> QED BY <1>8, <2>1, <2>2, <2>3
  <1>20. u = Directories!Deleted(t, path)
    BY <1>18, <1>19 DEF Pruned, Directories!Deleted, Directories!Restrict, Restrict
  <1> QED BY <1>20 DEF t, u
-----------------------------------------------------------------------------
(* The names on a disk are the entries of its directories.                  *)

Dirs(d) == {n \in Nodes : isDirectory(d, n)}

IsName(d, n, x, m) ==
    /\ n \in Nodes
    /\ \E i \in Positions : /\ IsPlace(d, n, i) /\ Cell(d, n, i) \in Entry
                            /\ Cell(d, n, i).name = x /\ Cell(d, n, i).node = m

NamesAre(d) ==
    /\ NamesOn(d) \in SUBSET Triples
    /\ \A n, x, m : <<n, x, m>> \in NamesOn(d) <=> IsName(d, n, x, m)

LEMMA PlacesHoldEntries ==
  ASSUME NEW d, DiskInv(d), NEW n \in Nodes, NEW i \in Positions, IsPlace(d, n, i)
  PROVE  Cell(d, n, i) \in Entry /\ i \in 0..(d.inodes[n].size - 1)
  <1>1. d \in Disk /\ DirsHold(d) BY DEF DiskInv, Sane
  <1>2. i \in Nat /\ d.inodes[n].size \in Nat BY <1>1, PlaceOf, Sized
  <1>3. i \in 0..(d.inodes[n].size - 1) BY <1>2 DEF IsPlace
  <1> QED BY <1>1, <1>3 DEF IsPlace, DirsHold

LEMMA NamesOnDisk ==
  ASSUME NEW d, DiskInv(d)
  PROVE  NamesAre(d) /\ TreeOn(d) = TreeOf(NamesOn(d), Dirs(d))
  <1>1. d \in Disk BY DEF DiskInv, Sane
  <1>2. \A t : t \in NamesOn(d) <=>
           \E n \in Nodes : /\ isDirectory(d, n)
                            /\ \E i \in 0..(d.inodes[n].size - 1) :
                                  /\ Cell(d, n, i) \in Entry
                                  /\ t = <<n, Cell(d, n, i).name, Cell(d, n, i).node>>
    BY DEF NamesOn
  <1>3. ASSUME NEW n \in Nodes, isDirectory(d, n), NEW i \in 0..(d.inodes[n].size - 1),
               Cell(d, n, i) \in Entry
        PROVE  i \in Positions /\ IsPlace(d, n, i)
    BY <1>1, <1>3, Sized DEF IsPlace
  <1>4. NamesOn(d) \in SUBSET Triples
    <2> SUFFICES ASSUME NEW t \in NamesOn(d) PROVE t \in Triples OBVIOUS
    <2>1. PICK n \in Nodes : /\ isDirectory(d, n)
                             /\ \E i \in 0..(d.inodes[n].size - 1) :
                                   /\ Cell(d, n, i) \in Entry
                                   /\ t = <<n, Cell(d, n, i).name, Cell(d, n, i).node>>
      BY <1>2
    <2>2. \A e \in Entry : e.name \in Names /\ e.node \in Nodes BY DEF Entry
    <2> QED BY <2>1, <2>2 DEF Triples
  <1>5. ASSUME NEW n, NEW x, NEW m
        PROVE  <<n, x, m>> \in NamesOn(d) <=> IsName(d, n, x, m)
    <2>1. ASSUME <<n, x, m>> \in NamesOn(d) PROVE IsName(d, n, x, m)
      <3>1. PICK k \in Nodes :
               /\ isDirectory(d, k)
               /\ \E i \in 0..(d.inodes[k].size - 1) :
                     /\ Cell(d, k, i) \in Entry
                     /\ <<n, x, m>> = <<k, Cell(d, k, i).name, Cell(d, k, i).node>>
        BY <1>2, <2>1
      <3>2. PICK i \in 0..(d.inodes[k].size - 1) :
               /\ Cell(d, k, i) \in Entry
               /\ <<n, x, m>> = <<k, Cell(d, k, i).name, Cell(d, k, i).node>>
        BY <3>1
      <3>3. n = k /\ x = Cell(d, k, i).name /\ m = Cell(d, k, i).node BY <3>2
      <3>4. i \in Positions /\ IsPlace(d, k, i) BY <1>3, <3>1, <3>2
      <3> QED BY <3>2, <3>3, <3>4 DEF IsName
    <2>2. ASSUME IsName(d, n, x, m) PROVE <<n, x, m>> \in NamesOn(d)
      <3>1. PICK i \in Positions : /\ IsPlace(d, n, i) /\ Cell(d, n, i) \in Entry
                                   /\ Cell(d, n, i).name = x /\ Cell(d, n, i).node = m
        BY <2>2 DEF IsName
      <3>2. n \in Nodes /\ isDirectory(d, n) BY <2>2, <3>1 DEF IsName, IsPlace
      <3>3. i \in 0..(d.inodes[n].size - 1) BY <3>1, <3>2, PlacesHoldEntries
      <3> QED BY <1>2, <3>1, <3>2, <3>3
    <2> QED BY <2>1, <2>2
  <1>6. TreeOn(d) = TreeOf(NamesOn(d), Dirs(d)) BY DEF TreeOn, Dirs
  <1> QED BY <1>4, <1>5, <1>6 DEF NamesAre

LEMMA WellNamedDisk ==
  ASSUME NEW d, DiskInv(d)
  PROVE  WellNamed(NamesOn(d), Dirs(d))
  <1>1. NamesAre(d) BY NamesOnDisk
  <1>2. NamesInv(d) BY DEF DiskInv
  <1>3. rootNode \in Dirs(d) BY Sizes DEF DiskInv, Dirs
  <1>4. ASSUME NEW n, NEW x, NEW m, <<n, x, m>> \in NamesOn(d)
        PROVE  n \in Dirs(d) /\ m # rootNode
    <2>1. IsName(d, n, x, m) BY <1>1, <1>4 DEF NamesAre
    <2> QED BY <1>2, <2>1 DEF IsName, IsPlace, NamesInv, Dirs
  <1>5. ASSUME NEW n, NEW x, NEW m, NEW k, NEW y,
               <<n, x, m>> \in NamesOn(d), <<k, y, m>> \in NamesOn(d)
        PROVE  n = k /\ x = y
    <2>1. IsName(d, n, x, m) /\ IsName(d, k, y, m) BY <1>1, <1>5 DEF NamesAre
    <2>2. PICK i \in Positions : IsPlace(d, n, i) /\ Cell(d, n, i).name = x
                                 /\ Cell(d, n, i).node = m
      BY <2>1 DEF IsName
    <2>3. PICK j \in Positions : IsPlace(d, k, j) /\ Cell(d, k, j).name = y
                                 /\ Cell(d, k, j).node = m
      BY <2>1 DEF IsName
    <2>4. n = k /\ i = j BY <1>2, <2>1, <2>2, <2>3 DEF NamesInv, IsName
    <2> QED BY <2>2, <2>3, <2>4
  <1>6. ASSUME NEW n, NEW x, NEW m, NEW k,
               <<n, x, m>> \in NamesOn(d), <<n, x, k>> \in NamesOn(d)
        PROVE  m = k
    <2>1. IsName(d, n, x, m) /\ IsName(d, n, x, k) BY <1>1, <1>6 DEF NamesAre
    <2>2. PICK i \in Positions : IsPlace(d, n, i) /\ Cell(d, n, i).name = x
                                 /\ Cell(d, n, i).node = m
      BY <2>1 DEF IsName
    <2>3. PICK j \in Positions : IsPlace(d, n, j) /\ Cell(d, n, j).name = x
                                 /\ Cell(d, n, j).node = k
      BY <2>1 DEF IsName
    <2>4. i = j BY <1>2, <2>1, <2>2, <2>3 DEF NamesInv, IsName
    <2> QED BY <2>2, <2>3, <2>4
  <1> QED BY <1>1, <1>3, <1>4, <1>5, <1>6 DEF WellNamed, NamesAre

\* What a search finds is a name of the directory.
LEMMA FoundIsName ==
  ASSUME NEW d, DiskInv(d), NEW dir \in Nodes, NEW name \in Names,
         findInDirectory(d, dir, name) \in Nodes
  PROVE  <<dir, name, findInDirectory(d, dir, name)>> \in NamesOn(d)
  <1>1. d \in Disk BY DEF DiskInv, Sane
  <1>2. PICK i \in Positions : /\ IsPlace(d, dir, i)
                               /\ Cell(d, dir, i).node = findInDirectory(d, dir, name)
                               /\ Cell(d, dir, i).name = name
    BY <1>1, FindResult
  <1>3. Cell(d, dir, i) \in Entry BY <1>2, PlacesHoldEntries
  <1>4. IsName(d, dir, name, findInDirectory(d, dir, name)) BY <1>2, <1>3 DEF IsName
  <1> QED BY <1>4, NamesOnDisk DEF NamesAre

(* Where one inode changes, and keeps its kind, the names are those of the  *)
(* other directories.                                                       *)
NamesWithout(d, e, n) ==
    /\ Dirs(e) = Dirs(d)
    /\ \A k, x, m : k # n => (<<k, x, m>> \in NamesOn(e) <=> <<k, x, m>> \in NamesOn(d))
    /\ \A x, m : <<n, x, m>> \notin NamesOn(e)

LEMMA OtherNames ==
  ASSUME NEW d, NEW e, DiskInv(d), DiskInv(e), NEW n \in Nodes, isValidNode(d, n),
         KindsKept(d, e), OthersKept(d, e, n), isDirectory(d, n) => e.inodes[n].size = 0
  PROVE  NamesWithout(d, e, n)
  <1>1. NamesAre(d) /\ NamesAre(e) BY NamesOnDisk
  <1>2. ASSUME NEW k \in Nodes PROVE isDirectory(e, k) <=> isDirectory(d, k)
    <2>1. CASE k = n BY <2>1 DEF KindsKept, isDirectory
    <2>2. CASE k # n BY <2>2 DEF OthersKept, isDirectory, isValidNode
    <2> QED BY <2>1, <2>2
  <1>3. Dirs(e) = Dirs(d) BY <1>2 DEF Dirs
  <1>4. ASSUME NEW k, NEW x, NEW m, k # n
        PROVE  <<k, x, m>> \in NamesOn(e) <=> <<k, x, m>> \in NamesOn(d)
    <2>1. ASSUME k \in Nodes, isValidNode(d, k) PROVE IsName(e, k, x, m) <=> IsName(d, k, x, m)
      <3>1. SameNode(d, e, k) BY <1>4, <2>1 DEF OthersKept
      <3>2. \A i \in Positions : /\ IsPlace(e, k, i) <=> IsPlace(d, k, i)
                                 /\ Cell(e, k, i) = Cell(d, k, i)
        BY <2>1, <3>1, SamePlaces DEF SameNode
      <3> QED BY <3>2 DEF IsName
    <2>2. ASSUME k \in Nodes, ~isValidNode(d, k)
          PROVE  ~IsName(e, k, x, m) /\ ~IsName(d, k, x, m)
      <3>1. ~isDirectory(d, k) /\ ~isDirectory(e, k) BY <1>2, <2>2 DEF isDirectory
      <3> QED BY <3>1 DEF IsName, IsPlace
    <2>3. IsName(e, k, x, m) <=> IsName(d, k, x, m) BY <2>1, <2>2 DEF IsName
    <2> QED BY <1>1, <2>3 DEF NamesAre
  <1>5. ASSUME NEW x, NEW m PROVE ~IsName(e, n, x, m)
    <2> SUFFICES ASSUME IsName(e, n, x, m) PROVE FALSE OBVIOUS
    <2>1. PICK i \in Positions : IsPlace(e, n, i) BY DEF IsName
    <2>2. i < e.inodes[n].size /\ isDirectory(e, n) BY <2>1 DEF IsPlace
    <2>3. e.inodes[n].size = 0 BY <1>2, <2>2
    <2> QED BY <2>2, <2>3, PlaceOf
  <1> QED BY <1>1, <1>3, <1>4, <1>5 DEF NamesWithout, NamesAre
-----------------------------------------------------------------------------
(* Where the names lead on a disk.                                          *)

Reached(d, p, n) == <<p, n>> \in Places(NamesOn(d))
Unreached(d, n) == \A p : ~Reached(d, p, n)

LEMMA RootReached ==
  ASSUME NEW d, DiskInv(d)
  PROVE  Reached(d, <<>>, rootNode)
  BY NamesOnDisk, PlacesClosed DEF Reached, NamesAre

LEMMA NextReached ==
  ASSUME NEW d, DiskInv(d), NEW p, NEW n, NEW x, NEW m,
         Reached(d, p, n), <<n, x, m>> \in NamesOn(d), Len(p) < MaxDepth
  PROVE  Reached(d, Append(p, x), m)
  BY NamesOnDisk, PlacesClosed DEF Reached, NamesAre

LEMMA ReachedAre ==
  ASSUME NEW d, DiskInv(d), NEW p, NEW n, Reached(d, p, n)
  PROVE  /\ p \in Seq(Names) /\ n \in Nodes /\ p \in DOMAIN TreeOn(d)
         /\ TreeOn(d)[p] = IF isDirectory(d, n) THEN "dir" ELSE "file"
  <1> DEFINE t == TreeOn(d)
  <1>1. WellNamed(NamesOn(d), Dirs(d)) BY WellNamedDisk
  <1>2. IsTreeAt(t, Places(NamesOn(d)), Dirs(d)) BY <1>1, NamesOnDisk, TreeIs
  <1>3. <<p, n>>[1] = p /\ <<p, n>>[2] = n OBVIOUS
  <1>4. p \in Seq(Names) /\ n \in Nodes
    BY <1>1, <1>3, PlacesClosed DEF WellNamed, Reached
  <1> HIDE DEF t
  <1>5. p \in DOMAIN t /\ t[p] = IF n \in Dirs(d) THEN "dir" ELSE "file"
    BY <1>2 DEF IsTreeAt, Reached
  <1> QED BY <1>4, <1>5 DEF t, Dirs

(* A file that changes changes no name; a directory that is emptied is      *)
(* cleared.                                                                 *)
LEMMA FileChanged ==
  ASSUME NEW d, NEW e, DiskInv(d), DiskInv(e), NEW n \in Nodes,
         isValidNode(d, n), ~isDirectory(d, n), KindsKept(d, e), OthersKept(d, e, n)
  PROVE  TreeOn(e) = TreeOn(d)
  <1>1. NamesWithout(d, e, n) BY OtherNames
  <1>2. NamesAre(d) /\ NamesAre(e) BY NamesOnDisk
  <1>3. \A x, m : <<n, x, m>> \notin NamesOn(d) BY <1>2 DEF NamesAre, IsName, IsPlace
  <1>4. \A k, x, m : <<k, x, m>> \in NamesOn(e) <=> <<k, x, m>> \in NamesOn(d)
    BY <1>1, <1>3 DEF NamesWithout
  <1>5. NamesOn(e) = NamesOn(d)
    <2>1. \A t \in Triples : t \in NamesOn(e) <=> t \in NamesOn(d) BY <1>4 DEF Triples
    <2> QED BY <1>2, <2>1 DEF NamesAre
  <1>6. Dirs(e) = Dirs(d) BY <1>1 DEF NamesWithout
  <1> QED BY <1>5, <1>6, NamesOnDisk

LEMMA DirectoryCleared ==
  ASSUME NEW d, NEW e, DiskInv(d), DiskInv(e), NEW n \in Nodes,
         isDirectory(d, n), KindsKept(d, e), OthersKept(d, e, n), e.inodes[n].size = 0,
         NEW path, Reached(d, path, n)
  PROVE  TreeOn(e) = Directories!Cleared(TreeOn(d), path)
  <1> DEFINE names == NamesOn(d)
             fewer == NamesOn(e)
             dirs == Dirs(d)
  <1>1. NamesWithout(d, e, n) BY OtherNames DEF isDirectory
  <1>2. WellNamed(names, dirs) /\ WellNamed(fewer, dirs)
    BY <1>1, WellNamedDisk DEF NamesWithout
  <1>3. <<path, n>> \in Places(names) BY DEF Reached
  <1>4. \A k, x, m : <<k, x, m>> \in fewer <=> <<k, x, m>> \in names /\ k # n
    BY <1>1 DEF NamesWithout
  <1>5. TreeOn(d) = TreeOf(names, dirs) /\ TreeOn(e) = TreeOf(fewer, dirs)
    BY <1>1, NamesOnDisk DEF NamesWithout
  <1> HIDE DEF names, fewer, dirs
  <1>6. TreeOf(fewer, dirs) = Directories!Cleared(TreeOf(names, dirs), path)
    BY <1>2, <1>3, <1>4, TreeCleared
  <1> QED BY <1>5, <1>6

(* A new inode gets a name, unless its directory found no room for that.    *)
NameAdded(d, e, t) ==
    \A k, x, m : <<k, x, m>> \in NamesOn(e) <=> <<k, x, m>> \in NamesOn(d) \/ <<k, x, m>> = t

LEMMA NewName ==
  ASSUME NEW d, NEW e, DiskInv(d), DiskInv(e), NEW dir \in Nodes,
         NEW entry \in Entry, Made(d, e, dir, entry)
  PROVE  \/ NameAdded(d, e, <<dir, entry.name, entry.node>>)
         \/ NamesOn(e) = NamesOn(d)
  <1> DEFINE size == d.inodes[dir].size
             added == Cell(e, dir, size)
  <1>1. NamesAre(d) /\ NamesAre(e) BY NamesOnDisk
  <1>2. /\ isDirectory(d, dir) /\ isDirectory(e, dir) /\ e.inodes[dir].size = size + 1
        /\ \A i \in 0..(size - 1) : Cell(e, dir, i) = Cell(d, dir, i)
        /\ added \in {Wild, entry}
        /\ \A m \in Nodes \ {dir} : isValidNode(d, m) => SameNode(d, e, m)
        /\ e.inodes[entry.node].size = 0
        /\ \A m \in Nodes \ {entry.node} : isDirectory(e, m) <=> isDirectory(d, m)
    BY DEF Made, Named
  <1>3. entry.name \in Names /\ entry.node \in Nodes /\ entry # Wild
    BY DEF Entry
  <1>4. size \in Nat /\ size + 1 <= maxFilesize /\ maxFilesize \in Nat /\ size \in Positions
    <2>1. d \in Disk /\ e \in Disk BY DEF DiskInv, Sane
    <2>2. size \in Nat /\ size + 1 <= maxFilesize /\ maxFilesize \in Nat
      BY <1>2, <2>1, Sized
    <2> QED BY <2>2 DEF Positions
  <1> HIDE DEF size, added
  <1>5. ASSUME NEW k, NEW x, NEW m, k # dir
        PROVE  IsName(e, k, x, m) <=> IsName(d, k, x, m)
    <2>1. ASSUME k \in Nodes, isValidNode(d, k) PROVE IsName(e, k, x, m) <=> IsName(d, k, x, m)
      <3>1. SameNode(d, e, k) BY <1>2, <1>5, <2>1
      <3>2. \A i \in Positions : /\ IsPlace(e, k, i) <=> IsPlace(d, k, i)
                                 /\ Cell(e, k, i) = Cell(d, k, i)
        BY <2>1, <3>1, SamePlaces DEF SameNode
      <3> QED BY <3>2 DEF IsName
    <2>2. ASSUME k \in Nodes, ~isValidNode(d, k)
          PROVE  ~IsName(e, k, x, m) /\ ~IsName(d, k, x, m)
      <3>1. ~isDirectory(d, k) BY <2>2 DEF isDirectory
      <3>2. ~isDirectory(e, k) \/ e.inodes[k].size = 0 BY <1>2, <2>2, <3>1
      <3>3. \A i \in Positions : ~IsPlace(e, k, i) BY <3>2, PlaceOf DEF IsPlace
      <3> QED BY <3>1, <3>3 DEF IsName, IsPlace
    <2> QED BY <2>1, <2>2 DEF IsName
  <1>6. ASSUME NEW i \in Positions
        PROVE  /\ IsPlace(d, dir, i) => IsPlace(e, dir, i) /\ Cell(e, dir, i) = Cell(d, dir, i)
               /\ IsPlace(e, dir, i) => \/ i = size
                                        \/ IsPlace(d, dir, i) /\ Cell(e, dir, i) = Cell(d, dir, i)
    <2>1. i \in Nat BY PlaceOf
    <2>2. i < size => i \in 0..(size - 1) BY <1>4, <2>1
    <2>3. i < size + 1 => i = size \/ i < size BY <1>4, <2>1
    <2>4. i < size => i < size + 1 BY <1>4, <2>1
    <2> QED BY <1>2, <2>2, <2>3, <2>4 DEF IsPlace, size
  <1>7. \A x, m : IsName(d, dir, x, m) => IsName(e, dir, x, m)
    BY <1>6 DEF IsName
  <1>8. CASE added = entry
    <2> DEFINE t == <<dir, entry.name, entry.node>>
    <2>1. IsName(e, dir, entry.name, entry.node)
      <3>1. size < size + 1 BY <1>4
      <3>2. IsPlace(e, dir, size) /\ Cell(e, dir, size) = entry
        BY <1>2, <1>3, <1>8, <3>1 DEF IsPlace, added
      <3> QED BY <1>4, <3>2 DEF IsName
    <2>2. ASSUME NEW x, NEW m, IsName(e, dir, x, m)
          PROVE  IsName(d, dir, x, m) \/ (x = entry.name /\ m = entry.node)
      <3>1. PICK i \in Positions : /\ IsPlace(e, dir, i) /\ Cell(e, dir, i) \in Entry
                                   /\ Cell(e, dir, i).name = x /\ Cell(e, dir, i).node = m
        BY <2>2 DEF IsName
      <3>2. CASE i = size BY <1>8, <3>1, <3>2 DEF added
      <3>3. CASE IsPlace(d, dir, i) /\ Cell(e, dir, i) = Cell(d, dir, i)
        BY <3>1, <3>3 DEF IsName
      <3> QED BY <1>6, <3>1, <3>2, <3>3
    <2>3. ASSUME NEW k, NEW x, NEW m
          PROVE  <<k, x, m>> \in NamesOn(e) <=> <<k, x, m>> \in NamesOn(d) \/ <<k, x, m>> = t
      <3>1. <<k, x, m>> = t <=> k = dir /\ x = entry.name /\ m = entry.node OBVIOUS
      <3>2. CASE k # dir BY <1>1, <1>5, <3>1, <3>2 DEF NamesAre
      <3>3. CASE k = dir
        <4>1. IsName(e, k, x, m) <=> IsName(d, k, x, m) \/ <<k, x, m>> = t
          BY <1>7, <2>1, <2>2, <3>1, <3>3
        <4> QED BY <1>1, <4>1 DEF NamesAre
      <3> QED BY <3>2, <3>3
    <2>4. NameAdded(d, e, t) BY <2>3 DEF NameAdded
    <2> QED BY <2>4
  <1>9. CASE added = Wild
    <2>1. ASSUME NEW x, NEW m, IsName(e, dir, x, m) PROVE IsName(d, dir, x, m)
      <3>1. PICK i \in Positions : /\ IsPlace(e, dir, i) /\ Cell(e, dir, i) \in Entry
                                   /\ Cell(e, dir, i).name = x /\ Cell(e, dir, i).node = m
        BY <2>1 DEF IsName
      <3>2. i # size BY <1>9, <3>1 DEF added, IsPlace
      <3>3. IsPlace(d, dir, i) /\ Cell(e, dir, i) = Cell(d, dir, i) BY <1>6, <3>1, <3>2
      <3> QED BY <3>1, <3>3 DEF IsName
    <2>2. \A k, x, m : <<k, x, m>> \in NamesOn(e) <=> <<k, x, m>> \in NamesOn(d)
      BY <1>1, <1>5, <1>7, <2>1 DEF NamesAre
    <2>3. \A t \in Triples : t \in NamesOn(e) <=> t \in NamesOn(d) BY <2>2 DEF Triples
    <2>4. NamesOn(e) = NamesOn(d) BY <1>1, <2>3 DEF NamesAre
    <2> QED BY <2>4
  <1> QED BY <1>2, <1>8, <1>9

(* So its place is new in the tree, or the tree stays and it has none.      *)
NewPlace(d, e, dir, name, new) ==
    /\ \A q : Reached(d, q, dir) /\ Len(q) < MaxDepth =>
          \/ /\ Reached(e, Append(q, name), new)
             /\ Grown(TreeOn(d), TreeOn(e), Append(q, name))
          \/ TreeOn(e) = TreeOn(d) /\ Unreached(e, new)
    /\ Unreached(d, dir) => TreeOn(e) = TreeOn(d) /\ Unreached(e, new)

LEMMA MadeHasPlace ==
  ASSUME NEW d, NEW e, DiskInv(d), DiskInv(e), NEW dir \in Nodes, NEW name \in Names,
         NEW new \in Nodes, Made(d, e, dir, [name |-> name, node |-> new])
  PROVE  NewPlace(d, e, dir, name, new)
  <1> DEFINE entry == [name |-> name, node |-> new]
             names == NamesOn(d)
             more == NamesOn(e)
             dirs == Dirs(d)
             dirs2 == Dirs(e)
  <1>1. entry \in Entry /\ entry.name = name /\ entry.node = new BY DEF Entry
  <1>2. NameAdded(d, e, <<dir, name, new>>) \/ more = names
    <2> HIDE DEF entry
    <2> QED BY <1>1, NewName DEF entry
  <1>3. /\ isDirectory(d, dir) /\ ~isValidNode(d, new) /\ new # rootNode
        /\ \A m \in Nodes \ {new} : isDirectory(e, m) <=> isDirectory(d, m)
    <2> HIDE DEF entry
    <2> QED BY <1>1 DEF Made, Named, entry
  <1>4. new # dir BY <1>3 DEF isDirectory
  <1>5. NamesAre(d) /\ NamesAre(e) /\ NamesInv(d) BY NamesOnDisk DEF DiskInv
  <1>6. \A n, x, m : <<n, x, m>> \in names => n # new /\ m # new
    <2> SUFFICES ASSUME NEW n, NEW x, NEW m, <<n, x, m>> \in names
                 PROVE  n # new /\ m # new
      OBVIOUS
    <2>1. IsName(d, n, x, m) BY <1>5 DEF NamesAre
    <2> QED BY <1>3, <1>5, <2>1 DEF IsName, IsPlace, isDirectory, NamesInv
  <1>7. \A n : n # new => (n \in dirs2 <=> n \in dirs) BY <1>3 DEF Dirs
  <1>8. WellNamed(names, dirs) /\ WellNamed(more, dirs2) BY WellNamedDisk
  <1>9. names \in SUBSET Triples /\ more \in SUBSET Triples BY <1>8 DEF WellNamed
  <1>10. TreeOn(d) = TreeOf(names, dirs) /\ TreeOn(e) = TreeOf(more, dirs2)
    BY NamesOnDisk
  <1>11. \A n : Unreached(d, n) <=> \A p : <<p, n>> \notin Places(names)
    BY DEF Unreached, Reached
  <1>12. \A n : Unreached(e, n) <=> \A p : <<p, n>> \notin Places(more)
    BY DEF Unreached, Reached
  <1>13. \A p, n : Reached(d, p, n) <=> <<p, n>> \in Places(names) BY DEF Reached
  <1>14. \A p, n : Reached(e, p, n) <=> <<p, n>> \in Places(more) BY DEF Reached
  <1> HIDE DEF names, more, dirs, dirs2, entry
  <1>15. \A p : <<p, new>> \notin Places(names)
    <2> SUFFICES ASSUME NEW p, <<p, new>> \in Places(names) PROVE FALSE OBVIOUS
    <2>1. \E q \in Seq(Names), n \in Nodes, x \in Names : <<n, x, new>> \in names
      BY <1>3, <1>9, LastStep
    <2> QED BY <1>6, <2>1
  <1>16. CASE NameAdded(d, e, <<dir, name, new>>)
    <2>1. \A t : t \in more <=> t \in names \/ t = <<dir, name, new>>
      <3>1. \A k, x, m : <<k, x, m>> \in more <=> <<k, x, m>> \in names
                                                  \/ <<k, x, m>> = <<dir, name, new>>
        BY <1>16 DEF NameAdded, names, more
      <3>2. <<dir, name, new>> \in Triples BY DEF Triples
      <3>3. \A t \in Triples : t = <<t[1], t[2], t[3]>> BY DEF Triples
      <3> QED BY <1>9, <3>1, <3>2, <3>3
    <2>2. \A q : <<q, dir>> \in Places(names) /\ Len(q) < MaxDepth =>
             /\ <<Append(q, name), new>> \in Places(more)
             /\ Grown(TreeOf(names, dirs), TreeOf(more, dirs2), Append(q, name))
      <3>1. new # dir BY <1>4
      <3>2. WellNamed(names, dirs) BY <1>8
      <3>3. WellNamed(more, dirs2) BY <1>8
      <3>4. \A t : t \in more <=> t \in names \/ t = <<dir, name, new>> BY <2>1
      <3> HIDE <1>4, <1>8, <2>1
      <3> QED BY <1>6, <1>7, <3>1, <3>2, <3>3, <3>4, TreeGrows
    <2>3. (\A q : <<q, dir>> \notin Places(names)) =>
             Places(more) = Places(names) /\ TreeOf(more, dirs2) = TreeOf(names, dirs)
      BY <1>4, <1>6, <1>7, <1>8, <2>1, TreeGrows
    <2>4. ASSUME Unreached(d, dir) PROVE TreeOn(e) = TreeOn(d) /\ Unreached(e, new)
      BY <1>10, <1>11, <1>12, <1>15, <2>3, <2>4
    <2> QED BY <1>10, <1>13, <1>14, <2>2, <2>4 DEF NewPlace
  <1>17. CASE more = names
    <2>1. Unreached(e, new) BY <1>12, <1>15, <1>17
    <2>2. \A p, n : <<p, n>> \in Places(names) => (n \in dirs2 <=> n \in dirs)
      BY <1>7, <1>15
    <2>3. TreeOf(names, dirs2) = TreeOf(names, dirs) BY <2>2, SameKinds
    <2> QED BY <1>10, <1>17, <2>1, <2>3 DEF NewPlace
  <1> QED BY <1>2, <1>16, <1>17 DEF names, more
-----------------------------------------------------------------------------
(* A walk that finds all its directories has changed nothing. From the      *)
(* first that it makes on they are empty, and their places new, unless one  *)
(* got no name: what is in that is reached no more.                         *)

SameOrGrown(d, e) ==
    TreeOn(e) = TreeOn(d) \/ \E p \in Seq(Names) : Grown(TreeOn(d), TreeOn(e), p)

New(d, e, p, n) ==
    /\ e.inodes[n].size = 0
    /\ Unreached(e, n) \/ (Reached(e, p, n) /\ Grown(TreeOn(d), TreeOn(e), p))

\* The walk at has left for place p.
Came(d, at, p) ==
    \/ at.fs = d /\ (at.parent \in Nodes => Reached(d, p, at.parent))
    \/ /\ SameOrGrown(d, at.fs)
       /\ at.parent \in Nodes => New(d, at.fs, p, at.parent)

LEMMA NotInEmpty ==
  ASSUME NEW d, DiskInv(d), NEW dir \in Nodes, NEW name \in Names, d.inodes[dir].size = 0
  PROVE  findInDirectory(d, dir, name) \notin Nodes
  <1> SUFFICES ASSUME findInDirectory(d, dir, name) \in Nodes PROVE FALSE OBVIOUS
  <1>1. d \in Disk BY DEF DiskInv, Sane
  <1>2. PICK i \in Positions : IsPlace(d, dir, i) BY <1>1, FindResult
  <1> QED BY <1>2, PlaceOf DEF IsPlace

LEMMA MadeCame ==
  ASSUME NEW d, DiskInv(d), NEW at, DiskInv(at.fs), at.parent \in Nodes,
         NEW p \in Seq(Names), Len(p) < MaxDepth, Came(d, at, p),
         NEW name \in Names, NEW isDir \in BOOLEAN,
         NEW to, to.fs = createFile(at.fs, at.parent, name, isDir).fs,
         to.parent = createFile(at.fs, at.parent, name, isDir).node
  PROVE  Came(d, to, Append(p, name))
  <1> DEFINE e == at.fs
             dir == at.parent
             c == createFile(e, dir, name, isDir)
             g == to.fs
             new == to.parent
             t == TreeOn(d)
             q == Append(p, name)
  <1>1. FileCreated(e, c, dir, name, isDir) BY CreateFileEffect
  <1>2. c.fs = g /\ c.node = new OBVIOUS
  <1>3. q \in Seq(Names) BY OneLonger
  <1>4. DiskInv(e) /\ dir \in Nodes OBVIOUS
  <1>5. \/ e = d /\ Reached(d, p, dir)
        \/ SameOrGrown(d, e) /\ New(d, e, p, dir)
    BY DEF Came
  <1>6. Came(d, to, q) <=> \/ g = d /\ (new \in Nodes => Reached(d, q, new))
                           \/ SameOrGrown(d, g) /\ (new \in Nodes => New(d, g, q, new))
    BY DEF Came
  <1> HIDE DEF e, dir, c, g, new, t, q
  <1>7. CASE new \notin Nodes
    <2>1. g = e BY <1>1, <1>2, <1>7 DEF FileCreated
    <2> QED BY <1>5, <1>6, <1>7, <2>1 DEF q
  <1>8. CASE new \in Nodes
    <2>1. /\ DiskInv(g) /\ Made(e, g, dir, [name |-> name, node |-> new])
      BY <1>1, <1>2, <1>8 DEF FileCreated, Extended
    <2>2. NewPlace(e, g, dir, name, new) BY <1>4, <1>8, <2>1, MadeHasPlace
    <2>3. g.inodes[new].size = 0
      <3> DEFINE entry == [name |-> name, node |-> new]
      <3>1. entry.node = new /\ Made(e, g, dir, entry) BY <2>1
      <3> HIDE DEF entry
      <3> QED BY <3>1 DEF Made
    <2>4. CASE e = d /\ Reached(d, p, dir)
      <3>1. \/ Reached(g, q, new) /\ Grown(TreeOn(d), TreeOn(g), q)
            \/ TreeOn(g) = TreeOn(d) /\ Unreached(g, new)
        BY <2>2, <2>4 DEF NewPlace, q
      <3>2. SameOrGrown(d, g) /\ New(d, g, q, new)
        BY <1>3, <2>3, <3>1 DEF SameOrGrown, New
      <3> QED BY <1>6, <3>2 DEF q
    <2>5. CASE SameOrGrown(d, e) /\ New(d, e, p, dir)
      <3>1. CASE Unreached(e, dir)
        <4>1. TreeOn(g) = TreeOn(e) /\ Unreached(g, new) BY <2>2, <3>1 DEF NewPlace
        <4>2. SameOrGrown(d, g) BY <2>5, <4>1 DEF SameOrGrown
        <4>3. New(d, g, q, new) BY <2>3, <4>1 DEF New
        <4> QED BY <1>6, <4>2, <4>3 DEF q
      <3>2. CASE Reached(e, p, dir) /\ Grown(TreeOn(d), TreeOn(e), p)
        <4>1. \/ Reached(g, q, new) /\ Grown(TreeOn(e), TreeOn(g), q)
              \/ TreeOn(g) = TreeOn(e) /\ Unreached(g, new)
          BY <2>2, <3>2 DEF NewPlace, q
        <4>2. CASE Reached(g, q, new) /\ Grown(TreeOn(e), TreeOn(g), q)
          <5>1. Grown(TreeOn(d), TreeOn(g), q)
            <6> DEFINE u == TreeOn(e)
                       v == TreeOn(g)
                       w == TreeOn(d)
            <6>1. Grown(w, u, p) /\ Grown(u, v, Append(p, name)) BY <3>2, <4>2 DEF q
            <6> HIDE DEF u, v, w
            <6>2. Grown(w, v, Append(p, name)) BY <6>1, GrownTwice
            <6> QED BY <6>2 DEF u, v, w, q
          <5>2. SameOrGrown(d, g) BY <1>3, <5>1 DEF SameOrGrown
          <5>3. New(d, g, q, new) BY <2>3, <4>2, <5>1 DEF New
          <5> QED BY <1>6, <5>2, <5>3 DEF q
        <4>3. CASE TreeOn(g) = TreeOn(e) /\ Unreached(g, new)
          <5>1. SameOrGrown(d, g) BY <2>5, <4>3 DEF SameOrGrown
          <5>2. New(d, g, q, new) BY <2>3, <4>3 DEF New
          <5> QED BY <1>6, <5>1, <5>2 DEF q
        <4> QED BY <4>1, <4>2, <4>3
      <3> QED BY <2>5, <3>1, <3>2 DEF New
    <2> QED BY <1>5, <2>4, <2>5
  <1> QED BY <1>7, <1>8

LEMMA FollowCame ==
  ASSUME NEW d, DiskInv(d), NEW at, NEW create \in BOOLEAN, OnTheWay(d, at, create),
         NEW p \in Seq(Names), Len(p) < MaxDepth, Came(d, at, p), NEW name \in Names
  PROVE  Came(d, Follow(at, name, create), Append(p, name))
  <1> DEFINE found == findInDirectory(at.fs, at.parent, name)
             made == createFile(at.fs, at.parent, name, TRUE)
             next == Follow(at, name, create)
             q == Append(p, name)
  <1>1. next = IF at.parent \in {Wild, invalidNode} THEN at
               ELSE IF found = invalidNode /\ create
                    THEN [fs |-> made.fs, parent |-> made.node]
               ELSE [fs |-> at.fs, parent |-> found]
    BY DEF Follow
  <1>2. DiskInv(at.fs) /\ at.parent \in Nodes \cup {invalidNode, Wild}
    BY DEF OnTheWay, Extended
  <1>3. invalidNode \notin Nodes /\ Wild \notin Nodes BY Sizes
  <1> HIDE DEF next
  <1>4. CASE at.parent \notin Nodes
    <2>1. next = at BY <1>1, <1>2, <1>4
    <2> QED BY <1>4, <2>1 DEF Came, next
  <1>5. CASE at.parent \in Nodes /\ found = invalidNode /\ create
    <2>1. next.fs = made.fs /\ next.parent = made.node BY <1>1, <1>3, <1>5
    <2>2. Came(d, next, q) BY <1>2, <1>5, <2>1, MadeCame
    <2> QED BY <2>2 DEF next
  <1>6. CASE at.parent \in Nodes /\ ~(found = invalidNode /\ create)
    <2>1. next.fs = at.fs /\ next.parent = found BY <1>1, <1>3, <1>6
    <2>2. CASE at.fs = d /\ Reached(d, p, at.parent)
      <3>1. ASSUME found \in Nodes PROVE Reached(d, q, found)
        <4>1. <<at.parent, name, found>> \in NamesOn(d)
          BY <1>6, <2>2, <3>1, FoundIsName
        <4> HIDE DEF found
        <4> QED BY <2>2, <4>1, NextReached
      <3> HIDE DEF found
      <3> QED BY <2>1, <2>2, <3>1 DEF Came, next
    <2>3. CASE SameOrGrown(d, at.fs) /\ New(d, at.fs, p, at.parent)
      <3>1. at.fs.inodes[at.parent].size = 0 BY <2>3 DEF New
      <3>2. found \notin Nodes BY <1>2, <1>6, <3>1, NotInEmpty
      <3> HIDE DEF found
      <3> QED BY <2>1, <2>3, <3>2 DEF Came, next
    <2> QED BY <1>6, <2>2, <2>3 DEF Came
  <1> QED BY <1>4, <1>5, <1>6

LEMMA PathPrefix ==
  ASSUME NEW path \in Paths, NEW k \in 1..Len(path)
  PROVE  /\ path \in Seq(Names) /\ Len(path) <= MaxDepth
         /\ SubSeq(path, 1, k - 1) \in Seq(Names) /\ Len(SubSeq(path, 1, k - 1)) = k - 1
         /\ SubSeq(path, 1, k) = Append(SubSeq(path, 1, k - 1), path[k])
         /\ SubSeq(path, 1, 0) = <<>> /\ SubSeq(path, 1, Len(path)) = path
  <1>1. PICK n \in 0..MaxDepth : path \in [1..n -> Names] BY DEF Paths
  <1>2. n \in Nat /\ MaxDepth \in Nat BY DriverAssumption
  <1>3. path \in Seq(Names) /\ Len(path) = n BY <1>1, <1>2
  <1>4. Len(path) <= MaxDepth /\ Len(path) \in Nat BY <1>1, <1>2, <1>3
  <1>5. /\ k \in Nat /\ 1 \in 1..Len(path) /\ k - 1 \in Nat /\ k - 1 <= Len(path)
        /\ \A i \in 1..(k - 1) : i \in 1..Len(path)
    BY <1>4
  <1>6. \A i \in 1..Len(path) : path[i] \in Names BY <1>3, ElementOfSeq
  <1>7. SubSeq(path, 1, k - 1) \in Seq(Names) /\ Len(SubSeq(path, 1, k - 1)) = k - 1
    BY <1>3, <1>4, <1>5, <1>6, SubSeqProperties
  <1>8. SubSeq(path, 1, k) = SubSeq(path, 1, k - 1) \o <<path[k]>>
    BY <1>3, <1>5, SubSeqRecursiveSecond
  <1>9. Append(SubSeq(path, 1, k - 1), path[k]) = SubSeq(path, 1, k - 1) \o <<path[k]>>
    BY <1>6, <1>7, AppendIsConcat
  <1>10. SubSeq(path, 1, 0) = <<>> BY <1>3, <1>4, SubSeqProperties
  <1>11. SubSeq(path, 1, Len(path)) = path BY <1>3, SubSeqFull
  <1> QED BY <1>3, <1>4, <1>7, <1>8, <1>9, <1>10, <1>11

LEMMA WalkCame ==
  ASSUME NEW d, DiskInv(d), NEW path \in Paths, path # <<>>, NEW create \in BOOLEAN
  PROVE  /\ OnTheWay(d, Walk(d, path, create), create)
         /\ Came(d, Walk(d, path, create), SubSeq(path, 1, Len(path) - 1))
  <1> DEFINE N == Len(path) - 1
             base == [fs |-> d, parent |-> rootNode]
  <1>1. N \in Nat /\ Len(path) \in Nat BY PathNames
  <1>2. PICK after : /\ Walk(d, path, create) = after[N]
                     /\ after[0] = base
                     /\ \A k \in 1..N : after[k] = Follow(after[k - 1], path[k], create)
    BY WalkIs
  <1> DEFINE Fine(k) == /\ OnTheWay(d, after[k], create)
                        /\ Came(d, after[k], SubSeq(path, 1, k))
             Bad == {k \in 0..N : ~Fine(k)}
  <1>3. 1 \in 1..Len(path) /\ \A k \in 1..N : k \in 1..Len(path) /\ k - 1 < Len(path)
    BY <1>1
  <1> HIDE DEF N
  <1>4. ASSUME Bad # {} PROVE FALSE
    <2>1. Bad \in SUBSET Nat OBVIOUS
    <2>2. PICK x \in Bad : \A y \in Bad : x <= y
      <3> HIDE DEF Bad
      <3> QED BY <1>4, <2>1, LeastExists
    <2>3. x \in 0..N /\ ~Fine(x) OBVIOUS
    <2>4. Fine(0)
      <3>1. base.fs = d /\ base.parent = rootNode OBVIOUS
      <3>2. OnTheWay(d, base, create) BY <3>1, ExtendedSelf, Sizes DEF OnTheWay
      <3>3. SubSeq(path, 1, 0) = <<>> BY <1>3, PathPrefix
      <3>4. Came(d, base, SubSeq(path, 1, 0)) BY <3>1, <3>3, RootReached DEF Came
      <3> HIDE DEF base
      <3> QED BY <1>2, <3>2, <3>4
    <2>5. x \in 1..N /\ x - 1 \in 0..N /\ ~(x <= x - 1)
      <3> HIDE DEF Fine
      <3> QED BY <1>1, <2>3, <2>4
    <2>6. Fine(x - 1)
      <3>1. x - 1 \notin Bad
        <4> HIDE DEF Bad
        <4> QED BY <2>2, <2>5
      <3> HIDE DEF Fine
      <3> QED BY <2>5, <3>1
    <2>7. path[x] \in Names /\ x \in 1..Len(path) BY <1>3, <2>5, PathNames
    <2>8. OnTheWay(d, Follow(after[x - 1], path[x], create), create)
      BY <2>6, <2>7, FollowEffect
    <2>9. Came(d, Follow(after[x - 1], path[x], create), SubSeq(path, 1, x))
      <3> DEFINE p == SubSeq(path, 1, x - 1)
      <3>1. /\ p \in Seq(Names) /\ Len(p) = x - 1 /\ Len(path) <= MaxDepth
            /\ SubSeq(path, 1, x) = Append(p, path[x])
        BY <2>7, PathPrefix
      <3>2. Came(d, after[x - 1], p) BY <2>6
      <3> HIDE DEF p
      <3>3. Len(p) < MaxDepth BY <1>1, <2>5, <2>7, <3>1, DriverAssumption
      <3> QED BY <2>6, <2>7, <3>1, <3>2, <3>3, FollowCame
    <2>10. Fine(x) BY <1>2, <2>5, <2>8, <2>9
    <2> QED BY <2>3, <2>10
  <1>5. Fine(N)
    <2>1. N \in 0..N BY <1>1
    <2> HIDE DEF Fine
    <2> QED BY <1>4, <2>1
  <1> QED BY <1>2, <1>5 DEF N

\* What resolveFile has done to the tree, and what the driver then may create.
TreeResolved(d, r, path) ==
    /\ r.file \in Nodes => r.fs = d /\ Reached(d, path, r.file)
    /\ SameOrGrown(d, r.fs)
    /\ r.file = invalidNode /\ r.parent \in Nodes =>
          \A isDir \in BOOLEAN :
             SameOrGrown(d, createFile(r.fs, r.parent, path[Len(path)], isDir).fs)

LEMMA ResolveCame ==
  ASSUME NEW d, DiskInv(d), NEW path \in Paths, NEW create \in BOOLEAN
  PROVE  TreeResolved(d, resolveFile(d, path, create), path)
  <1> DEFINE r == resolveFile(d, path, create)
  <1>1. invalidNode \notin Nodes /\ Wild \notin Nodes /\ rootNode \in Nodes BY Sizes
  <1>2. ASSUME path = <<>> PROVE TreeResolved(d, r, path)
    <2>1. r.fs = d /\ r.parent = rootNode /\ r.file = rootNode BY <1>2 DEF resolveFile
    <2>2. Reached(d, path, rootNode) BY <1>2, RootReached
    <2> HIDE DEF r
    <2> QED BY <1>1, <2>1, <2>2 DEF TreeResolved, SameOrGrown
  <1>3. ASSUME path # <<>> PROVE TreeResolved(d, r, path)
    <2> DEFINE at == Walk(d, path, create)
               name == path[Len(path)]
               found == findInDirectory(at.fs, at.parent, name)
               p == SubSeq(path, 1, Len(path) - 1)
    <2>1. r = LookUp(at, name) BY <1>3 DEF resolveFile
    <2>2. name \in Names /\ Len(path) \in 1..Len(path) /\ Len(path) \in Nat
      BY <1>3, PathNames
    <2>3. OnTheWay(d, at, create) /\ Came(d, at, p) BY <1>3, WalkCame
    <2>4. /\ p \in Seq(Names) /\ Len(p) = Len(path) - 1 /\ Len(path) <= MaxDepth
          /\ path = Append(p, name)
      BY <2>2, PathPrefix
    <2>5. Len(p) < MaxDepth BY <2>2, <2>4, DriverAssumption
    <2>6. DiskInv(at.fs) /\ at.parent \in Nodes \cup {invalidNode, Wild}
      BY <2>3 DEF OnTheWay, Extended
    <2> HIDE DEF r, at, p
    <2>7. /\ r.fs = at.fs /\ r.parent = at.parent
          /\ r.file = IF at.parent \in {Wild, invalidNode} THEN at.parent ELSE found
      BY <2>1 DEF LookUp
    <2>8. SameOrGrown(d, r.fs) BY <2>3, <2>7 DEF Came, SameOrGrown
    <2>9. ASSUME r.file \in Nodes PROVE r.fs = d /\ Reached(d, path, r.file)
      <3>1. at.parent \in Nodes /\ r.file = found BY <1>1, <2>6, <2>7, <2>9
      <3>2. at.fs.inodes[at.parent].size # 0
        BY <2>2, <2>6, <2>9, <3>1, NotInEmpty
      <3>3. at.fs = d /\ Reached(d, p, at.parent) BY <2>3, <3>1, <3>2 DEF Came, New
      <3>4. <<at.parent, name, found>> \in NamesOn(d)
        BY <2>2, <2>9, <3>1, <3>3, FoundIsName
      <3> HIDE DEF found, name
      <3>5. Reached(d, Append(p, name), found) BY <2>5, <3>3, <3>4, NextReached
      <3> QED BY <2>4, <2>7, <3>1, <3>3, <3>5
    <2>10. ASSUME r.file = invalidNode, r.parent \in Nodes, NEW isDir \in BOOLEAN
           PROVE  SameOrGrown(d, createFile(r.fs, r.parent, name, isDir).fs)
      <3> DEFINE made == createFile(at.fs, at.parent, name, isDir)
                 to == [fs |-> made.fs, parent |-> made.node]
      <3>1. to.fs = made.fs /\ to.parent = made.node OBVIOUS
      <3> HIDE DEF to
      <3>2. at.parent \in Nodes BY <2>7, <2>10
      <3>3. Came(d, to, Append(p, name))
        BY <2>2, <2>3, <2>4, <2>5, <2>6, <3>1, <3>2, MadeCame
      <3>4. SameOrGrown(d, to.fs) BY <3>3 DEF Came, SameOrGrown
      <3> QED BY <2>7, <3>1, <3>4
    <2> QED BY <2>8, <2>9, <2>10 DEF TreeResolved
  <1> QED BY <1>2, <1>3
-----------------------------------------------------------------------------
(* deleteFile takes the inodes of D, the names in them and the name of f.   *)
NamesDeleted(d, e, D, f) ==
    /\ \A k, x, m : <<k, x, m>> \in NamesOn(e) <=>
                       <<k, x, m>> \in NamesOn(d) /\ k \notin D /\ m # f
    /\ \A k : k \notin D => (k \in Dirs(e) <=> k \in Dirs(d))

LEMMA DeletedNames ==
  ASSUME NEW d, NEW e, DiskInv(d), DiskInv(e), NEW D, NEW f \in D,
         NEW dir \in Nodes, NEW i0 \in Positions, NEW before,
         IsPlace(d, dir, i0), Cell(d, dir, i0).node = f, Left(d, e, D, dir, i0, before)
  PROVE  NamesDeleted(d, e, D, f)
  <1>1. NamesAre(d) /\ NamesAre(e) BY NamesOnDisk
  <1>2. NamesInv(d) BY DEF DiskInv
  <1>3. ASSUME NEW k, NEW x, NEW m, IsName(e, k, x, m)
        PROVE  IsName(d, k, x, m) /\ k \notin D /\ m # f
    <2>1. PICK i \in Positions : /\ IsPlace(e, k, i) /\ Cell(e, k, i) \in Entry
                                 /\ Cell(e, k, i).name = x /\ Cell(e, k, i).node = m
      BY <1>3 DEF IsName
    <2>2. k \in Nodes BY <1>3 DEF IsName
    <2>3. /\ k \notin D /\ before[k][i] \in Positions /\ IsPlace(d, k, before[k][i])
          /\ Cell(e, k, i) = Cell(d, k, before[k][i])
          /\ ~(k = dir /\ before[k][i] = i0)
      BY <2>1, <2>2 DEF Left
    <2>4. IsName(d, k, x, m) BY <2>1, <2>2, <2>3 DEF IsName
    <2>5. m # f
      <3> SUFFICES ASSUME m = f PROVE FALSE OBVIOUS
      <3>1. Cell(d, k, before[k][i]).node = Cell(d, dir, i0).node BY <2>1, <2>3
      <3>2. k = dir /\ before[k][i] = i0 BY <1>2, <2>2, <2>3, <3>1 DEF NamesInv
      <3> QED BY <2>3, <3>2
    <2> QED BY <2>3, <2>4, <2>5
  <1>4. ASSUME NEW k, NEW x, NEW m, IsName(d, k, x, m), k \notin D, m # f
        PROVE  IsName(e, k, x, m)
    <2>1. PICK i \in Positions : /\ IsPlace(d, k, i) /\ Cell(d, k, i) \in Entry
                                 /\ Cell(d, k, i).name = x /\ Cell(d, k, i).node = m
      BY <1>4 DEF IsName
    <2>2. k \in Nodes /\ isValidNode(d, k) BY <1>4, <2>1 DEF IsName, IsPlace, isDirectory
    <2>3. CASE k # dir
      <3>1. SameNode(d, e, k) BY <1>4, <2>2, <2>3 DEF Left
      <3>2. IsPlace(e, k, i) /\ Cell(e, k, i) = Cell(d, k, i)
        BY <2>1, <2>2, <3>1, SamePlaces DEF SameNode
      <3> QED BY <2>1, <2>2, <3>2 DEF IsName
    <2>4. CASE k = dir
      <3>1. i # i0 BY <1>4, <2>1, <2>4
      <3>2. dir \notin D /\ IsPlace(d, dir, i) BY <1>4, <2>1, <2>4
      <3>3. PICK j \in Positions : IsPlace(e, dir, j) /\ Cell(e, dir, j) = Cell(d, dir, i)
        BY <3>1, <3>2 DEF Left
      <3> QED BY <2>1, <2>2, <2>4, <3>3 DEF IsName
    <2> QED BY <2>3, <2>4
  <1>5. ASSUME NEW k, k \notin D PROVE k \in Dirs(e) <=> k \in Dirs(d)
    <2>1. CASE k = dir
      <3>1. isValidNode(e, dir) /\ e.inodes[dir].dir = d.inodes[dir].dir
        BY <1>5, <2>1 DEF Left
      <3> QED BY <2>1, <3>1 DEF IsPlace, isDirectory, Dirs
    <2>2. CASE k # dir
      <3>1. k \in Nodes => e.inodes[k] = d.inodes[k] BY <1>5, <2>2 DEF Left
      <3> QED BY <3>1 DEF isDirectory, isValidNode, Dirs
    <2> QED BY <2>1, <2>2
  <1> QED BY <1>1, <1>3, <1>4, <1>5 DEF NamesDeleted, NamesAre

LEMMA FileDeleted ==
  ASSUME NEW d, NEW e, DiskInv(d), DiskInv(e), NEW f \in Nodes, f # rootNode,
         NEW dir \in Nodes, NEW i0 \in Positions, NEW before,
         IsPlace(d, dir, i0), Cell(d, dir, i0).node = f,
         Left(d, e, deletedNodes(d, f), dir, i0, before),
         NEW path, Reached(d, path, f)
  PROVE  TreeOn(e) = Directories!Deleted(TreeOn(d), path)
  <1> DEFINE D == deletedNodes(d, f)
             names == NamesOn(d)
             fewer == NamesOn(e)
             dirs == Dirs(d)
             dirs2 == Dirs(e)
  <1>1. isValidNode(d, f) BY DEF DiskInv, NamesInv
  <1>2. /\ D \in SUBSET Nodes /\ f \in D /\ rootNode \notin D
        /\ \A n \in D : \/ n = f
                        \/ \E p \in D, i \in Positions :
                              IsPlace(d, p, i) /\ Cell(d, p, i).node = n
    BY <1>1, DeletedAre
  <1> HIDE DEF D
  <1>3. \A m \in D : m = f \/ \E k \in D : \E x : <<k, x, m>> \in names
    <2> SUFFICES ASSUME NEW m \in D, m # f PROVE \E k \in D : \E x : <<k, x, m>> \in names
      OBVIOUS
    <2>1. PICK p \in D : \E i \in Positions : IsPlace(d, p, i) /\ Cell(d, p, i).node = m
      BY <1>2
    <2>2. PICK i \in Positions : IsPlace(d, p, i) /\ Cell(d, p, i).node = m BY <2>1
    <2>3. p \in Nodes BY <1>2
    <2>4. Cell(d, p, i) \in Entry BY <2>2, <2>3, PlacesHoldEntries
    <2>5. IsName(d, p, Cell(d, p, i).name, m) BY <2>2, <2>3, <2>4 DEF IsName
    <2>6. <<p, Cell(d, p, i).name, m>> \in names BY <2>5, NamesOnDisk DEF NamesAre
    <2> QED BY <2>6
  <1>4. NamesDeleted(d, e, D, f) BY <1>2, DeletedNames DEF D
  <1>5. /\ \A k, x, m : <<k, x, m>> \in fewer <=> <<k, x, m>> \in names /\ k \notin D /\ m # f
        /\ \A k : k \notin D => (k \in dirs2 <=> k \in dirs)
    BY <1>4 DEF NamesDeleted
  <1>6. WellNamed(names, dirs) /\ WellNamed(fewer, dirs2) BY WellNamedDisk
  <1>7. <<path, f>> \in Places(names) BY DEF Reached
  <1>8. TreeOn(d) = TreeOf(names, dirs) /\ TreeOn(e) = TreeOf(fewer, dirs2)
    BY NamesOnDisk
  <1> HIDE DEF names, fewer, dirs, dirs2
  <1>9. TreeOf(fewer, dirs2) = Directories!Deleted(TreeOf(names, dirs), path)
    <2>1. Taken(names, dirs, fewer, dirs2, D, f) BY <1>2, <1>3, <1>5 DEF Taken
    <2> QED BY <1>6, <1>7, <2>1, TreeDeleted
  <1> QED BY <1>8, <1>9

LEMMA EmptyTreeOnDisk == TreeOn(EmptyDisk) = Directories!EmptyTree
  <1> DEFINE d == EmptyDisk
             t == TreeOn(d)
             P == Places(NamesOn(d))
  <1>1. DiskInv(d) BY EmptyIsRight
  <1>2. /\ d.inodes = [n \in Nodes |-> IF n = rootNode THEN NewInode(TRUE) ELSE FreeInode]
        /\ NewInode(TRUE).size = 0 /\ FreeInode.refCount = 0
    BY DEF EmptyDisk, NewInode, FreeInode
  <1>3. ASSUME NEW n \in Nodes, NEW i \in Positions, IsPlace(d, n, i) PROVE FALSE
    <2> HIDE DEF d
    <2>1. d.inodes[n].refCount # 0 /\ i < d.inodes[n].size
      BY <1>3 DEF IsPlace, isDirectory, isValidNode
    <2>2. n = rootNode BY <1>2, <2>1
    <2>3. d.inodes[n].size = 0 BY <1>2, <2>2
    <2> QED BY <2>1, <2>3, PlaceOf
  <1>4. NamesAre(d) /\ WellNamed(NamesOn(d), Dirs(d)) BY <1>1, NamesOnDisk, WellNamedDisk
  <1>5. \A n, x, m : <<n, x, m>> \notin NamesOn(d) BY <1>3, <1>4 DEF NamesAre, IsName
  <1>6. \A p, m : <<p, m>> \in P => p = <<>>
    <2> SUFFICES ASSUME NEW p, NEW m, <<p, m>> \in P, p # <<>> PROVE FALSE OBVIOUS
    <2>1. \E q \in Seq(Names), n \in Nodes, x \in Names : <<n, x, m>> \in NamesOn(d)
      BY <1>4, LastStep DEF WellNamed
    <2> QED BY <1>5, <2>1
  <1>7. IsTreeAt(t, P, Dirs(d)) BY <1>1, <1>4, NamesOnDisk, TreeIs
  <1>8. <<>> \in DOMAIN t /\ t[<<>>] = "dir"
    <2>1. isDirectory(d, rootNode) /\ Reached(d, <<>>, rootNode)
      BY <1>1, RootReached DEF DiskInv
    <2> HIDE DEF d
    <2> QED BY <1>1, <2>1, ReachedAre
  <1> HIDE DEF d, t, P
  <1>9. DOMAIN t = {<<>>} BY <1>6, <1>7, <1>8 DEF IsTreeAt
  <1>10. t = [p \in DOMAIN t |-> t[p]] BY <1>7 DEF IsTreeAt
  <1>11. t = [p \in {<<>>} |-> "dir"] BY <1>8, <1>9, <1>10
  <1> QED BY <1>11 DEF Directories!EmptyTree, Directories!Root, t, d
-----------------------------------------------------------------------------
(* Every step leaves the tree as it is or changes it as the specification   *)
(* of the names allows.                                                     *)
TreeStep(d, e) ==
    TreeOn(e) = TreeOn(d) \/ Directories!Change(TreeOn(d), TreeOn(e))

LEMMA StepOfGrown ==
  ASSUME NEW d, NEW e, SameOrGrown(d, e)
  PROVE  TreeStep(d, e)
  BY DEF SameOrGrown, Grown, TreeStep, Directories!Change

LEMMA StepOfSize ==
  ASSUME NEW d, DiskInv(d), NEW n \in Nodes, isValidNode(d, n), NEW size \in 0..maxFilesize,
         isDirectory(d, n) => size = 0,
         NEW path, isDirectory(d, n) => Reached(d, path, n)
  PROVE  TreeStep(d, setSize(d, n, size))
  <1> DEFINE e == setSize(d, n, size)
  <1>1. /\ DiskInv(e) /\ KindsKept(d, e) /\ OthersKept(d, e, n)
        /\ e.inodes[n].size = size
    BY SetSizeEffect
  <1> HIDE DEF e
  <1>2. CASE isDirectory(d, n)
    <2>1. TreeOn(e) = Directories!Cleared(TreeOn(d), path)
      BY <1>1, <1>2, DirectoryCleared
    <2>2. path \in DOMAIN TreeOn(d) /\ TreeOn(d)[path] = "dir" BY <1>2, ReachedAre
    <2>3. Directories!IsDir(TreeOn(d), path)
      BY <2>2 DEF Directories!IsDir, Directories!Exists
    <2> QED BY <2>1, <2>2, <2>3 DEF TreeStep, Directories!Change, e
  <1>3. CASE ~isDirectory(d, n)
    <2>1. TreeOn(e) = TreeOn(d) BY <1>1, <1>3, FileChanged
    <2> QED BY <2>1 DEF TreeStep, e
  <1> QED BY <1>2, <1>3

LEMMA OpenFileTree ==
  ASSUME IInv, NEW fd \in Fds, NEW path \in Paths,
         NEW createNew \in BOOLEAN, NEW dir \in BOOLEAN, OpenFile(fd, path, createNew, dir)
  PROVE  TreeStep(fs, fs')
  <1> DEFINE r == resolveFile(fs, path, createNew)
  <1>1. DiskInv(fs) BY DEF IInv
  <1>2. Resolved(fs, r, createNew) /\ TreeResolved(fs, r, path)
    BY <1>1, ResolveEffect, ResolveCame
  <1>3. \/ fs' = fs
        \/ /\ r.file \in Nodes
           /\ fs' = IF createNew THEN setSize(r.fs, r.file, 0) ELSE r.fs
        \/ fs' = r.fs
        \/ /\ r.file = invalidNode /\ r.parent \in Nodes
           /\ fs' = createFile(r.fs, r.parent, path[Len(path)], dir).fs
    BY DEF OpenFile, Crash
  <1> HIDE DEF r
  <1>4. TreeStep(fs, r.fs) BY <1>2, StepOfGrown DEF TreeResolved
  <1>5. CASE fs' = fs BY <1>5 DEF TreeStep
  <1>6. CASE r.file \in Nodes /\ createNew /\ fs' = setSize(r.fs, r.file, 0)
    <2>1. r.fs = fs /\ Reached(fs, path, r.file) BY <1>2, <1>6 DEF TreeResolved
    <2>2. isValidNode(fs, r.file) BY <1>2, <1>6, <2>1 DEF Resolved
    <2>3. 0 \in 0..maxFilesize BY Sizes
    <2>4. TreeStep(fs, setSize(fs, r.file, 0))
      BY <1>1, <1>6, <2>1, <2>2, <2>3, StepOfSize
    <2> QED BY <1>6, <2>1, <2>4
  <1>7. CASE fs' = r.fs BY <1>4, <1>7
  <1>8. CASE /\ r.file = invalidNode /\ r.parent \in Nodes
             /\ fs' = createFile(r.fs, r.parent, path[Len(path)], dir).fs
    <2>1. SameOrGrown(fs, fs') BY <1>2, <1>8 DEF TreeResolved
    <2> QED BY <2>1, StepOfGrown
  <1> QED BY <1>3, <1>5, <1>6, <1>7, <1>8

LEMMA WriteTree ==
  ASSUME IInv, NEW fd \in Fds, NEW k \in 1..MaxWrite, NEW cells \in [1..k -> Bytes],
         Write(fd, cells)
  PROVE  TreeStep(fs, fs')
  <1> DEFINE n == files[fd].inode
             from == files[fd].position
  <1>1. /\ files[fd] # Closed /\ ~files[fd].dir
        /\ fs' = writeNode(fs, n, cells, from).fs
    BY DEF Write, Open
  <1>2. /\ n \in Nodes /\ isValidNode(fs, n) /\ ~isDirectory(fs, n)
        /\ from \in 0..maxFilesize
    BY <1>1, OldDescriptor
  <1>3. cells \in Seq(Bytes)
    <2>1. k \in Nat BY DriverAssumption
    <2> QED BY <2>1
  <1>4. DiskInv(fs) BY DEF IInv
  <1> HIDE DEF n, from
  <1>5. DiskInv(fs') /\ KindsKept(fs, fs') /\ OthersKept(fs, fs', n)
    BY <1>1, <1>2, <1>3, <1>4, WriteFileEffect
  <1>6. TreeOn(fs') = TreeOn(fs) BY <1>2, <1>4, <1>5, FileChanged
  <1> QED BY <1>6 DEF TreeStep

LEMMA SetPosTree ==
  ASSUME IInv, NEW fd \in Fds, NEW position \in 0..maxFilesize, NEW setType \in BOOLEAN,
         SetPos(fd, position, setType)
  PROVE  TreeStep(fs, fs')
  <1> DEFINE n == files[fd].inode
  <1>1. /\ files[fd] # Closed /\ (setType => ~files[fd].dir)
        /\ fs' = IF setType THEN setSize(fs, n, position) ELSE fs
    BY DEF SetPos, Open
  <1>2. n \in Nodes /\ isValidNode(fs, n) /\ files[fd].dir = isDirectory(fs, n)
    BY <1>1, OldDescriptor
  <1>3. DiskInv(fs) BY DEF IInv
  <1> HIDE DEF n
  <1>4. CASE setType
    <2>1. fs' = setSize(fs, n, position) /\ ~files[fd].dir BY <1>1, <1>4
    <2>2. ~isDirectory(fs, n) BY <1>2, <2>1
    <2> QED BY <1>2, <1>3, <2>1, <2>2, StepOfSize
  <1>5. CASE ~setType
    <2>1. fs' = fs BY <1>1, <1>5
    <2> QED BY <2>1 DEF TreeStep
  <1> QED BY <1>4, <1>5

LEMMA DeleteFileTree ==
  ASSUME Careful, IInv, IInv', NEW path \in Paths, DeleteFile(path)
  PROVE  TreeStep(fs, fs')
  <1> DEFINE r == resolveFile(fs, path, FALSE)
             f == r.file
             dir == r.parent
             e == deleteFile(fs, dir, f)
  <1>1. DiskInv(fs) /\ DiskInv(fs') BY DEF IInv
  <1>2. Resolved(fs, r, FALSE) /\ TreeResolved(fs, r, path)
    BY <1>1, ResolveEffect, ResolveCame
  <1>3. \/ Crash
        \/ /\ f \in Nodes /\ canDelete(fs, dir, f) /\ MayDelete(f)
           /\ fs' = e
    BY DEF DeleteFile
  <1> HIDE DEF r
  <1>4. CASE Crash BY <1>4 DEF Crash, TreeStep
  <1>5. CASE f \in Nodes /\ canDelete(fs, dir, f) /\ MayDelete(f) /\ fs' = e
    <2>1. f # rootNode BY <1>5 DEF MayDelete, Careful
    <2>2. r.fs = fs /\ Reached(fs, path, f) BY <1>2, <1>5 DEF TreeResolved
    <2>3. dir \in Nodes /\ \E i \in Positions : IsPlace(fs, dir, i) /\ Cell(fs, dir, i).node = f
      BY <1>2, <1>5, <2>1, <2>2 DEF Resolved
    <2> HIDE DEF f, dir, e
    <2>4. PICK i0 \in Positions : IsPlace(fs, dir, i0) /\ Cell(fs, dir, i0).node = f BY <2>3
    <2>5. PICK before : Left(fs, e, deletedNodes(fs, f), dir, i0, before)
      BY <1>1, <1>5, <2>1, <2>3, <2>4, DeleteFileEffect DEF e
    <2>6. TreeOn(fs') = Directories!Deleted(TreeOn(fs), path)
      BY <1>1, <1>5, <2>1, <2>2, <2>3, <2>4, <2>5, FileDeleted
    <2>7. path \in DOMAIN TreeOn(fs) BY <1>1, <2>2, ReachedAre
    <2> QED BY <2>6, <2>7 DEF TreeStep, Directories!Change
  <1> QED BY <1>3, <1>4, <1>5

LEMMA TreeNext == Careful /\ IInv /\ Next => TreeStep(fs, fs')
  <1> SUFFICES ASSUME Careful, IInv, Next PROVE TreeStep(fs, fs') OBVIOUS
  <1>1. IInv' BY IInvStep
  <1>2. CASE \E path \in Paths : DeleteFile(path) BY <1>1, <1>2, DeleteFileTree
  <1>3. ASSUME NEW fd \in Fds, NEW path \in Paths, NEW createNew \in BOOLEAN,
               NEW dir \in BOOLEAN, OpenFile(fd, path, createNew, dir)
        PROVE  TreeStep(fs, fs')
    BY <1>3, OpenFileTree
  <1>4. CASE \E fd \in Fds : CloseFile(fd) BY <1>4 DEF CloseFile, TreeStep
  <1>5. CASE \E fd \in Fds, length \in 1..MaxWrite : Read(fd, length)
    <2>1. fs' = fs BY <1>5 DEF Read, Crash
    <2> QED BY <2>1 DEF TreeStep
  <1>6. ASSUME NEW fd \in Fds, NEW k \in 1..MaxWrite, NEW cells \in [1..k -> Bytes],
               Write(fd, cells)
        PROVE  TreeStep(fs, fs')
    BY <1>6, WriteTree
  <1>7. ASSUME NEW fd \in Fds, NEW position \in 0..maxFilesize, NEW setType \in BOOLEAN,
               SetPos(fd, position, setType)
        PROVE  TreeStep(fs, fs')
    BY <1>7, SetPosTree
  <1> QED BY <1>2, <1>3, <1>4, <1>5, <1>6, <1>7 DEF Next
-----------------------------------------------------------------------------
(* Inodes and bitmap are well formed, and so are positions; a directory     *)
(* holds entries, a file holds bytes (MemtreeMount.cpp).                    *)
THEOREM MemtreeTypeCorrect == Careful => (Spec => []TypeOK)
  <1>1. IInv => TypeOK
    <2> SUFFICES ASSUME IInv PROVE TypeOK OBVIOUS
    <2>1. fs \in Disk /\ FilesHold(fs) /\ DirsHold(fs) BY DEF IInv, DiskInv, Sane
    <2>2. ASSUME NEW n \in Live, NEW i \in EntriesOf(n)
          PROVE  Cell(fs, n, i) \in IF isDirectory(fs, n) THEN Entry
                                    ELSE Bytes \cup {Stale}
      <3>1. n \in Nodes /\ isValidNode(fs, n) BY DEF Live
      <3>2. i \in 0..(fs.inodes[n].size - 1) /\ Cell(fs, n, i) # Wild BY DEF EntriesOf
      <3>3. i \in Positions BY <2>1, <3>1, <3>2, Sized
      <3>4. CASE isDirectory(fs, n) BY <2>1, <3>1, <3>2, <3>4 DEF DirsHold
      <3>5. CASE ~isDirectory(fs, n) BY <2>1, <3>1, <3>2, <3>3, <3>5 DEF FilesHold
      <3> QED BY <3>4, <3>5
    <2>3. \A fd \in Fds : Open(fd) => files[fd].position \in 0..maxFilesize
      BY OldDescriptor
    <2>4. crashed \in BOOLEAN
      <3>1. FilesInv BY DEF IInv
      <3> QED BY <3>1, Zenon DEF FilesInv
    <2> QED BY <2>1, <2>2, <2>3, <2>4, DiskTypes DEF TypeOK
  <1> QED BY <1>1, IInvAlways, PTL

(* No block is lost and none is shared: a bit of the bitmap is set for each *)
(* block number that an inode in use holds, and for no other                *)
(* (reserveBlock, releaseBlock, releaseNode).                               *)
THEOREM BlocksAreAccounted == Careful => (Spec => []BlocksAccounted)
  <1>1. IInv => BlocksAccounted
    <2> SUFFICES ASSUME IInv PROVE BlocksAccounted OBVIOUS
    <2> DEFINE links == {nl \in Live \X Links :
                           fs.inodes[nl[1]].directBlocks[nl[2]] # invalidBlock}
               blockOf(nl) == fs.inodes[nl[1]].directBlocks[nl[2]]
               F == [nl \in links |-> blockOf(nl)]
    <2>1. fs \in Disk /\ Accounted(fs) BY DEF IInv, DiskInv, Sane
    <2>2. ASSUME NEW nl \in links
          PROVE  /\ nl[1] \in Nodes /\ nl[2] \in Links /\ nl = <<nl[1], nl[2]>>
                 /\ blockOf(nl) \in Blocks /\ Owns(fs, nl[1], nl[2], blockOf(nl))
      BY <2>1, DiskTypes DEF Live, Owns
    <2>3. ASSUME NEW n \in Nodes, NEW l \in Links, NEW b \in Blocks, Owns(fs, n, l, b)
          PROVE  <<n, l>> \in links /\ blockOf(<<n, l>>) = b
      BY <2>3, Sizes DEF Owns, Live
    <2>4. fs.bitmap = {blockOf(nl) : nl \in links}
      <3> HIDE DEF links, blockOf
      <3>1. \A b \in fs.bitmap : \E nl \in links : b = blockOf(nl)
        <4> SUFFICES ASSUME NEW b \in fs.bitmap PROVE \E nl \in links : b = blockOf(nl)
          OBVIOUS
        <4>1. b \in Blocks BY <2>1, DiskTypes
        <4>2. PICK n \in Nodes, l \in Links : Owns(fs, n, l, b) BY <2>1, <4>1 DEF Accounted
        <4> QED BY <2>3, <4>1, <4>2
      <3>2. \A nl \in links : blockOf(nl) \in fs.bitmap BY <2>1, <2>2 DEF Accounted
      <3> QED BY <3>1, <3>2
    <2>5. \A p, q \in links : blockOf(p) = blockOf(q) => p = q
      <3> SUFFICES ASSUME NEW p \in links, NEW q \in links, blockOf(p) = blockOf(q)
                   PROVE  p = q
        OBVIOUS
      <3> HIDE DEF links, blockOf
      <3>1. p[1] = q[1] /\ p[2] = q[2] BY <2>1, <2>2 DEF Accounted
      <3>2. p = <<p[1], p[2]>> /\ q = <<q[1], q[2]>> BY <2>2
      <3> QED BY <3>1, <3>2
    <2> HIDE DEF links, blockOf
    <2>6. F \in Bijection(links, fs.bitmap)
      <3>1. F \in [links -> fs.bitmap] BY <2>4
      <3>2. \A p, q \in links : F[p] = F[q] => p = q BY <2>5
      <3>3. \A b \in fs.bitmap : \E p \in links : F[p] = b BY <2>4
      <3> HIDE DEF F
      <3> QED BY <3>1, <3>2, <3>3
              DEF Bijection, Injection, Surjection, IsInjective
    <2>7. IsFiniteSet(links)
      <3>1. IsFiniteSet(Nodes \X Links) BY Sizes, FS_Product
      <3>2. links \subseteq Nodes \X Links BY <2>2
      <3> QED BY <3>1, <3>2, FS_Subset
    <2>8. Cardinality(fs.bitmap) = Cardinality(links)
      <3> HIDE DEF F
      <3> QED BY <2>6, <2>7, FS_Bijection DEF ExistsBijection
    <2> QED BY <2>4, <2>8 DEF BlocksAccounted, links, blockOf
  <1> QED BY <1>1, IInvAlways, PTL

(* Every entry of a directory names an inode in use, which has one name,    *)
(* and the names of a directory differ (createFile, deleteFile).            *)
THEOREM NamesAreRight == Careful => (Spec => []EntriesNameLiveNodes)
  <1>1. IInv => EntriesNameLiveNodes
    <2> SUFFICES ASSUME IInv PROVE EntriesNameLiveNodes OBVIOUS
    <2> DEFINE places == {di \in LiveDirs \X (0..maxFilesize) : di[2] \in EntriesOf(di[1])}
               nodeAt(di) == Cell(fs, di[1], di[2]).node
    <2>1. fs \in Disk /\ NamesInv(fs) BY DEF IInv, DiskInv, Sane
    <2>2. ASSUME NEW di \in places
          PROVE  /\ di[1] \in Nodes /\ di[2] \in Positions /\ di = <<di[1], di[2]>>
                 /\ IsPlace(fs, di[1], di[2])
      <3>1. di[1] \in Nodes /\ isDirectory(fs, di[1]) /\ di = <<di[1], di[2]>>
        BY DEF LiveDirs, Live
      <3>2. di[2] \in 0..(fs.inodes[di[1]].size - 1) /\ Cell(fs, di[1], di[2]) # Wild
        BY DEF EntriesOf
      <3>3. di[2] \in Positions /\ di[2] < fs.inodes[di[1]].size BY <2>1, <3>1, <3>2, Sized
      <3> QED BY <3>1, <3>2, <3>3 DEF IsPlace
    <2> HIDE DEF places
    <2>3. \A di \in places : nodeAt(di) \in Live \ {rootNode}
      BY <2>1, <2>2 DEF NamesInv, Live, isValidNode
    <2>4. ASSUME NEW di \in places, NEW dj \in places, di # dj
          PROVE  /\ nodeAt(di) # nodeAt(dj)
                 /\ di[1] = dj[1] => Cell(fs, di[1], di[2]).name # Cell(fs, dj[1], dj[2]).name
      <3>1. ~(di[1] = dj[1] /\ di[2] = dj[2]) BY <2>2, <2>4
      <3> QED BY <2>1, <2>2, <3>1 DEF NamesInv
    <2> QED BY <2>3, <2>4 DEF EntriesNameLiveNodes, places
  <1> QED BY <1>1, IInvAlways, PTL

(* What is open stays there, as what it was opened (openFile, setSize and   *)
(* the reuse of inodes by reserveFreeNode).                                 *)
THEOREM DescriptorsStayLive == Careful => (Spec => []DescriptorsLive)
  <1>1. IInv => DescriptorsLive BY DEF IInv
  <1> QED BY <1>1, IInvAlways, PTL

(* A step changes the content of one file at most, whatever blocks it takes *)
(* and gives back (setNodeSize, writeNode, createFile, deleteFile).         *)
THEOREM FilesAreSeparate == Careful => (Spec => OneFileChanges)
  <1> DEFINE Separate == \A n, m \in Live \cap Live' :
                /\ n # m
                /\ ~isDirectory(fs, n) /\ ~isDirectory(fs, m)
                /\ ~isDirectory(fs, n)' /\ ~isDirectory(fs, m)'
                => CellsOf(fs, n)' = CellsOf(fs, n) \/ CellsOf(fs, m)' = CellsOf(fs, m)
  <1> SUFFICES ASSUME Careful PROVE Spec => OneFileChanges OBVIOUS
  <1>1. IInv /\ [Next]_vars => [Separate]_vars
    <2> SUFFICES ASSUME IInv, Next PROVE Separate OBVIOUS
    <2>1. IInv' /\ OneAtMost(fs, fs') BY IInvStep
    <2>2. PICK x : \A n \in Nodes :
             /\ n # x /\ isValidNode(fs, n) /\ isValidNode(fs', n)
             /\ ~isDirectory(fs, n)
             => SameNode(fs, fs', n)
      BY <2>1 DEF OneAtMost
    <2>3. fs \in Disk
      <3>1. Sane(fs) BY Zenon DEF IInv, DiskInv
      <3> QED BY <3>1, Zenon DEF Sane
    <2>4. ASSUME NEW n \in Live \cap Live', ~isDirectory(fs, n), n # x
          PROVE  CellsOf(fs, n)' = CellsOf(fs, n)
      <3>1. n \in Nodes /\ isValidNode(fs, n) /\ isValidNode(fs', n)
        BY <2>4 DEF Live, isValidNode
      <3>2. SameNode(fs, fs', n) BY <2>2, <2>4, <3>1
      <3>3. \A i \in 0..(fs.inodes[n].size - 1) : i \in Positions BY <2>3, <3>1, Sized
      <3>4. fs'.inodes[n] = fs.inodes[n] /\ \A i \in Positions : Cell(fs', n, i) = Cell(fs, n, i)
        BY <3>2 DEF SameNode
      <3>5. [i \in 0..(fs'.inodes[n].size - 1) |-> Cell(fs', n, i)]
              = [i \in 0..(fs.inodes[n].size - 1) |-> Cell(fs, n, i)]
        BY <3>3, <3>4
      <3> QED BY <3>5 DEF CellsOf, Cell
    <2> QED BY <2>4
  <1>2. IInv /\ [Next]_vars => [Separate]_vars BY <1>1
  <1> QED BY <1>2, IInvAlways, PTL DEF Spec, OneFileChanges

(* By its names the disk is a tree of directories and files: a call of the  *)
(* driver creates a path with the directories that it lacks, empties a      *)
(* directory or deletes a path with all that is below, or leaves every path *)
(* as it is (resolveFile, createFile, setSize and deleteFile), whatever     *)
(* inodes and blocks it takes and gives back, and also on a full disk.      *)
THEOREM DiskIsTree == Careful => (Spec => ImplementsTree)
  <1> SUFFICES ASSUME Careful PROVE Spec => ImplementsTree OBVIOUS
  <1>1. Init => Directories!Init
    BY EmptyTreeOnDisk DEF Init, Directories!Init, Tree
  <1>2. IInv /\ [Next]_vars => [Directories!Next]_Tree
    <2> SUFFICES ASSUME IInv, [Next]_vars PROVE [Directories!Next]_Tree OBVIOUS
    <2>1. Tree = TreeOn(fs) /\ Tree' = TreeOn(fs') BY DEF Tree
    <2>2. TreeStep(fs, fs')
      <3>1. CASE Next BY <3>1, TreeNext
      <3>2. CASE UNCHANGED vars BY <3>2 DEF vars, TreeStep
      <3> QED BY <3>1, <3>2
    <2> QED BY <2>1, <2>2 DEF TreeStep, Directories!Next
  <1> QED BY <1>1, <1>2, IInvAlways, PTL DEF Spec, ImplementsTree, Directories!Spec
=============================================================================
