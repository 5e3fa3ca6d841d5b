----------------------------- MODULE MCMemtree -----------------------------
(* The RAM disk for TLC: names and descriptors are interchangeable.         *)
EXTENDS Memtree

Symmetry == Permutations(Names) \cup Permutations(Fds)
=============================================================================
