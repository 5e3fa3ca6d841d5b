--------------------------- MODULE DirectoryTree ---------------------------
(***************************************************************************)
(* What the RAM disk promises to those who use it by name: a tree of       *)
(* directories and files. A path is the sequence of the names that lead to *)
(* a place; a tree maps the paths that exist to their kind. Nothing is     *)
(* said of inodes and blocks. Where the disk is full, a call that creates  *)
(* a path makes only the first of the directories on the way.              *)
(***************************************************************************)
EXTENDS Integers, Sequences, SequencesExt, Functions

VARIABLE tree              \* path -> "dir" or "file"

Root == <<>>
EmptyTree == [p \in {Root} |-> "dir"]

Exists(t, path) == path \in DOMAIN t
IsDir(t, path) == Exists(t, path) /\ t[path] = "dir"
Below(t, path) == {p \in DOMAIN t : p # path /\ IsPrefix(path, p)}
Ancestors(path) == {SubSeq(path, 1, i) : i \in 0..(Len(path) - 1)}

Creatable(t, path) ==
    ~Exists(t, path) /\ \A p \in Ancestors(path) : Exists(t, p) => IsDir(t, p)

\* path with the directories on the way to it, those that are missing
Created(t, path, kind) ==
    [p \in DOMAIN t \cup {path} \cup Ancestors(path) |->
        IF Exists(t, p) THEN t[p] ELSE IF p = path THEN kind ELSE "dir"]

\* A directory that exists is created again: it is empty afterwards.
Cleared(t, path) == Restrict(t, DOMAIN t \ Below(t, path))

Deleted(t, path) == Restrict(t, DOMAIN t \ (Below(t, path) \cup {path}))

Change(t, u) ==
    \/ \E path \in DOMAIN u : Creatable(t, path) /\ u = Created(t, path, u[path])
    \/ \E path \in DOMAIN t : IsDir(t, path) /\ u = Cleared(t, path)
    \/ \E path \in DOMAIN t : u = Deleted(t, path)

Init == tree = EmptyTree

Next == \E before \in {tree}, after \in {tree'} :
            before # after /\ Change(before, after)

Spec == Init /\ [][Next]_tree
=============================================================================
