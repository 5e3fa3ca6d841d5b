------------------------------- MODULE Paths -------------------------------
(***************************************************************************)
(* src/src/kernel/filesystem/VFS_paths.cpp: how a path that a program      *)
(* gives is made absolute and free of dots. A path is a sequence of        *)
(* tokens: separators, dots, names, and labels of drives such as "C:". The *)
(* buffer is rewritten in place, as in the code, with a cursor that reads  *)
(* and one that writes; positions count tokens instead of characters.      *)
(***************************************************************************)
EXTENDS Integers, FiniteSets, Sequences, SequencesExt, FiniteSetsExt

CONSTANTS FileNames,   \* names of files and directories
          Labels       \* what stands before the first separator: "C:", "procfs:"

pathSeparator == "/"
Separators == {pathSeparator, "\\"}

ASSUME PathsAssumption ==
    (FileNames \cup Labels) \cap (Separators \cup {".", ".."}) = {}

Tokens == FileNames \cup Labels \cup Separators \cup {".", ".."}

\* The label's position in a path that has one before a separator, else 0.
labelLength(path) ==
    LET at == {i \in 1..(Len(path) - 1) : path[i] \in Labels /\ path[i + 1] = pathSeparator}
    IN  IF at = {} THEN 0 ELSE Min(at)

isAbsolute(path) == labelLength(path) # 0

ensureAbsoluteForm(wd, path) ==
    IF isAbsolute(path) THEN path
    ELSE IF Len(path) = 1 /\ path[1] \in Separators
         THEN SubSeq(wd, 1, labelLength(wd) + 1)
    ELSE (IF Last(wd) = pathSeparator THEN wd ELSE Append(wd, pathSeparator)) \o path

unifySeparators(path) ==
    [i \in 1..Len(path) |-> IF path[i] \in Separators THEN pathSeparator ELSE path[i]]

\* One position after the separator before the directory that ends at dst.
OneUp(buf, dst) ==
    Max({2} \cup {i \in 3..(dst - 1) : buf[i - 1] = pathSeparator})

\* mutant: a path may climb over the root of its drive
ClimbUnchecked(r) == [r EXCEPT !.dst = OneUp(r.buf, r.dst)]

Climb(r) ==
    IF r.depth = 0 THEN r
    ELSE [r EXCEPT !.dst = OneUp(r.buf, r.dst), !.depth = @ - 1]

\* part with its separator is moved down to dst
AppendPart(r, part) ==
    [r EXCEPT !.buf = [i \in DOMAIN @ |->
                          IF i < r.dst \/ i > r.dst + Len(part) THEN @[i]
                          ELSE IF i = r.dst + Len(part) THEN pathSeparator
                          ELSE part[i - r.dst + 1]],
              !.dst = @ + Len(part) + 1, !.depth = @ + 1]

\* The part from src to the separator at position sep.
TakePart(r, sep) ==
    LET part == SubSeq(r.buf, r.src, sep - 1)
        done == IF part \in {<<>>, <<".">>} THEN r
                ELSE IF part = <<"..">> THEN Climb(r)
                ELSE AppendPart(r, part)
    IN  [done EXCEPT !.src = sep + 1]

\* label is the position of the label: what stands behind it is rewritten.
removeDots(path, label) ==
    LET start == label + 2
        step(r, i) == IF i >= start /\ path[i] = pathSeparator THEN TakePart(r, i) ELSE r
        r == FoldLeftDomain(step, [buf |-> path, src |-> start, dst |-> start, depth |-> 0],
                            path)
        last == SubSeq(r.buf, r.src, Len(path))
    IN  IF last = <<".">> THEN SubSeq(r.buf, 1, r.dst - 1)
        ELSE IF last = <<"..">> THEN SubSeq(r.buf, 1, Climb(r).dst - 1)
        ELSE SubSeq(r.buf, 1, r.dst - 1) \o last

normalizePath(wd, path) ==
    LET absolute == ensureAbsoluteForm(wd, path)
        label == labelLength(absolute)
        short == removeDots(unifySeparators(absolute), label)
    IN  IF Len(short) > label + 1 /\ Last(short) = pathSeparator
        THEN Front(short) ELSE short
-----------------------------------------------------------------------------
(* What a path means: a drive, and a walk from its root or from the working *)
(* directory on which each name leads down and each ".." up.                *)
PathOf(place) ==
    <<place.label, pathSeparator>> \o
    FoldLeft(LAMBDA path, name : IF path = <<>> THEN <<name>> ELSE path \o <<pathSeparator, name>>,
             <<>>, place.names)

PlaceOf(path) ==
    [label |-> path[1],
     names |-> FoldLeft(LAMBDA names, t : IF t = pathSeparator THEN names ELSE Append(names, t),
                        <<>>, SubSeq(path, 3, Len(path)))]

WalkFrom(place, tokens) ==
    [place EXCEPT !.names =
        FoldLeft(LAMBDA names, t :
                     IF t \in Separators \cup {"."} THEN names
                     ELSE IF t # ".." THEN Append(names, t)
                     ELSE IF names = <<>> THEN names ELSE Front(names),
                 @, tokens)]

(* What Meaning speaks of: no two names, labels or dots without a separator *)
(* between them, for the text would be one name; and a label before a "/"   *)
(* only in first place: isAbsolute takes any for one (VFS_paths.cpp:147).   *)
WellFormed(path) ==
    /\ \A i \in 1..(Len(path) - 1) : path[i] \in Separators \/ path[i + 1] \in Separators
    /\ \A i \in 2..(Len(path) - 1) : path[i] \in Labels => path[i + 1] # pathSeparator

Meaning(here, path) ==
    LET root(label) == [label |-> label, names |-> <<>>]
    IN  IF Len(path) > 1 /\ path[1] \in Labels /\ path[2] = pathSeparator
        THEN WalkFrom(root(path[1]), Tail(path))
        ELSE IF path \in {<<s>> : s \in Separators} THEN root(here.label)
        ELSE WalkFrom(here, path)
=============================================================================
