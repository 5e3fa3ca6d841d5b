---------------------------- MODULE MCFileNames ----------------------------
(* Paths for TLC. CdFew leads up, down, to another drive, to the unusable   *)
(* ones and to one that is not mounted. Paths of up to four parts, absolute *)
(* and relative, with single, doubled and trailing separators of both kinds *)
(* are normalised.                                                          *)
EXTENDS FileNames, TLC

Symmetry == Permutations(Slots)

Parted(parts, sep) ==
    FoldLeft(LAMBDA path, part : path \o <<sep>> \o part, parts[1], Tail(parts))

Parts == {<<>>, <<".">>, <<"..">>, <<"a">>, <<"b">>}
SomePaths ==
    LET relative == {Parted(parts, sep) :
                       parts \in UNION {[1..k -> Parts] : k \in 1..3}, sep \in Separators}
                    \cup {Parted(parts, "/") : parts \in [1..4 -> Parts]}
    IN  relative \cup {<<label, "/">> \o path : label \in Labels, path \in relative}
                 \cup {<<"C:", "\\">> \o path : path \in relative}

CdFew == {<<"a">>, <<"..">>, <<"b", "/", "..", "/", "a", "/">>, <<"\\">>, <<"C:", "\\", ".">>,
          <<"procfs:", "/", "b">>, <<"stdio:", "/">>, <<"pipe:", "/">>, <<"D:", "/">>}
TypedFew == {<<"a">>, <<"C:", "/", "a", "/", ".", "/", "b">>}
=============================================================================
