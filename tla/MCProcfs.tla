----------------------------- MODULE MCProcfs -----------------------------
(* The process file system for TLC: two names of different length, for a    *)
(* pid that is used again.                                                  *)
EXTENDS Procfs

TwoNames == {<<"p", "s">>, <<"d", "i", "r">>}
=============================================================================
