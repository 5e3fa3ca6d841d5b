------------------------------ MODULE MCShell ------------------------------
(***************************************************************************)
(* Lines: everything of up to two tokens, redirections, pipelines of up to *)
(* three commands, one of which may fail, and one that is too long for the *)
(* table of processes.                                                     *)
(***************************************************************************)
EXTENDS Shell

Short == UNION {[1..n -> Tokens] : n \in 0..2}
Redirections == {<<name, token, "word">> : name \in ProgramNames, token \in {"<", ">"}}
Pairs == {<<x, "|", y>> : x \in Names, y \in Names}
Triples == {<<x, "|", y, "|", "filter">> : x \in {"writer", "rgen"}, y \in {"filter", "rgen"}}
Failing == {<<"writer", "|", "filter", "|", "cd">>, <<"writer", "|", "filter", "<">>,
            <<"writer", "|", "filter", ">", "word">>, <<"|", "writer">>}
TooLong == {<<"writer", "|", "filter", "|", "filter", "|", "filter">>}

SomeLines == Short \cup Redirections \cup Pairs \cup Triples \cup Failing \cup TooLong
=============================================================================
