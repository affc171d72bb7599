------------------------------ MODULE MCProcFs ------------------------------
(***************************************************************************)
(* Names of parentheses, spaces and one letter: all up to two characters,  *)
(* and those of three that begin like the end of a record.                 *)
(***************************************************************************)
EXTENDS ProcFs, SequencesExt

Characters == {"(", ")", " ", "x"}

TestNames ==
  BoundedSeq(Characters, 2)
  \cup {<<")", c, d>> : c \in Characters, d \in Characters}
  \cup {<<")", " ", "S", " ", "9">>}

TestArgs == {<< >>, <<"a", "", "b">>}
=============================================================================
