------------------------------ MODULE MCShell ------------------------------
(* Small instances of Shell: a char of three bits, and lines of up to seven *)
(* words.                                                                   *)
EXTENDS Shell

Args(n) == [i \in 1..n |-> "arg"]

\* Every kind of line: a pipe whose first program ends only when nobody reads
\* and one whose second ends only with its input; a program that never ends.
AllLines ==
  {<<"ends">>, <<"ends", "&">>, <<"writes", "&">>,
   <<"writes", "|", "ends">>, <<"ends", "|", "reads">>, <<"ends", ">", "file">>}

\* A symbol in front, where it is not seen, and one beyond the range of a char.
OddLines == {<<"|", "ends">>, <<"ends">> \o Args(4) \o <<"|", "ends">>}

EveryLine == AllLines \cup OddLines
=============================================================================
