------------------------------- MODULE MCPcc -------------------------------
(* Small instances of Pcc: two printable characters, 1 and 2, and 0 for    *)
(* the others; integers a few bits wide.                                   *)
EXTENDS Pcc, TLC

CONSTANTS c1, c2, c3

TwoChars == 1..2

\* A file with a repeated character, and one with an unprintable one.
TwoFiles == c1 :> <<1, 1>> @@ c2 :> <<2, 0, 1>>

\* One character, an empty file, and one whose size is negative as an int.
OddFiles == c1 :> <<1>> @@ c2 :> <<>> @@ c3 :> <<1, 2>>
=============================================================================
