------------------------------ MODULE MCPFind ------------------------------
(* Small instances of PFind: two trees over the same names.                *)
EXTENDS PFind, TLC

CONSTANTS r, a, b,         \* directories
          f, g,            \* matching files
          o                \* an entry that is skipped

\* r holds two subdirectories and a match in each of two places.
TreeDirs == {r, a, b}
TreeContents == r :> {a, b, f} @@ a :> {g, o} @@ b :> {}

\* r/a/b: a chain, so that the queue empties between directories.
ChainContents == r :> {a, f} @@ a :> {b, g} @@ b :> {}

ThreadSymmetry == Permutations(Threads)
=============================================================================
