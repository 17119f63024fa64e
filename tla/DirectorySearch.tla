-------------------------- MODULE DirectorySearch --------------------------
(***************************************************************************)
(* What pfind promises, without threads, locks or a queue: a directory is  *)
(* handed out once, each of its matching entries is reported at most once, *)
(* and a search that ends without an error has handed out every directory  *)
(* below the root and reported every matching entry.                       *)
(***************************************************************************)
CONSTANTS
  Root,      \* the directory given on the command line
  Dirs,      \* the directories the search may enter, Root included
  Matching,  \* the non-directories whose name contains the search term
  Contents   \* [Dirs -> entries]: what readdir yields for a directory

VARIABLES
  pending,   \* directories discovered and not yet handed out
  visited,   \* directories handed out to a searcher
  reported,  \* matching entries reported
  result     \* "running", then how the search ended

absvars == <<pending, visited, reported, result>>

AbsInit ==
  /\ pending = {Root}
  /\ visited = {}
  /\ reported = {}
  /\ result = "running"

Visit(d) ==
  /\ result = "running"
  /\ d \in pending
  /\ pending' = pending \ {d}
  /\ visited' = visited \cup {d}
  /\ UNCHANGED <<reported, result>>

Discover(d, e) ==
  /\ result = "running"
  /\ d \in visited
  /\ e \in (Contents[d] \cap Dirs) \ (pending \cup visited)
  /\ pending' = pending \cup {e}
  /\ UNCHANGED <<visited, reported, result>>

Report(d, e) ==
  /\ result = "running"
  /\ d \in visited
  /\ e \in (Contents[d] \cap Matching) \ reported
  /\ reported' = reported \cup {e}
  /\ UNCHANGED <<pending, visited, result>>

\* Nothing the search has reached is left over.
Exhausted ==
  /\ pending = {}
  /\ Root \in visited
  /\ \A d \in visited : /\ Contents[d] \cap Dirs \subseteq visited
                        /\ Contents[d] \cap Matching \subseteq reported

Complete ==
  /\ result = "running"
  /\ Exhausted
  /\ result' = "complete"
  /\ UNCHANGED <<pending, visited, reported>>

\* An error cut the search short.
GiveUp ==
  /\ result = "running"
  /\ result' = "partial"
  /\ UNCHANGED <<pending, visited, reported>>

AbsNext ==
  \/ \E d \in Dirs : Visit(d)
  \/ \E d \in Dirs : \E e \in Contents[d] : Discover(d, e) \/ Report(d, e)
  \/ Complete
  \/ GiveUp

AbsSpec == AbsInit /\ [][AbsNext]_absvars
=============================================================================
