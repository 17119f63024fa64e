--------------------------- MODULE CommandRunner ---------------------------
(***************************************************************************)
(* What a shell promises: it runs one line at a time and does not ask for  *)
(* the next while a process of this one is left, except in the background. *)
(***************************************************************************)
CONSTANT Procs

VARIABLES state,        \* "ready", "busy" with a line, or "stopped"
          foreground,   \* processes of the line, until they are waited for
          background    \* processes of lines that ended in &

absvars == <<state, foreground, background>>

AbsInit == state = "ready" /\ foreground = {} /\ background = {}

ReadsLine == state = "ready" /\ state' = "busy" /\ UNCHANGED <<foreground, background>>

Starts(p) ==
  /\ state = "busy"
  /\ p \notin foreground \cup background
  /\ foreground' = foreground \cup {p}
  /\ UNCHANGED <<state, background>>

StartsInBackground(p) ==
  /\ state = "busy" /\ foreground = {}
  /\ p \notin background
  /\ background' = background \cup {p}
  /\ state' = "ready"
  /\ UNCHANGED foreground

WaitsFor(S) ==
  /\ foreground' = foreground \ S
  /\ background' = background \ S

\* The last wait and the next prompt may be one step.
Finishes == state = "busy" /\ foreground' = {} /\ state' = "ready"

\* The end of the shell leaves its children to others.
Stops == state # "stopped" /\ state' = "stopped"

AbsNext ==
  \/ ReadsLine
  \/ \E p \in Procs : Starts(p) \/ StartsInBackground(p)
  \/ \E S \in SUBSET Procs : WaitsFor(S) /\ (UNCHANGED state \/ Finishes \/ Stops)

AbsSpec == AbsInit /\ [][AbsNext]_absvars
=============================================================================
