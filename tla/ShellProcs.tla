----------------------------- MODULE ShellProcs -----------------------------
(***************************************************************************)
(* The processes myshell.c forks, from fork to the program they execute:   *)
(* what they hold of a pipe, what SIGINT does to them, how they end.  And  *)
(* processes that are not the shell's, which use the same ids.             *)
(***************************************************************************)
EXTENDS Integers, Sequences, FiniteSets

CONSTANTS
  Procs,       \* the process ids of the kernel
  MaxSigint,   \* bound on the number of SIGINTs
  MayFail      \* may pipe, fork, dup2, sigaction and execvp fail?

ASSUME ProcsAssumption == IsFiniteSet(Procs) /\ Procs # {}
ASSUME LimitsAssumption == MaxSigint \in Nat /\ MayFail \in BOOLEAN

VARIABLES
  spc,       \* where the shell is; "ended" when it has left
  ends,      \* the ends of the pipe, "r" and "w", that the shell holds
  sigint,    \* a SIGINT the shell's handler has not seen yet
  sigints,   \* SIGINTs sent so far
  proc       \* the process behind each id

kernel == <<proc, sigints>>

Roles == {"foreground", "background", "first", "second", "redirect"}

\* A program ends by itself, or when its input does, or when nobody reads its
\* output; "missing" cannot be executed.
Programs == {"ends", "reads", "writes", "missing"}
Prog(word) == IF word \in Programs THEN word ELSE "missing"

Free == [status |-> "free", role |-> "background", prog |-> "missing", disp |-> "default",
         pending |-> FALSE, interrupted |-> FALSE, ends |-> {}]

\* A process of somebody else: not the shell's to wait for, nor the terminal's
\* to interrupt.
Outsider == [Free EXCEPT !.status = "outsider"]

Is(p, status) == proc[p].status = status
Children == {p \in Procs : ~Is(p, "free") /\ ~Is(p, "outsider")}
Zombies  == {p \in Procs : Is(p, "zombie")}
InPipe(p) == proc[p].role \in {"first", "second"}

\* Somebody holds this end of the pipe.
Held(end) == end \in ends \cup UNION {proc[p].ends : p \in Procs}

\* A child keeps its id until it is waited for, by init when the shell has left;
\* the others are waited for by somebody else.
Dead(record) ==
  IF spc = "ended" \/ record.status = "outsider" THEN Free
  ELSE [Free EXCEPT !.status = "zombie", !.role = record.role]

Exit(p) == proc' = [proc EXCEPT ![p] = Dead(@)]

\* waitpid takes the children in S out of the table.
Reaped(S) == [p \in Procs |-> IF p \in S THEN Free ELSE proc[p]]

-----------------------------------------------------------------------------
(* fork: the child has the shell's handler and its ends of the pipe.       *)

Fork(p, role, prog) ==
  /\ Is(p, "free")
  /\ proc' = [proc EXCEPT ![p] = [Free EXCEPT !.status = "forked", !.role = role,
                                              !.prog = prog, !.disp = "handler",
                                              !.ends = ends]]

\* The kernel has no process left, or no memory.
ForkFails == MayFail \/ \A p \in Procs : ~Is(p, "free")

\* Another program forks, and its child ends.
OthersStep(p) ==
  /\ \/ Is(p, "free") /\ proc' = [proc EXCEPT ![p] = Outsider]
     \/ Is(p, "outsider") /\ Exit(p)
  /\ UNCHANGED sigints

-----------------------------------------------------------------------------
(* The child, up to execvp.                                                *)

Restored(p) == proc[p].role \in {"foreground", "first", "second"}

Closed_None(p) == {}    \* mutant: the child keeps both ends
Closed(p) == CASE proc[p].role = "first"  -> {"r"}
               [] proc[p].role = "second" -> {"w"}
               [] OTHER -> {}

\* close_and_restart: the struct given to sigaction is never initialised, so
\* any handler may be set.  Then SIGINT is unblocked, and a pending one comes.
RestartSigint(p) ==
  /\ Is(p, "forked") /\ Restored(p)
  /\ \/ \E disp \in {"default", "ignore", "wild"} :
          IF proc[p].pending /\ disp # "ignore" THEN Exit(p)
          ELSE proc' = [proc EXCEPT ![p].status = "restored", ![p].disp = disp,
                                    ![p].pending = FALSE, ![p].ends = @ \ Closed(p)]
     \/ MayFail /\ Exit(p)
  /\ UNCHANGED sigints

ReadyToRun(p) == Is(p, "restored") \/ (Is(p, "forked") /\ ~Restored(p))

\* dup2 fails: the child returns from process_arglist to the shell's loop.
DupFails(p) ==
  /\ MayFail
  /\ ReadyToRun(p) /\ (InPipe(p) \/ proc[p].role = "redirect")
  /\ proc' = [proc EXCEPT ![p].status = "returned"]
  /\ UNCHANGED sigints

\* error has returned 0, on which the loop ends.
ReturnToLoop(p) ==
  /\ Is(p, "returned")
  /\ Exit(p)
  /\ UNCHANGED sigints

\* Handlers become the default action; what is ignored stays ignored.
Exec(p) ==
  /\ ReadyToRun(p) /\ proc[p].prog # "missing"
  /\ proc' = [proc EXCEPT ![p].status = "running",
                          ![p].disp = IF @ = "ignore" THEN @ ELSE "default"]
  /\ UNCHANGED sigints

\* A child that redirects copies its words through pointers never assigned.
ExecFails(p) ==
  /\ ReadyToRun(p)
  /\ MayFail \/ proc[p].prog = "missing" \/ proc[p].role = "redirect"
  /\ Exit(p)
  /\ UNCHANGED sigints

-----------------------------------------------------------------------------
(* The program.                                                            *)

MayEnd(p) ==
  \/ proc[p].prog = "ends"
  \/ proc[p].prog = "reads" /\ proc[p].role = "second" /\ ~Held("w")
  \/ proc[p].prog = "writes" /\ proc[p].role = "first" /\ ~Held("r")

\* Nothing but a signal ends it.
Endless(p) ==
  /\ p \in Children \ Zombies
  /\ \/ proc[p].prog = "reads" /\ proc[p].role # "second"
     \/ proc[p].prog = "writes" /\ proc[p].role # "first"

Ends(p) ==
  /\ Is(p, "running") /\ MayEnd(p)
  /\ Exit(p)
  /\ UNCHANGED sigints

ChildStep(p) ==
  \/ RestartSigint(p) \/ DupFails(p) \/ ReturnToLoop(p) \/ Exec(p) \/ ExecFails(p)
  \/ Ends(p)

-----------------------------------------------------------------------------
(* SIGINT, from the terminal, reaches the shell and all its children.      *)

Masked_Nobody(role) == {FALSE}    \* mutant: SIG_BLOCK is left out
\* May it wait until the child has unblocked it?  A foreground child is forked
\* with SIGINT blocked; one of a pipe unblocks it first and then blocks it.
Masked(role) == CASE role = "foreground" -> {TRUE}
                  [] role \in {"first", "second"} -> {TRUE, FALSE}
                  [] OTHER -> {FALSE}

\* What may become of the process after a SIGINT.
AfterSigint(p) ==
  LET r == proc[p]
  IN  CASE r.status = "forked" ->
             {[r EXCEPT !.interrupted = TRUE, !.pending = @ \/ held] : held \in Masked(r.role)}
        [] r.status \in {"restored", "returned", "running"} /\ r.disp \in {"default", "wild"} ->
             {Dead(r)}
        [] OTHER -> {r}

Interrupt ==
  /\ sigints < MaxSigint
  /\ sigints' = sigints + 1
  /\ proc' \in {f \in [Procs -> UNION {AfterSigint(p) : p \in Procs}] :
                  \A p \in Procs : f[p] \in AfterSigint(p)}

Process ==
  [status : {"free", "outsider", "forked", "restored", "returned", "running", "zombie"},
   role : Roles, prog : Programs, disp : {"handler", "default", "ignore", "wild"},
   pending : BOOLEAN, interrupted : BOOLEAN, ends : SUBSET {"r", "w"}]

ProcsTypeOK == proc \in [Procs -> Process] /\ sigints \in 0..MaxSigint
=============================================================================
