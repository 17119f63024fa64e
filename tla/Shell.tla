------------------------------- MODULE Shell -------------------------------
(***************************************************************************)
(* shell.c and myshell.c: read a line, run it as one program, in the       *)
(* background, as a pipe or with its output redirected, and wait.  A step  *)
(* is one system call.                                                     *)
(***************************************************************************)
EXTENDS ShellProcs, FiniteSetsExt

CONSTANTS
  Lines,     \* what the user may enter: sequences of words
  NoProc,    \* not a process
  CharMod    \* 2^8: the values of a char

ASSUME LinesAssumption == \A line \in Lines : line # <<>>
ASSUME CharAssumption == CharMod \in Nat /\ CharMod > 0 /\ CharMod % 2 = 0
ASSUME NoProcAssumption == NoProc \notin Procs

VARIABLES
  arglist,      \* the words of the line
  pid1, pid2    \* the children of this line

local == <<arglist, pid1, pid2>>
vars == <<spc, ends, sigint, kernel, local>>

Init ==
  /\ spc = "prepare"
  /\ ends = {}
  /\ sigint = FALSE
  /\ sigints = 0
  /\ proc = [p \in Procs |-> Free]
  /\ arglist = <<>>
  /\ pid1 = NoProc /\ pid2 = NoProc

\* Between 430 and 439 SIGINT is blocked; elsewhere the handler runs first.
Blocked == spc \in {"fork", "unblock"}
At(label) == spc = label /\ (sigint => Blocked)

-----------------------------------------------------------------------------
(* Which kind of line it is.                                               *)

AsChar(n) == LET k == n % CharMod IN IF 2 * k < CharMod THEN k ELSE k - CharMod

\* The position, from 0, as a char, or -1.
strings_equal(list, index, string) ==
  IF list[index + 1] = string THEN AsChar(index) ELSE -1

\* obtain_pipe_position and obtain_arrow_position.
obtain_position(list, string) ==
  LET found == {i \in 0..Len(list) - 1 : strings_equal(list, i, string) # -1}
  IN  IF found = {} THEN 0 ELSE strings_equal(list, Min(found), string)

pipe_position == obtain_position(arglist, "|")

Begin(list) ==
  CASE obtain_position(list, "|") # 0 -> "pipe"
    [] obtain_position(list, "|") = 0 /\ obtain_position(list, ">") # 0 -> "redirect"
    [] OTHER -> IF list[Len(list)] = "&" THEN "background" ELSE "fork"

\* A word, or the NULL behind the last one, or what lies outside the list.
Word(index) == IF index \in 0..Len(arglist) - 1 THEN Prog(arglist[index + 1]) ELSE "missing"

-----------------------------------------------------------------------------
(* main of shell.c.                                                        *)

\* Until the first call of sigaction SIGINT ends the shell; until the second it
\* is ignored.
prepare ==
  /\ At("prepare")
  /\ \/ spc' = "prompt"
     \/ MayFail /\ spc' = "ended"
  /\ UNCHANGED <<ends, sigint, kernel, local>>

ReadLine(list) ==
  /\ At("prompt")
  /\ arglist' = list
  /\ spc' = Begin(list)
  /\ UNCHANGED <<ends, sigint, kernel, pid1, pid2>>

\* The shell ends: the kernel closes its ends of the pipe, and init waits for
\* its children.
Stop ==
  /\ spc' = "ended"
  /\ ends' = {} /\ sigint' = FALSE
  /\ arglist' = <<>> /\ pid1' = NoProc /\ pid2' = NoProc
  /\ proc' = Reaped(Zombies)
  /\ UNCHANGED sigints

EndOfInput == At("prompt") /\ Stop

\* process_arglist has returned 1, or -1 from output_redirect.
Prompt ==
  /\ spc' = "prompt"
  /\ arglist' = <<>> /\ pid1' = NoProc /\ pid2' = NoProc

-----------------------------------------------------------------------------
(* piping.                                                                 *)

Forks == {"fork1", "fork2", "redirect", "background", "fork"}

\* mutant: after fork the code goes on with -1 for a process id
OnFailure_Ignored ==
  IF spc = "fork" THEN spc' = "unblock" /\ UNCHANGED <<ends, sigint, kernel, local>> ELSE Stop
OnFailure == Stop

\* A failed call: error returns 0, and main leaves its loop.
CallFails ==
  /\ \/ At("pipe") /\ MayFail
     \/ spc \in Forks /\ At(spc) /\ ForkFails
  /\ OnFailure

\* A negative position writes in front of arglist: the shell may crash.
BadPosition == At("pipe") /\ pipe_position < 0 /\ Stop

MakePipe ==
  /\ At("pipe")
  /\ ends' = {"r", "w"}
  /\ spc' = "fork1"
  /\ UNCHANGED <<sigint, kernel, local>>

ForkFirst ==
  /\ At("fork1")
  /\ \E p \in Procs : Fork(p, "first", Word(0)) /\ pid1' = p
  /\ spc' = "fork2"
  /\ UNCHANGED <<ends, sigint, sigints, arglist, pid2>>

ForkSecond ==
  /\ At("fork2")
  /\ \E p \in Procs : Fork(p, "second", Word(pipe_position + 1)) /\ pid2' = p
  /\ spc' = "close"
  /\ UNCHANGED <<ends, sigint, sigints, arglist, pid1>>

AfterClose_Both == ends               \* mutant: the shell keeps its ends
AfterClose == {}

ClosePipe ==
  /\ At("close")
  /\ ends' = AfterClose
  /\ spc' = "wait1"
  /\ UNCHANGED <<sigint, kernel, local>>

\* waitpid returns when the child has ended, and with ECHILD when the handler
\* has waited for it before, though its id may be in use again.
WaitFor(p) ==
  /\ p \notin Children \ Zombies
  /\ proc' = Reaped({p} \cap Zombies)
  /\ UNCHANGED <<ends, sigint, sigints>>

WaitFirst == At("wait1") /\ WaitFor(pid1) /\ spc' = "wait2" /\ UNCHANGED local
WaitSecond == At("wait2") /\ WaitFor(pid2) /\ Prompt

-----------------------------------------------------------------------------
(* output_redirect, and a line that ends in &.                             *)

ForkRedirect ==
  /\ At("redirect")
  /\ \E p \in Procs :
       /\ Fork(p, "redirect", IF Len(arglist) > 2 THEN Word(0) ELSE "missing")
       /\ pid1' = p
  /\ spc' = "redirect_wait"
  /\ UNCHANGED <<ends, sigint, sigints, arglist, pid2>>

WaitRedirect == At("redirect_wait") /\ WaitFor(pid1) /\ Prompt

ForkBackground ==
  /\ At("background")
  /\ \E p \in Procs : Fork(p, "background", Word(0))
  /\ Prompt
  /\ UNCHANGED <<ends, sigint, sigints>>

-----------------------------------------------------------------------------
(* One program in the foreground.                                          *)

ForkForeground ==
  /\ At("fork")
  /\ \E p \in Procs : Fork(p, "foreground", Word(0)) /\ pid1' = p
  /\ spc' = "unblock"
  /\ UNCHANGED <<ends, sigint, sigints, arglist, pid2>>

Unblock == At("unblock") /\ spc' = "wait" /\ UNCHANGED <<ends, sigint, kernel, local>>

WaitForeground == At("wait") /\ WaitFor(pid1) /\ spc' = "kill" /\ UNCHANGED local

\* SIGTERM, to an id that has been waited for.  A process that has the id ends
\* of it, unless it is somebody else's and ignores it or the shell may not.
Kill ==
  /\ At("kill")
  /\ \/ pid1 \notin Children \ Zombies /\ UNCHANGED proc
     \/ ~Is(pid1, "free") /\ ~Is(pid1, "zombie") /\ Exit(pid1)
  /\ spc' = "wait_all"
  /\ UNCHANGED <<ends, sigint, sigints, local>>

\* wait, until no child is left: those in the background too.
WaitAll ==
  /\ At("wait_all")
  /\ \/ \E p \in Zombies : proc' = Reaped({p}) /\ UNCHANGED <<spc, local>>
     \/ Children = {} /\ Prompt /\ UNCHANGED proc
  /\ UNCHANGED <<ends, sigint, sigints>>

-----------------------------------------------------------------------------
(* SIGINT.                                                                 *)

\* mutant: without SA_RESTART a wait returns with EINTR
Resume_Interrupted(label) ==
  CASE label = "wait1" -> "wait2" [] label = "wait" -> "kill" [] OTHER -> label
Resume(label) == label

\* child_handler waits for every child that has ended.
child_handler ==
  /\ sigint /\ ~Blocked
  /\ sigint' = FALSE
  /\ proc' = Reaped(Zombies)
  /\ spc' = Resume(spc)
  /\ UNCHANGED <<ends, sigints, local>>

Sigint ==
  /\ spc # "ended"
  /\ Interrupt
  /\ IF spc = "prepare" THEN spc' \in {"prepare", "ended"} /\ UNCHANGED sigint
                        ELSE sigint' = TRUE /\ UNCHANGED spc
  /\ UNCHANGED <<ends, local>>

-----------------------------------------------------------------------------
ShellStep ==
  \/ prepare \/ CallFails \/ BadPosition \/ MakePipe \/ ForkFirst \/ ForkSecond \/ ClosePipe
  \/ WaitFirst \/ WaitSecond \/ ForkRedirect \/ WaitRedirect \/ ForkBackground
  \/ ForkForeground \/ Unblock \/ WaitForeground \/ Kill \/ WaitAll \/ child_handler

Child(p) == ChildStep(p) /\ UNCHANGED <<spc, ends, sigint, local>>
Others(p) == OthersStep(p) /\ UNCHANGED <<spc, ends, sigint, local>>

\* Until the input ends the user may always enter a line.
Next ==
  \/ ShellStep
  \/ (\E list \in Lines : ReadLine(list)) \/ EndOfInput
  \/ \E p \in Procs : Child(p) \/ Others(p)
  \/ Sigint

Spec == Init /\ [][Next]_vars

\* The kernel runs the shell and every child that can take a step; the user
\* need not enter anything.
Fairness == WF_vars(ShellStep) /\ \A p \in Procs : WF_vars(Child(p))
FairSpec == Spec /\ Fairness

-----------------------------------------------------------------------------
(* Properties.                                                             *)

Busy == spc \notin {"prepare", "prompt", "ended"}

TypeOK ==
  /\ spc \in {"prepare", "prompt", "pipe", "close", "wait1", "wait2", "redirect_wait",
               "unblock", "wait", "kill", "wait_all", "ended"} \cup Forks
  /\ ends \subseteq {"r", "w"}
  /\ sigint \in BOOLEAN
  /\ ProcsTypeOK
  /\ arglist \in Lines \cup {<<>>} /\ {pid1, pid2} \subseteq Procs \cup {NoProc}
  /\ spc \in {"fork2", "close", "wait1", "wait2", "redirect_wait", "unblock", "wait", "kill"} =>
       pid1 \in Procs
  /\ spc \in {"close", "wait1", "wait2"} => pid2 \in Procs

Alive(p) == p \in Children \ Zombies

\* The SIGTERM after a foreground command reaches neither this command nor
\* another child of the shell: SIGINT does not end the wait before it early,
\* and the handler waits only for children that have ended.  The id may by then
\* be an outsider's.  (myshell.c:89, 132, 444-449)
TermSparesChildren == spc = "kill" => pid1 \notin Children

\* When the shell ends, also between the two forks of a pipe, no process of
\* its line is left behind for ever, but for programs that nothing ends: the
\* first program of a pipe that has no second is not kept by an end of the pipe
\* that nobody closes.  (myshell.c:228, 246-250, shell.c:52-56)
OrphansEnd ==
  spc = "ended" ~> \/ \A p \in Procs : Alive(p) => proc[p].role = "background"
                   \/ [](\E p \in Procs : Endless(p))

\* A SIGINT sent after the fork of a foreground command is not swallowed by
\* the handler it has inherited: the program does not run, unless it was
\* made to ignore SIGINT.  (myshell.c:393-395, 430-439)
InterruptReachesCommand ==
  \A p \in Procs :
    Is(p, "running") /\ proc[p].role = "foreground" /\ proc[p].disp = "default" =>
      ~proc[p].interrupted

\* While the shell waits for a pipe, once both children have closed what they
\* do not use, the pipe has a writer or a reader only as long as that child
\* lives: the other sees the end of file, or SIGPIPE.  (myshell.c:190-196,
\* 228, 236, 254, 263, 269-270)
PipeEndsWithItsPrograms ==
  (Busy \/ spc = "prompt") /\ spc \notin {"fork1", "fork2", "close"}
  /\ (\A p \in Procs : Is(p, "forked") => ~InPipe(p)) =>
    /\ Held("w") <=> \E p \in Procs : proc[p].role = "first" /\ Alive(p)
    /\ Held("r") <=> \E p \in Procs : proc[p].role = "second" /\ Alive(p)

\* The shell comes back to the prompt, or ends, whatever line it runs and
\* whatever fails, unless a program that nothing ends is left for ever.
\* (myshell.c:269-284, 444-457)
CommandReturns == Busy ~> (~Busy \/ [](\E p \in Procs : Endless(p)))

\* A child that has ended is waited for.  Comments at myshell.c:83, "a
\* sigaction handler for child processes", and 273, "we must wait for child
\* process to end to avoid zombies".
ZombiesReaped == \A p \in Procs : Is(p, "zombie") ~> ~Is(p, "zombie")

Runner == INSTANCE CommandRunner WITH
  state      <- IF spc = "ended" THEN "stopped" ELSE IF Busy THEN "busy" ELSE "ready",
  foreground <- {p \in Children : proc[p].role # "background"},
  background <- {p \in Children : proc[p].role = "background"}

\* The shell runs one line at a time.
ImplementsRunner == Runner!AbsSpec
=============================================================================
