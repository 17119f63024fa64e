---------------------------- MODULE ShellProofs ----------------------------
(***************************************************************************)
(* Theorems about Shell, for every set of lines and process ids, any width *)
(* of a char, with or without failures and SIGINTs.                        *)
(*                                                                         *)
(* All of them follow from what one step may do to one process: either it  *)
(* is forked by the shell, which is then at one of its calls of fork, or   *)
(* its record changes as Moves says (ForksOrMoves).                        *)
(***************************************************************************)
EXTENDS Shell, TLAPS

-----------------------------------------------------------------------------
(* The inductive invariant.                                                *)

\* The shell holds both ends of a pipe between pipe and its two closes.
EndsOfShell == ends = IF spc \in {"fork1", "fork2", "close"} THEN {"r", "w"} ELSE {}

\* A child of a pipe holds both until it has closed the one it does not use.
EndsOf(record) ==
  IF \/ record.status \in {"free", "outsider", "zombie"}
     \/ record.role \notin {"first", "second"}
  THEN {}
  ELSE IF record.status = "forked" THEN {"r", "w"}
  ELSE IF record.role = "first" THEN {"w"} ELSE {"r"}

EndsInv == EndsOfShell /\ \A p \in Procs : proc[p].ends = EndsOf(proc[p])

\* A SIGINT sent to a foreground command is pending until the command unblocks
\* it, and then has ended it or was ignored.
InterruptInv ==
  \A p \in Procs :
    proc[p].role = "foreground" /\ proc[p].interrupted =>
      IF Is(p, "forked") THEN proc[p].pending
      ELSE Is(p, "restored") \/ Is(p, "running") => proc[p].disp = "ignore"

\* The children the shell has not waited for, but for those in the background.
Foreground == {p \in Children : proc[p].role # "background"}

\* The children it will wait for by their id.
Awaited ==
  IF spc = "ended" THEN Procs
  ELSE (IF spc \in {"fork2", "redirect_wait", "unblock", "wait", "close", "wait1"}
        THEN {pid1} ELSE {})
       \cup (IF spc \in {"close", "wait1", "wait2"} THEN {pid2} ELSE {})

WaitInv == Foreground \subseteq Awaited /\ (spc = "prepare" => Children = {})

-----------------------------------------------------------------------------
(* What a step does to the processes.                                      *)

RoleAt == [fork1 |-> "first", fork2 |-> "second", redirect |-> "redirect",
           background |-> "background", fork |-> "foreground"]

NewChild(role, prog) ==
  [Free EXCEPT !.status = "forked", !.role = role, !.prog = prog, !.disp = "handler",
               !.ends = ends]

\* The shell forks p, whose id was free.
Forked(p) ==
  /\ spc \in Forks /\ Is(p, "free")
  /\ \E prog \in Programs :
       proc' = [proc EXCEPT ![p] = NewChild(RoleAt[spc], prog)]

\* p is now status, for the same line.
Becomes(p, status) ==
  proc'[p] \in Process /\ proc'[p].status = status /\ proc'[p].role = proc[p].role

\* As before it holds these ends of the pipe, and has or has not been sent a SIGINT.
Same(p) ==
  proc'[p].ends = proc[p].ends /\ proc'[p].interrupted = proc[p].interrupted

Dies(p) ==
  /\ p \in Children
  /\ \/ spc = "ended" /\ proc'[p] = Free
     \/ /\ spc # "ended" /\ Becomes(p, "zombie")
        /\ proc'[p].ends = {} /\ ~proc'[p].interrupted

Unmasks(p) ==
  /\ Is(p, "forked") /\ Restored(p)
  /\ Becomes(p, "restored")
  /\ proc'[p].ends = proc[p].ends \ Closed(p)
  /\ proc'[p].interrupted = proc[p].interrupted
  /\ proc[p].pending => proc'[p].disp = "ignore"

Executes(p) ==
  /\ ReadyToRun(p)
  /\ Becomes(p, "running") /\ Same(p)
  /\ proc[p].disp = "ignore" => proc'[p].disp = "ignore"

GivesUp(p) ==
  /\ ReadyToRun(p) /\ (InPipe(p) \/ proc[p].role = "redirect")
  /\ Becomes(p, "returned") /\ Same(p)

IsInterrupted(p) ==
  /\ Is(p, "forked")
  /\ Becomes(p, "forked")
  /\ proc'[p].ends = proc[p].ends
  /\ proc[p].role = "foreground" => proc'[p].pending

Moves(p) ==
  \/ proc'[p] = proc[p]
  \/ p \notin Children \ Zombies /\ proc'[p] \in {Free, Outsider}
  \/ Dies(p) \/ Unmasks(p) \/ Executes(p) \/ GivesUp(p) \/ IsInterrupted(p)

AllMove == proc' = [p \in Procs |-> proc'[p]] /\ \A p \in Procs : Moves(p)

\* The record of an id that no child of the shell has.
LEMMA FreeType ==
  /\ Free \in Process
  /\ Free.status = "free" /\ Free.ends = {} /\ ~Free.interrupted
  /\ Outsider \in Process
  /\ Outsider.status = "outsider" /\ Outsider.ends = {} /\ ~Outsider.interrupted
  BY DEF Outsider, Free, Process, Roles, Programs

\* What remains of a process that has ended.
LEMMA CorpseType ==
  ASSUME NEW r \in Process, NEW q, q = [Free EXCEPT !.status = "zombie", !.role = r.role]
  PROVE  /\ q \in Process
         /\ q.status = "zombie" /\ q.role = r.role /\ q.ends = {} /\ ~q.interrupted
  BY FreeType DEF Process

\* A new child's record.
LEMMA ChildType ==
  ASSUME NEW role \in Roles, NEW prog \in Programs, ends \in SUBSET {"r", "w"}
  PROVE  /\ NewChild(role, prog) \in Process
         /\ NewChild(role, prog).status = "forked"
         /\ NewChild(role, prog).role = role
         /\ NewChild(role, prog).ends = ends
         /\ ~NewChild(role, prog).interrupted
  BY FreeType DEF NewChild, Process

\* What the shell forks is a program or missing (myshell.c:237, 264, 395, 420).
LEMMA WordType ==
  ASSUME NEW index
  PROVE  Word(index) \in Programs
  BY DEF Word, Prog, Programs

\* A process that exits dies.
LEMMA ExitDies ==
  ASSUME TypeOK, NEW p \in Children, proc'[p] = Dead(proc[p])
  PROVE  Dies(p)
<1>1. p \in Procs /\ proc[p] \in Process /\ proc[p].status # "outsider"
  BY DEF TypeOK, ProcsTypeOK, Children, Is
<1>2. CASE spc = "ended"
  BY <1>2 DEF Dead, Dies
<1>3. CASE spc # "ended"
  <2>1. proc'[p] = [Free EXCEPT !.status = "zombie", !.role = proc[p].role]
    BY <1>1, <1>3 DEF Dead
  <2> QED
    BY <1>1, <1>3, <2>1, CorpseType DEF Dies, Becomes
<1> QED
  BY <1>2, <1>3

\* The same, or it was somebody else's.
LEMMA ExitMoves ==
  ASSUME TypeOK, NEW p \in Procs, ~Is(p, "free"), Exit(p)
  PROVE  AllMove
<1>1. proc' = [q \in Procs |-> IF q = p THEN Dead(proc[p]) ELSE proc[q]]
  BY DEF Exit, TypeOK, ProcsTypeOK
<1>2. CASE Is(p, "outsider")
  BY <1>1, <1>2 DEF Dead, Children, Is, Moves, AllMove
<1>3. CASE ~Is(p, "outsider")
  <2>1. p \in Children
    BY <1>3 DEF Children
  <2>2. Dies(p)
    BY <1>1, <2>1, ExitDies
  <2> QED
    BY <1>1, <2>2 DEF Moves, AllMove
<1> QED
  BY <1>2, <1>3

\* One step of a child is one move of that process.
LEMMA ChildMoves ==
  ASSUME TypeOK, NEW p \in Procs, ChildStep(p)
  PROVE  /\ proc' = [proc EXCEPT ![p] = proc'[p]]
         /\ Moves(p)
<1>0. proc \in [Procs -> Process] /\ proc[p] \in Process
  BY DEF TypeOK, ProcsTypeOK
<1>1. ASSUME Exit(p), p \in Children PROVE proc' = [proc EXCEPT ![p] = proc'[p]] /\ Dies(p)
  BY <1>0, <1>1, ExitDies DEF Exit
<1>2. CASE RestartSigint(p)
  <2>1. CASE Exit(p)
    BY <1>1, <1>2, <2>1 DEF RestartSigint, Moves, Children, Is
  <2>2. CASE ~Exit(p)
    <3> DEFINE New(disp) == [proc[p] EXCEPT !.status = "restored", !.disp = disp,
                                            !.pending = FALSE, !.ends = @ \ Closed(p)]
    <3>1. PICK disp \in {"default", "ignore", "wild"} :
            /\ proc[p].pending => disp = "ignore"
            /\ proc' = [proc EXCEPT ![p].status = "restored", ![p].disp = disp,
                                    ![p].pending = FALSE, ![p].ends = @ \ Closed(p)]
      BY <1>2, <2>2 DEF RestartSigint
    <3>2. proc' = [proc EXCEPT ![p] = New(disp)]
      BY <1>0, <3>1
    <3>3. /\ New(disp) \in Process
          /\ New(disp).status = "restored" /\ New(disp).role = proc[p].role
          /\ New(disp).ends = proc[p].ends \ Closed(p)
          /\ New(disp).interrupted = proc[p].interrupted
          /\ New(disp).disp = disp
      BY <1>0 DEF Process
    <3> HIDE DEF New
    <3>4. Unmasks(p)
      BY <1>0, <1>2, <3>1, <3>2, <3>3 DEF RestartSigint, Unmasks, Becomes
    <3> QED
      BY <1>0, <3>2, <3>4 DEF Moves
  <2> QED
    BY <2>1, <2>2
<1>3. CASE DupFails(p)
  <2> DEFINE new == [proc[p] EXCEPT !.status = "returned"]
  <2>1. proc' = [proc EXCEPT ![p] = new]
    BY <1>0, <1>3 DEF DupFails
  <2>2. /\ new \in Process
        /\ new.status = "returned" /\ new.role = proc[p].role
        /\ new.ends = proc[p].ends /\ new.interrupted = proc[p].interrupted
    BY <1>0 DEF Process
  <2> HIDE DEF new
  <2> QED
    BY <1>0, <1>3, <2>1, <2>2 DEF DupFails, Moves, GivesUp, Becomes, Same
<1>4. CASE Exec(p)
  <2> DEFINE new == [proc[p] EXCEPT !.status = "running",
                                    !.disp = IF @ = "ignore" THEN @ ELSE "default"]
  <2>1. proc' = [proc EXCEPT ![p] = new]
    BY <1>0, <1>4 DEF Exec
  <2>2. /\ new \in Process
        /\ new.status = "running" /\ new.role = proc[p].role
        /\ new.ends = proc[p].ends /\ new.interrupted = proc[p].interrupted
        /\ proc[p].disp = "ignore" => new.disp = "ignore"
    BY <1>0 DEF Process
  <2> HIDE DEF new
  <2> QED
    BY <1>0, <1>4, <2>1, <2>2 DEF Exec, Moves, Executes, Becomes, Same
<1>5. CASE ReturnToLoop(p) \/ ExecFails(p) \/ Ends(p)
  <2>1. Exit(p) /\ p \in Children
    BY <1>5 DEF ReturnToLoop, ExecFails, ReadyToRun, Ends, Children, Is
  <2> QED
    BY <1>1, <2>1 DEF Moves
<1> QED
  BY <1>2, <1>3, <1>4, <1>5 DEF ChildStep

\* A SIGINT moves every process at once.
LEMMA InterruptMoves ==
  ASSUME TypeOK, Interrupt
  PROVE  AllMove
<1>1. /\ proc' = [p \in Procs |-> proc'[p]]
      /\ \A p \in Procs : proc'[p] \in AfterSigint(p)
  BY DEF Interrupt
<1>2. ASSUME NEW p \in Procs PROVE Moves(p)
  <2>0. proc[p] \in Process
    BY DEF TypeOK, ProcsTypeOK
  <2>1. CASE Is(p, "forked")
    <3> DEFINE New(held) == [proc[p] EXCEPT !.interrupted = TRUE, !.pending = @ \/ held]
    <3>1. PICK held \in Masked(proc[p].role) : proc'[p] = New(held)
      BY <1>1, <2>1 DEF AfterSigint, Is
    <3>2. held \in BOOLEAN /\ (proc[p].role = "foreground" => held)
      BY DEF Masked
    <3>3. /\ New(held) \in Process
          /\ New(held).status = proc[p].status /\ New(held).role = proc[p].role
          /\ New(held).ends = proc[p].ends
          /\ held => New(held).pending
      BY <2>0, <3>2 DEF Process
    <3> HIDE DEF New
    <3> QED
      BY <2>1, <3>1, <3>2, <3>3 DEF Moves, IsInterrupted, Becomes, Is
  <2>2. CASE ~Is(p, "forked")
    <3>1. proc'[p] = proc[p] \/ (p \in Children /\ proc'[p] = Dead(proc[p]))
      BY <1>1, <2>2 DEF AfterSigint, Children, Is
    <3> QED
      BY <3>1, ExitDies DEF Moves
  <2> QED
    BY <2>1, <2>2
<1> QED
  BY <1>1, <1>2 DEF AllMove

\* A step of the shell that takes S out of the table moves those in it.
LEMMA ReapedMoves ==
  ASSUME TypeOK, NEW S \in SUBSET Procs, proc' = Reaped(S),
         S \subseteq Zombies
  PROVE  AllMove
  BY DEF Zombies, Reaped, AllMove, Moves, TypeOK, ProcsTypeOK

\* fork, called with the role and the program of its place in the code.
LEMMA ForkMakesChild ==
  ASSUME TypeOK, NEW p \in Procs, NEW index,
         spc \in Forks, Fork(p, RoleAt[spc], Word(index)) \/ Fork(p, RoleAt[spc], "missing")
  PROVE  Forked(p)
<1>1. "missing" \in Programs /\ Word(index) \in Programs
  BY WordType DEF Programs
<1>2. PICK prog \in Programs : Fork(p, RoleAt[spc], prog)
  BY <1>1
<1> QED
  BY <1>2 DEF Fork, Forked, NewChild

Fork5 == ForkFirst \/ ForkSecond \/ ForkRedirect \/ ForkBackground \/ ForkForeground

\* Where the shell goes, and where it keeps the id of its child.
Remembers(p) ==
  \/ spc = "background" /\ spc' = "prompt"
  \/ spc = "fork2" /\ spc' = "close" /\ pid1' = pid1 /\ pid2' = p
  \/ spc = "fork1" /\ spc' = "fork2" /\ pid1' = p
  \/ spc = "redirect" /\ spc' = "redirect_wait" /\ pid1' = p
  \/ spc = "fork" /\ spc' = "unblock" /\ pid1' = p

\* Each of the five calls of fork makes one child of its role.
LEMMA ForkSteps ==
  ASSUME TypeOK, Fork5
  PROVE  \E p \in Procs : Forked(p) /\ Remembers(p)
<1> USE DEF RoleAt, Forks, At, Remembers
<1>1. CASE ForkFirst
  <2>1. PICK p \in Procs : Fork(p, "first", Word(0)) /\ pid1' = p
    BY <1>1 DEF ForkFirst
  <2> QED
    BY <1>1, <2>1, ForkMakesChild DEF ForkFirst
<1>2. CASE ForkSecond
  <2>1. PICK p \in Procs : Fork(p, "second", Word(pipe_position + 1)) /\ pid2' = p
    BY <1>2 DEF ForkSecond
  <2> QED
    BY <1>2, <2>1, ForkMakesChild DEF ForkSecond
<1>3. CASE ForkRedirect
  <2>1. PICK p \in Procs : /\ Fork(p, "redirect", Word(0)) \/ Fork(p, "redirect", "missing")
                           /\ pid1' = p
    BY <1>3 DEF ForkRedirect
  <2> QED
    BY <1>3, <2>1, ForkMakesChild DEF ForkRedirect
<1>4. CASE ForkBackground
  <2>1. PICK p \in Procs : Fork(p, "background", Word(0))
    BY <1>4 DEF ForkBackground
  <2> QED
    BY <1>4, <2>1, ForkMakesChild DEF ForkBackground, Prompt
<1>5. CASE ForkForeground
  <2>1. PICK p \in Procs : Fork(p, "foreground", Word(0)) /\ pid1' = p
    BY <1>5 DEF ForkForeground
  <2> QED
    BY <1>5, <2>1, ForkMakesChild DEF ForkForeground
<1> QED
  BY <1>1, <1>2, <1>3, <1>4, <1>5 DEF Fork5

Waits == WaitFirst \/ WaitSecond \/ WaitRedirect \/ WaitForeground

\* Every step calls fork, or moves any number of processes.
LEMMA OthersMove ==
  ASSUME TypeOK, [Next]_vars, ~Fork5
  PROVE  AllMove
<1> USE DEF TypeOK
<1>2. CASE Waits
  <2>1. PICK p \in Procs : WaitFor(p)
    BY <1>2 DEF Waits, At, WaitFirst, WaitSecond, WaitRedirect, WaitForeground
  <2> QED
    BY <2>1, ReapedMoves DEF WaitFor, Zombies
<1>3. CASE CallFails \/ BadPosition \/ EndOfInput \/ child_handler
  <2>1. proc' = Reaped(Zombies)
    BY <1>3 DEF CallFails, OnFailure, BadPosition, EndOfInput, Stop, child_handler
  <2> QED
    BY <2>1, ReapedMoves DEF Zombies
<1>4. CASE WaitAll
  <2>1. \/ UNCHANGED proc
        \/ \E p \in Zombies : proc' = Reaped({p})
    BY <1>4 DEF WaitAll
  <2>2. ASSUME NEW p \in Zombies, proc' = Reaped({p}) PROVE AllMove
    BY <2>2, ReapedMoves DEF Zombies
  <2> QED
    BY <2>1, <2>2 DEF AllMove, Moves, ProcsTypeOK
<1>5. CASE Kill
  <2>1. CASE UNCHANGED proc
    BY <2>1 DEF AllMove, Moves, ProcsTypeOK
  <2>2. CASE ~Is(pid1, "free") /\ Exit(pid1) /\ pid1 \in Procs
    BY <2>2, ExitMoves
  <2> QED
    BY <1>5, <2>1, <2>2 DEF Kill, At
<1>6. ASSUME NEW p \in Procs, Child(p) PROVE AllMove
  <2>1. proc' = [proc EXCEPT ![p] = proc'[p]] /\ Moves(p)
    BY <1>6, ChildMoves DEF Child
  <2> QED
    BY <2>1 DEF AllMove, Moves, ProcsTypeOK
<1>7. CASE Sigint
  BY <1>7, InterruptMoves DEF Sigint
<1>8. CASE prepare \/ (\E list \in Lines : ReadLine(list)) \/ MakePipe \/ ClosePipe
           \/ Unblock \/ UNCHANGED vars
  BY <1>8 DEF prepare, ReadLine, MakePipe, ClosePipe, Unblock, vars, kernel, AllMove, Moves,
              ProcsTypeOK
<1>9. ASSUME NEW p \in Procs, Others(p) PROVE AllMove
  <2>1. CASE Is(p, "free") /\ proc' = [proc EXCEPT ![p] = Outsider]
    BY <2>1 DEF AllMove, Moves, ProcsTypeOK, Children, Is
  <2>2. CASE Is(p, "outsider") /\ Exit(p)
    BY <2>2, ExitMoves DEF Is
  <2> QED
    BY <1>9, <2>1, <2>2 DEF Others, OthersStep
<1> QED
  BY <1>2, <1>3, <1>4, <1>5, <1>6, <1>7, <1>8, <1>9
  DEF Next, ShellStep, Fork5, Waits

Background == {p \in Children : proc[p].role = "background"}

\* Nobody new; those in S have been waited for, or have left with the shell.
Without(S) ==
  /\ Children' = Children \ S
  /\ Foreground' = Foreground \ S
  /\ Background' = Background \ S

\* A move makes nobody a child, and leaves a child its role.
LEMMA MoveSets ==
  ASSUME AllMove
  PROVE  Without({p \in Procs : proc'[p].status \in {"free", "outsider"}})
<1>1. ASSUME NEW p \in Procs
      PROVE  /\ p \notin Children => proc'[p].status \in {"free", "outsider"}
             /\ proc'[p].status \notin {"free", "outsider"} => proc'[p].role = proc[p].role
  <2>1. Moves(p)
    BY DEF AllMove
  <2> QED
    BY <2>1, FreeType
    DEF Moves, Dies, Unmasks, Executes, GivesUp, IsInterrupted, ReadyToRun, Becomes, Children, Is
<1> QED
  BY <1>1 DEF Without, Children, Foreground, Background, Is

\* waitpid takes the child out.
LEMMA WaitedFor ==
  ASSUME TypeOK, NEW p \in Procs, WaitFor(p)
  PROVE  AllMove /\ p \notin Children'
<1>1. proc' = Reaped({p} \cap Zombies) /\ p \notin Children \ Zombies
  BY DEF WaitFor
<1> QED
  BY <1>1, FreeType, ReapedMoves DEF Reaped, Children, Zombies, Is

\* A step calls fork, which makes one child, or moves any number of processes
\* (myshell.c:203-460).
LEMMA ForksOrMoves ==
  ASSUME TypeOK, [Next]_vars
  PROVE  (\E p \in Procs : Forked(p)) \/ AllMove
  BY ForkSteps, OthersMove

-----------------------------------------------------------------------------
(* Types.                                                                  *)

\* A move keeps a process of its type.
LEMMA MoveTypes ==
  ASSUME TypeOK, NEW p \in Procs, Moves(p)
  PROVE  proc'[p] \in Process
  BY FreeType
  DEF Moves, Dies, Unmasks, Executes, GivesUp, IsInterrupted, Becomes,
      TypeOK, ProcsTypeOK, Is

\* Whatever a move makes of a process is a process.
LEMMA ProcTypes ==
  ASSUME TypeOK, [Next]_vars
  PROVE  proc' \in [Procs -> Process]
<1>1. CASE AllMove
  <2>1. \A p \in Procs : proc'[p] \in Process
    BY <1>1, MoveTypes DEF AllMove
  <2> QED
    BY <1>1, <2>1 DEF AllMove, Is
<1>2. ASSUME NEW p \in Procs, Forked(p)
      PROVE  proc' \in [Procs -> Process]
  <2>1. PICK prog \in Programs : proc' = [proc EXCEPT ![p] = NewChild(RoleAt[spc], prog)]
    BY <1>2 DEF Forked
  <2>2. RoleAt[spc] \in Roles /\ ends \in SUBSET {"r", "w"}
    BY <1>2 DEF Forked, Forks, RoleAt, Roles, TypeOK
  <2>3. /\ NewChild(RoleAt[spc], prog) \in Process
        /\ NewChild(RoleAt[spc], prog).status = "forked"
    BY <2>2, ChildType
  <2> QED
    BY <2>1, <2>3 DEF TypeOK, ProcsTypeOK, Is
<1> QED
  BY <1>1, <1>2, ForksOrMoves

\* A line is run in one of four ways.
LEMMA BeginLabels ==
  ASSUME NEW list
  PROVE  Begin(list) \in {"pipe", "redirect", "background", "fork"}
<1>1. CASE obtain_position(list, "|") # 0
  BY <1>1 DEF Begin
<1>2. CASE obtain_position(list, "|") = 0 /\ obtain_position(list, ">") # 0
  BY <1>2 DEF Begin
<1>3. CASE obtain_position(list, "|") = 0 /\ obtain_position(list, ">") = 0
  BY <1>3 DEF Begin
<1> QED
  BY <1>1, <1>2, <1>3

\* Every value the shell and the kernel keep is of its type; a process id is
\* there when it is waited for (shell.c:16-67, myshell.c:203-287, 406-460).
THEOREM TypeCorrect == Spec => []TypeOK
<1>1. Init => TypeOK
  <2> SUFFICES ASSUME Init PROVE TypeOK
    OBVIOUS
  <2>1. proc \in [Procs -> Process] /\ sigints \in 0..MaxSigint
    BY FreeType, LimitsAssumption DEF Init
  <2> QED
    BY <2>1 DEF Init, TypeOK, ProcsTypeOK
<1>2. ASSUME TypeOK, [Next]_vars PROVE TypeOK'
  <2>0. proc' \in [Procs -> Process]
    BY <1>2, ProcTypes
  <2> USE LimitsAssumption, <1>2, <2>0 DEF TypeOK, ProcsTypeOK, At, kernel, local, Forks
  <2>2. CASE Fork5
    BY <2>2 DEF Fork5, ForkFirst, ForkSecond, ForkRedirect, ForkBackground, ForkForeground,
                Prompt
  <2>3. CASE Waits
    BY <2>3 DEF Waits, WaitFirst, WaitSecond, WaitRedirect, WaitForeground, WaitFor, Prompt
  <2>4. CASE CallFails \/ BadPosition \/ EndOfInput
    BY <2>4 DEF CallFails, OnFailure, BadPosition, EndOfInput, Stop
  <2>5. CASE child_handler \/ Kill \/ WaitAll
    BY <2>5 DEF child_handler, Resume, Kill, WaitAll, Prompt
  <2>6. ASSUME NEW p \in Procs, Child(p) \/ Others(p) PROVE TypeOK'
    BY <2>6 DEF Child, ChildStep, RestartSigint, DupFails, ReturnToLoop, Exec, ExecFails, Ends,
                Others, OthersStep
  <2>7. CASE Sigint
    <3>1. sigints' \in 0..MaxSigint
      BY <2>7 DEF Sigint, Interrupt
    <3>2. spc' \in {spc, "ended"} /\ sigint' \in BOOLEAN /\ UNCHANGED <<ends, local>>
      BY <2>7 DEF Sigint
    <3> QED
      BY <3>1, <3>2
  <2>8. ASSUME NEW list \in Lines, ReadLine(list) PROVE TypeOK'
    <3>1. Begin(list) \in {"pipe", "redirect", "background", "fork"}
      BY BeginLabels
    <3>2. /\ arglist' = list /\ spc' = Begin(list)
          /\ UNCHANGED <<ends, sigint, kernel, pid1, pid2>>
      BY <2>8 DEF ReadLine
    <3> QED
      BY <3>1, <3>2
  <2>9. CASE prepare \/ MakePipe \/ ClosePipe \/ Unblock \/ UNCHANGED vars
    BY <2>9 DEF prepare, MakePipe, ClosePipe, AfterClose, Unblock, vars
  <2> QED
    BY <2>2, <2>3, <2>4, <2>5, <2>6, <2>7, <2>8, <2>9 DEF Next, ShellStep, Fork5, Waits
<1> QED
  BY <1>1, <1>2, PTL DEF Spec

-----------------------------------------------------------------------------
(* Signals.                                                                *)

\* The shell comes to the kill from the wait for the command, and stays there
\* while others move.
LEMMA StepsToKill ==
  ASSUME TypeOK, [Next]_vars, spc' = "kill"
  PROVE  WaitForeground \/ (spc = "kill" /\ pid1' = pid1)
<1> USE DEF At, local
<1>1. ~Fork5
  BY DEF Fork5, ForkFirst, ForkSecond, ForkRedirect, ForkBackground, ForkForeground, Prompt
<1>2. ~(WaitFirst \/ WaitSecond \/ WaitRedirect)
  BY DEF WaitFirst, WaitSecond, WaitRedirect, Prompt
<1>3. ~(CallFails \/ BadPosition \/ EndOfInput \/ Kill \/ prepare \/ MakePipe \/ ClosePipe \/ Unblock)
  BY DEF CallFails, OnFailure, BadPosition, EndOfInput, Stop, Kill, prepare, MakePipe,
         ClosePipe, Unblock
<1>4. ASSUME NEW list PROVE ~ReadLine(list)
  BY BeginLabels DEF ReadLine
<1>5. ASSUME child_handler \/ WaitAll \/ Sigint \/ (\E p \in Procs : Child(p) \/ Others(p)) \/ UNCHANGED vars
      PROVE  spc = "kill" /\ pid1' = pid1
  BY <1>5 DEF child_handler, Resume, WaitAll, Prompt, Sigint, Child, Others, vars
<1> QED
  BY <1>1, <1>2, <1>3, <1>4, <1>5 DEF Next, ShellStep, Fork5

\* The SIGTERM after a foreground command is sent to none of the shell's
\* children: the wait for the command ends only when it has ended, and nothing
\* is forked before the SIGTERM (myshell.c:89, 132, 444-449).
THEOREM TermHitsNoChild == Spec => []TermSparesChildren
<1>1. Init => TermSparesChildren
  BY DEF Init, TermSparesChildren
<1>2. ASSUME TypeOK, TermSparesChildren, [Next]_vars PROVE TermSparesChildren'
  <2> SUFFICES ASSUME spc' = "kill" PROVE pid1' \notin Children'
    BY DEF TermSparesChildren
  <2>1. CASE WaitForeground
    <3>1. pid1' = pid1 /\ pid1 \in Procs /\ WaitFor(pid1)
      BY <1>2, <2>1 DEF WaitForeground, At, local, TypeOK
    <3> QED
      BY <1>2, <3>1, WaitedFor
  <2>2. CASE spc = "kill" /\ pid1' = pid1
    <3>1. pid1 \notin Children
      BY <1>2, <2>2 DEF TermSparesChildren
    <3>2. AllMove
      BY <1>2, <2>2, ForksOrMoves DEF Forked, Forks
    <3>3. Children' \subseteq Children
      BY <3>2, MoveSets DEF Without
    <3> QED
      BY <2>2, <3>1, <3>3
  <2> QED
    BY <1>2, <2>1, <2>2, StepsToKill
<1> QED
  BY <1>1, <1>2, TypeCorrect, PTL DEF Spec

\* A SIGINT sent after the fork of a foreground command is not swallowed by the
\* handler the child has inherited (myshell.c:393-395, 430-439).
THEOREM InterruptNotSwallowed == Spec => []InterruptReachesCommand
<1>1. Init => InterruptInv
  BY FreeType DEF Init, InterruptInv
<1>2. ASSUME TypeOK, InterruptInv, [Next]_vars PROVE InterruptInv'
  <2>1. CASE AllMove
    <3> SUFFICES ASSUME NEW p \in Procs,
                        proc'[p].role = "foreground", proc'[p].interrupted
                 PROVE  IF proc'[p].status = "forked" THEN proc'[p].pending
                        ELSE proc'[p].status \in {"restored", "running"} =>
                               proc'[p].disp = "ignore"
      BY DEF InterruptInv, Is
    <3>1. Moves(p)
      BY <2>1 DEF AllMove
    <3> QED
      BY <1>2, <3>1, FreeType
      DEF Moves, Dies, Unmasks, Executes, GivesUp, IsInterrupted, ReadyToRun, Restored,
          Becomes, Same, InterruptInv, Is
  <2>2. ASSUME NEW p \in Procs, Forked(p) PROVE InterruptInv'
    <3>1. PICK prog \in Programs : proc' = [proc EXCEPT ![p] = NewChild(RoleAt[spc], prog)]
      BY <2>2 DEF Forked
    <3>2. ~NewChild(RoleAt[spc], prog).interrupted
      BY <1>2, <2>2, ChildType DEF Forked, Forks, RoleAt, Roles, TypeOK
    <3> QED
      BY <1>2, <3>1, <3>2 DEF InterruptInv, Is, TypeOK, ProcsTypeOK
  <2> QED
    BY <1>2, <2>1, <2>2, ForksOrMoves
<1>3. InterruptInv => InterruptReachesCommand
  BY DEF InterruptInv, InterruptReachesCommand, Is
<1> QED
  BY <1>1, <1>2, <1>3, TypeCorrect, PTL DEF Spec

-----------------------------------------------------------------------------
(* The pipe.                                                               *)

\* The shell has the ends of a pipe from pipe to its two calls of close.
LEMMA ShellEnds ==
  ASSUME TypeOK, EndsOfShell, [Next]_vars
  PROVE  EndsOfShell'
<1> USE DEF EndsOfShell, At, local, kernel
<1>1. CASE Fork5
  BY <1>1 DEF Fork5, ForkFirst, ForkSecond, ForkRedirect, ForkBackground, ForkForeground, Prompt
<1>2. CASE Waits
  BY <1>2 DEF Waits, WaitFirst, WaitSecond, WaitRedirect, WaitForeground, WaitFor, Prompt
<1>3. CASE CallFails \/ BadPosition \/ EndOfInput
  BY <1>3 DEF CallFails, OnFailure, BadPosition, EndOfInput, Stop
<1>4. CASE child_handler \/ Kill \/ WaitAll
  BY <1>4 DEF child_handler, Resume, Kill, WaitAll, Prompt
<1>5. CASE Sigint \/ (\E p \in Procs : Child(p) \/ Others(p)) \/ UNCHANGED vars
  BY <1>5 DEF Sigint, Child, Others, vars
<1>6. ASSUME NEW list, ReadLine(list) PROVE EndsOfShell'
  <2>1. Begin(list) \notin {"fork1", "fork2", "close"}
    BY BeginLabels
  <2> QED
    BY <1>6, <2>1 DEF ReadLine
<1>7. CASE prepare \/ MakePipe \/ ClosePipe \/ Unblock
  BY <1>7 DEF prepare, MakePipe, ClosePipe, AfterClose, Unblock
<1> QED
  BY <1>1, <1>2, <1>3, <1>4, <1>5, <1>6, <1>7 DEF Next, ShellStep, Fork5, Waits

\* Once its children have closed what they do not use, a pipe has a writer and
\* a reader exactly as long as these children live (myshell.c:190-196, 228-270).
THEOREM PipeEnds == Spec => []PipeEndsWithItsPrograms
<1>1. Init => EndsInv
  BY FreeType DEF Init, EndsInv, EndsOfShell, EndsOf
<1>2. ASSUME TypeOK, EndsInv, [Next]_vars PROVE EndsInv'
  <2>1. EndsOfShell'
    BY <1>2, ShellEnds DEF EndsInv
  <2>2. CASE AllMove
    <3>1. ASSUME NEW p \in Procs PROVE proc'[p].ends = EndsOf(proc'[p])
      <4>1. Moves(p) /\ proc[p].ends = EndsOf(proc[p])
        BY <1>2, <2>2 DEF AllMove, EndsInv, TypeOK
      <4>2. CASE proc'[p] = proc[p]
        BY <4>1, <4>2
      <4>3. CASE proc'[p] \in {Free, Outsider} \/ Dies(p)
        BY <4>3, FreeType DEF EndsOf, Dies, Becomes
      <4>4. CASE Unmasks(p)
        BY <4>1, <4>4 DEF EndsOf, Unmasks, Becomes, Closed, Is
      <4>5. CASE Executes(p) \/ GivesUp(p)
        BY <4>1, <4>5 DEF EndsOf, Executes, GivesUp, ReadyToRun, Restored, Becomes, Same, Is
      <4>6. CASE IsInterrupted(p)
        BY <4>1, <4>6 DEF EndsOf, IsInterrupted, Becomes, Is
      <4> QED
        BY <4>1, <4>2, <4>3, <4>4, <4>5, <4>6 DEF Moves
    <3> QED
      BY <2>1, <3>1 DEF EndsInv
  <2>3. ASSUME NEW p \in Procs, Forked(p) PROVE EndsInv'
    <3> DEFINE role == RoleAt[spc]
    <3>1. PICK prog \in Programs : proc' = [proc EXCEPT ![p] = NewChild(role, prog)]
      BY <2>3 DEF Forked
    <3>2. /\ role \in Roles
          /\ ends = IF role \in {"first", "second"} THEN {"r", "w"} ELSE {}
      BY <1>2, <2>3 DEF Forked, Forks, RoleAt, Roles, EndsInv, EndsOfShell
    <3>3. /\ NewChild(role, prog).status = "forked"
          /\ NewChild(role, prog).role = role
          /\ NewChild(role, prog).ends = ends
      BY <1>2, <3>2, ChildType DEF TypeOK
    <3>4. NewChild(role, prog).ends = EndsOf(NewChild(role, prog))
      BY <3>2, <3>3 DEF EndsOf
    <3> HIDE DEF role
    <3> QED
      BY <1>2, <2>1, <3>1, <3>4 DEF EndsInv, TypeOK, ProcsTypeOK
  <2> QED
    BY <1>2, <2>2, <2>3, ForksOrMoves
<1>3. ASSUME TypeOK, EndsInv PROVE PipeEndsWithItsPrograms
  <2> SUFFICES ASSUME spc \notin {"fork1", "fork2", "close"},
                      \A p \in Procs : Is(p, "forked") => ~InPipe(p)
               PROVE  /\ Held("w") <=> \E p \in Procs : proc[p].role = "first" /\ Alive(p)
                      /\ Held("r") <=> \E p \in Procs : proc[p].role = "second" /\ Alive(p)
    BY DEF PipeEndsWithItsPrograms
  <2>1. ends = {}
    BY <1>3 DEF EndsInv, EndsOfShell
  <2>2. ASSUME NEW p \in Procs
        PROVE  /\ "w" \in proc[p].ends <=> proc[p].role = "first" /\ Alive(p)
               /\ "r" \in proc[p].ends <=> proc[p].role = "second" /\ Alive(p)
    BY <1>3 DEF EndsInv, EndsOf, Alive, Children, Zombies, Is, InPipe
  <2> QED
    BY <2>1, <2>2 DEF Held
<1> QED
  BY <1>1, <1>2, <1>3, TypeCorrect, PTL DEF Spec

-----------------------------------------------------------------------------
(* The abstract command runner.                                            *)

\* fork adds one child, to those in the background or to the others.
LEMMA ForkSets ==
  ASSUME TypeOK, NEW p \in Procs, Forked(p)
  PROVE  /\ p \notin Children
         /\ spc = "background" => /\ Foreground' = Foreground
                                  /\ Background' = Background \cup {p}
         /\ spc # "background" => /\ Foreground' = Foreground \cup {p}
                                  /\ Background' = Background
<1>1. PICK prog \in Programs : proc' = [proc EXCEPT ![p] = NewChild(RoleAt[spc], prog)]
  BY DEF Forked
<1>2. /\ NewChild(RoleAt[spc], prog).status = "forked"
      /\ NewChild(RoleAt[spc], prog).role = RoleAt[spc]
  <2>1. RoleAt[spc] \in Roles
    BY DEF Forked, Forks, RoleAt, Roles
  <2> HIDE DEF RoleAt
  <2> QED
    BY <2>1, ChildType DEF TypeOK
<1>3. RoleAt[spc] = "background" <=> spc = "background"
  BY DEF Forked, Forks, RoleAt
<1>4. /\ proc'[p].status = "forked" /\ proc'[p].role = RoleAt[spc]
      /\ \A q \in Procs \ {p} : proc'[q] = proc[q]
      /\ proc[p].status = "free"
  BY <1>1, <1>2 DEF Forked, Is, TypeOK, ProcsTypeOK
<1> QED
  BY <1>3, <1>4 DEF Children, Foreground, Background, Is

\* The shell waits for every child of a line, but those in the background,
\* before it reads the next one (myshell.c:275-287, 353-364, 444-460).
LEMMA WaitInvariant == Spec => []WaitInv
<1>1. Init => WaitInv
  BY FreeType DEF Init, WaitInv, Foreground, Children, Is
<1>2. ASSUME TypeOK, WaitInv, [Next]_vars PROVE WaitInv'
  <2> USE <1>2 DEF WaitInv, At, local, kernel
  <2>1. CASE Fork5
    <3>1. PICK p \in Procs : Forked(p) /\ Remembers(p)
      BY <2>1, ForkSteps
    <3>2. spc = "background" => Foreground' = Foreground
      BY <3>1, ForkSets
    <3>3. spc # "background" => Foreground' = Foreground \cup {p}
      BY <3>1, ForkSets
    <3> QED
      BY <3>1, <3>2, <3>3 DEF Remembers, Awaited
  <2>2. ASSUME NEW p \in Procs, WaitFor(p),
               \/ p = pid1 /\ (WaitFirst \/ WaitRedirect \/ WaitForeground)
               \/ p = pid2 /\ WaitSecond
        PROVE  WaitInv'
    <3>1. Foreground' \subseteq Foreground \ {p}
      BY <2>2, WaitedFor, MoveSets DEF Without, Foreground
    <3> QED
      BY <2>2, <3>1
      DEF WaitFirst, WaitSecond, WaitRedirect, WaitForeground, Prompt, Awaited
  <2>3. ASSUME AllMove, ~Waits, ~Fork5 PROVE WaitInv'
    <3>1. Foreground' \subseteq Foreground /\ Children' \subseteq Children
      BY <2>3, MoveSets DEF Without
    <3>2. CASE CallFails \/ BadPosition \/ EndOfInput
      <4>1. spc' = "ended"
        BY <3>2 DEF CallFails, OnFailure, BadPosition, EndOfInput, Stop
      <4> QED
        BY <4>1 DEF Awaited, Foreground, Children
    <3>3. CASE prepare \/ (\E list \in Lines : ReadLine(list)) \/ MakePipe
      <4>1. Foreground = {} /\ spc' # "prepare"
        BY <3>3, BeginLabels DEF prepare, ReadLine, MakePipe, Awaited
      <4> QED
        BY <3>1, <4>1
    <3>4. CASE ClosePipe \/ Unblock \/ Kill \/ WaitAll
      BY <3>1, <3>4 DEF ClosePipe, Unblock, Kill, WaitAll, Prompt, Awaited
    <3>5. CASE child_handler \/ (\E p \in Procs : Child(p) \/ Others(p)) \/ UNCHANGED vars
      <4>1. UNCHANGED <<spc, pid1, pid2>>
        BY <3>5 DEF child_handler, Resume, Child, Others, vars
      <4> QED
        BY <3>1, <4>1 DEF Awaited
    <3>6. CASE Sigint
      <4>1. UNCHANGED <<pid1, pid2>> /\ (spc' = spc \/ spc' = "ended")
        BY <3>6 DEF Sigint
      <4> QED
        BY <3>1, <4>1 DEF Awaited, Foreground, Children
    <3> QED
      BY <2>3, <3>2, <3>3, <3>4, <3>5, <3>6 DEF Next, ShellStep, Waits, Fork5
  <2>4. CASE Waits
    <3>1. pid1 \in Procs \/ WaitSecond
      BY <2>4 DEF Waits, WaitFirst, WaitRedirect, WaitForeground, TypeOK
    <3>2. WaitSecond => pid2 \in Procs
      BY DEF WaitSecond, TypeOK
    <3> QED
      BY <2>2, <2>4, <3>1, <3>2
      DEF Waits, WaitFirst, WaitSecond, WaitRedirect, WaitForeground
  <2>5. ~Fork5 => AllMove
    BY OthersMove
  <2> QED
    BY <2>1, <2>3, <2>4, <2>5
<1> QED
  BY <1>1, <1>2, TypeCorrect, PTL DEF Spec

\* How far the shell is with its line, to the abstract runner.
State == IF spc = "ended" THEN "stopped" ELSE IF Busy THEN "busy" ELSE "ready"

\* The steps of the abstract runner that fork and wait.
RunnerForks(p) ==
  /\ State = "busy" /\ p \notin Foreground \cup Background
  /\ \/ Foreground' = Foreground \cup {p} /\ Background' = Background /\ State' = State
     \/ /\ Foreground = {} /\ Foreground' = Foreground
        /\ Background' = Background \cup {p} /\ State' = "ready"

RunnerWaits ==
  \/ State' = State
  \/ State = "busy" /\ Foreground' = {} /\ State' = "ready"
  \/ State # "stopped" /\ State' = "stopped"

\* Each call of fork makes one process of the line.
LEMMA ForkRefines ==
  ASSUME TypeOK, WaitInv, Fork5
  PROVE  \E p \in Procs : RunnerForks(p)
<1>1. PICK p \in Procs : Forked(p) /\ Remembers(p)
  BY ForkSteps
<1>2. p \notin Foreground \cup Background
  BY <1>1, ForkSets DEF Foreground, Background
<1>3. CASE spc = "background"
  <2>1. Foreground' = Foreground /\ Background' = Background \cup {p}
    BY <1>1, <1>3, ForkSets
  <2>2. State = "busy" /\ State' = "ready" /\ Foreground = {}
    BY <1>1, <1>3 DEF Remembers, State, Busy, WaitInv, Awaited
  <2> QED
    BY <1>2, <2>1, <2>2 DEF RunnerForks
<1>4. CASE spc # "background"
  <2>1. Foreground' = Foreground \cup {p} /\ Background' = Background
    BY <1>1, <1>4, ForkSets
  <2>2. State = "busy" /\ State' = "busy"
    BY <1>1, <1>4 DEF Remembers, State, Busy
  <2> QED
    BY <1>2, <2>1, <2>2 DEF RunnerForks
<1> QED
  BY <1>3, <1>4

\* No other step makes one; the shell asks for the next line when it has
\* waited for this one.
LEMMA OthersRefine ==
  ASSUME TypeOK, WaitInv', [Next]_vars, ~Fork5, ~(\E list \in Lines : ReadLine(list))
  PROVE  RunnerWaits
<1> USE DEF At, local, kernel
<1>1. CASE Waits \/ Kill \/ WaitAll
  <2>1. \/ spc' = "prompt"
        \/ spc' \notin {"prepare", "prompt", "ended"}
    BY <1>1 DEF Waits, WaitFirst, WaitSecond, WaitRedirect, WaitForeground, Kill, WaitAll, Prompt
  <2>2. State = "busy"
    BY <1>1 DEF Waits, WaitFirst, WaitSecond, WaitRedirect, WaitForeground, Kill, WaitAll,
                State, Busy
  <2>3. spc' = "prompt" => Foreground' = {}
    BY DEF WaitInv, Awaited
  <2> QED
    BY <2>1, <2>2, <2>3 DEF RunnerWaits, State, Busy
<1>2. CASE CallFails \/ BadPosition \/ EndOfInput
  BY <1>2 DEF CallFails, OnFailure, BadPosition, EndOfInput, Stop, Forks, RunnerWaits, State, Busy
<1>3. CASE prepare \/ MakePipe \/ ClosePipe \/ Unblock
  BY <1>3 DEF prepare, MakePipe, ClosePipe, Unblock, RunnerWaits, State, Busy
<1>4. CASE child_handler \/ (\E p \in Procs : Child(p) \/ Others(p)) \/ UNCHANGED vars
  BY <1>4 DEF child_handler, Resume, Child, Others, vars, RunnerWaits, State, Busy
<1>5. CASE Sigint
  BY <1>5 DEF Sigint, RunnerWaits, State, Busy
<1> QED
  BY <1>1, <1>2, <1>3, <1>4, <1>5 DEF Next, ShellStep, Fork5, Waits

\* The shell implements the abstract runner: it runs one line at a time, and
\* asks for the next only when every process of this one has been waited for,
\* but for those in the background (shell.c:52-56, myshell.c:203-460).
THEOREM Refinement == Spec => ImplementsRunner
<1> USE DEF Runner!absvars, State, Foreground, Background
<1>1. Init => Runner!AbsInit
  BY FreeType DEF Init, Runner!AbsInit, Busy, Children, Is
<1>2. ASSUME TypeOK, WaitInv, WaitInv', [Next]_vars
      PROVE  [Runner!AbsNext]_(Runner!absvars)
  <2> HIDE DEF State, Foreground, Background
  <2>1. CASE Fork5
    <3>1. PICK p \in Procs : RunnerForks(p)
      BY <1>2, <2>1, ForkRefines
    <3>2. Runner!Starts(p) \/ Runner!StartsInBackground(p)
      BY <3>1 DEF RunnerForks, State, Foreground, Background,
                  Runner!Starts, Runner!StartsInBackground
    <3> QED
      BY <3>2 DEF Runner!AbsNext
  <2>2. ASSUME NEW list \in Lines, ReadLine(list) PROVE Runner!ReadsLine
    <3>1. State = "ready" /\ State' = "busy"
      BY <2>2, BeginLabels DEF ReadLine, At, State, Busy
    <3>2. Foreground' = Foreground /\ Background' = Background
      BY <2>2 DEF ReadLine, kernel, Foreground, Background, Children, Is
    <3> QED
      BY <3>1, <3>2 DEF State, Foreground, Background, Runner!ReadsLine
  <2>3. ASSUME ~Fork5, ~(\E list \in Lines : ReadLine(list)) PROVE Runner!AbsNext
    <3> DEFINE S == {p \in Procs : proc'[p].status \in {"free", "outsider"}}
    <3>1. Foreground' = Foreground \ S /\ Background' = Background \ S
      BY <1>2, <2>3, OthersMove, MoveSets DEF Without
    <3>2. \E T \in SUBSET Procs : Runner!WaitsFor(T)
      BY <3>1 DEF Foreground, Background, Runner!WaitsFor
    <3>3. RunnerWaits
      BY <1>2, <2>3, OthersRefine
    <3>4. State' = State \/ Runner!Finishes \/ Runner!Stops
      BY <3>3 DEF RunnerWaits, State, Foreground, Runner!Finishes, Runner!Stops
    <3> QED
      BY <3>2, <3>4 DEF State, Runner!AbsNext
  <2> QED
    BY <2>1, <2>2, <2>3 DEF Runner!AbsNext
<1> QED
  BY <1>1, <1>2, TypeCorrect, WaitInvariant, PTL DEF Spec, ImplementsRunner, Runner!AbsSpec
=============================================================================
