# Verification of os-files

The repository holds four independent programs of an operating-systems course.
This directory holds TLA+ models of all four, the TLC runs that check the
models, and TLAPS proofs about all of them.

## 1. The system

| part | source | state | operations | hard behaviour |
|---|---|---|---|---|
| pfind | `src/pfind.c` | a queue of directories, its mutex, two condition variables with a waiter count and a handoff flag, a start barrier, a match counter, an error counter | create threads, dequeue, scan a directory, enqueue, count a match, fail, join | threads interleave; the handoff and exit protocol; counters updated outside their lock; a mutex copied by value; early wakeups; failing threads |
| pcc_server | `src/pcc/pcc_server.c` | totals per character, the connected client, the shutdown flag | accept, read N, read data, count, write C, add to totals, close, SIGINT, shut down | a signal between any two steps; partial reads and writes; clients that die; errors after the answer |
| pcc_client | `src/pcc/pcc_client.c` | its file, a loop counter | connect, write N, write data, read C | partial transfers; a server that goes away; sizes beyond `int` |
| message_slot | `src/message_device/message_slot.c`, `.h` | a linked list of message files per device, per open file the chosen channel | open, ioctl, write, read, release, load, unload | system calls of several processes run at once and the module takes no lock; allocation failures |
| message_sender, message_reader | `src/message_device/` | one open file | open, ioctl, write or read, close | the steps of two programs interleave |
| myshell | `src/shell/myshell.c`, `shell.c` | child processes, pipe descriptors, signal dispositions | run, run in background, pipe, redirect, SIGINT | end of file on pipes, zombies, waits that return for other children, failing forks |
| pt.c | `src/pt.c` | none | none | the file is empty |

The programs share no state and send each other nothing, except pcc_client to
pcc_server over TCP, and sender and reader to the module by system calls.
Within a program the parts interact so:

* pfind's threads share the queue under `queue_lock`; a thread that finds the
  queue empty waits on `non_empty`, one that finds a handoff pending waits on
  `handoff_performed`; `main` and the threads meet at a barrier of two more
  condition variables, and `main` joins the threads at the end. `matches` is
  read by one function, incremented in another and stored by the first.
* pcc_server is one thread and a signal handler that shares the globals
  `connected_file_fd`, `sigint_ind` and `pcc_total` with it.
* The module is entered by the system calls of all processes at once.
* myshell and its children share the pipe, whose ends `fork` copies, the
  terminal's SIGINT, and the process table, out of which both the loop and the
  signal handler wait for children.

What makes each part correct:

* pfind: each reachable directory is searched once, each match is printed, the
  number printed at the end is that of the matches, pfind ends, and it ends
  only when nothing is left to search.
* pcc: the totals are the sum over the clients served, each counted once and
  whole; each client gets the count of its own file; the report of a shutdown
  at any moment shows whole clients; a SIGINT ends the server once the client
  it serves has gone on or died.
* message_slot: a read returns the last message written to the channel, whole;
  a channel exists once; nothing is lost or leaked; the kernel follows no bad
  pointer.
* myshell: a pipe ends when its programs do, every child is waited for once,
  signals reach the processes they are meant for, and each line comes back to the
  prompt and leaves nothing behind that nobody can end.

## 2. Plan

| step | modules | state |
|---|---|---|
| 1 | `PFind` implements `DirectorySearch`; `MCPFind`; `PFindProofs` | done, proved |
| 2 | `PccServer` and `PccClient` over `PccNet`, composed in `Pcc`, which implements `PccService`; `MCPcc`; `PccProofs`, `PccReportProofs` | done, proved |
| 3 | `MessageSlot` (the kernel), `MessageUsers` (the programs on it), which implements `MessageRegisters`; `MCMessage`; `MessageListProofs`, `MessageProofs`, `MessageFileProofs`, `MessageRegisterProofs` | done, proved |
| 4 | `Shell` (the loop and the command line) over `ShellProcs` (the children), which implements `CommandRunner`; `MCShell`; `ShellProofs` | done, proved |

Runs: for each program one that passes with all failures, symmetric where no
fairness is used, and for the programs that should end a liveness run, which
for the shell is the same one; and one run for each disagreement with a comment
worth showing.

Theorems: every safety property of a passing run, and the four refinements, are
proved (section 5). Worth stating next: what remains true of the message files
when two ioctls of one device overlap, and of pfind's counter after a handoff.

## 3. The models and the code

### pfind: `DirectorySearch`, `PFind`

`DirectorySearch` says what pfind promises: pending directories are searched,
each puts its subdirectories on the pending set and its matches among the
reported, and a search is complete when none is pending and none has been
abandoned.

`PFind` has one action for each critical section or library call whose result
another thread can see.

| code | actions |
|---|---|
| the checks of `main` (`handle_error`), `start_process`, the barrier in `multiple_thread_search` and `main` (497-505, 641-660) | `StartThreads`, `ThreadBegin`, `BeginSearch`, `Finish` |
| the loop of `multiple_thread_search` (508-550) | `Lock`, `AwaitHandoff`, `AwaitNonEmpty`, `LastWaiterExits`, `RemoveFirst` |
| `dir_search` and its helpers | `CallSearch` (the call copies the mutex), `OpenDir`, `ScanDir`, `ScanMatch`, `SkipEntry`, `Insert`, `CountMatch`, `StoreMatches`, `CloseDir` |
| its error paths | `SearchFails`, `ErrorExit` |
| early returns of `pthread_cond_wait` | `WakeThread`, `WakeMain` |

Taking `queue_lock` is a step, and the section after it is one more step:
`LockOwner` shows that no two threads are inside, which is what allows it.
Parameters assigned where the code means to assign a global stay without effect
(`wait_cond_threads` never goes down, `error_threads` stays 0). The tree is a
constant: an entry is a directory, a match or neither.

### pcc: `PccService`, `PccNet`, `PccClient`, `PccServer`, `Pcc`

A TCP stream is a pair of counts, bytes put in and bytes taken out: the bytes
themselves follow from the client's file. `PccNet` also keeps the listen queue,
what each end can learn of the end of the other (open, end of file, reset) and
resets. `PccClient` has the calls of `pcc_client.c`, each transfer in pieces of
any size. First the file is
read into memory (`BufferCreation`); every error is `failed`, an exit.
`PccServer` installs its handler (`sigint_init`), begins to listen
(`create_listen_queue`), and then has the steps of `main`'s loop: `CheckForOpen`, `Accept`,
`Assign`, `ReadBytesFrom`, `ReadComplete`, `CountCharsRead`, `WriteC`,
`WriteComplete`, `UpdatePccTotal` (one character a step), `CloseClient`,
`ResetConnected`, the error paths `ReadError`, `NegativeCount`, `WriteError`,
`BrokenPipe`, `ServerFails`, and `Sigint`, possible between any two of them.
`server_shutdown` called by main prints line after line; called by the handler
it is one step, since nothing else runs meanwhile. A `uint32_t` passed as an
`int` is `AsInt`; totals wrap at `UintMod`. `PccService` is the abstract
service: serve a client at most once, report, or end without a report.

### message_slot: `MessageRegisters`, `MessageSlot`, `MessageUsers`

A step of `MessageSlot` is one access to memory that another call can see:
`ioctl_dev` is `Search`, `AddNext` (the new memory is linked, with whatever it
held), `InitNext`, `NewList`, `SetId`, `SetFile`, `Publish`; `write_dev` goes
on with `SetLength` and `StoreByte`; `read_dev` with `ReadLength` and
`CopyByte`. `Oops` is the death of a process that follows a bad pointer.
`cleanup`, `Register` and `initiallize` are rmmod and insmod. The kernel
lets a module be removed only when no file is open.

The code takes no lock. The variable `exclusion`, chosen at the start from the
constant `Exclusions` and never changed, says what callers keep apart: ioctls
on one device (`"device"`), transfers of one message file (`"message"`), and
opening before insmod is done (`"load"`). Each property names what it needs.
Without `"device"` the module keeps no promise. With it the lists stay sound
and no pointer goes wrong, also when a file was opened while `initiallize` was
about to empty the lists. With `"load"` as well nothing leaks and an open file
points into the list of its device. With all three the module implements `MessageRegisters`,
atomic registers, though calls on different channels and devices still
interleave and reads and writes run while lists grow. A write takes effect when
it stores the length, an ioctl when it stores the id.

`MessageUsers` adds `message_sender` and `message_reader`, which share their
first two calls, and a third kind of program that makes any calls in any order
with any arguments.

### myshell: `CommandRunner`, `ShellProcs`, `Shell`

`CommandRunner` is the promise of a shell: it runs one line at a time, and is
not ready for the next before the processes of this one, but for those in the
background, have been waited for. A step of `Shell` is a system call; what the
program computes between two calls goes with the call before it.

| code | actions |
|---|---|
| `main` of shell.c, `prepare` | `prepare`, `ReadLine`, `EndOfInput` |
| `process_arglist`: which kind of line (`obtain_pipe_position`, `obtain_arrow_position`, `strings_equal`) | `Begin`, in `ReadLine`; a position is a `char`, as `AsChar` |
| `piping` and its helpers | `MakePipe`, `ForkFirst`, `ForkSecond`, `ClosePipe`, `WaitFirst`, `WaitSecond`, `BadPosition` |
| `output_redirect` | `ForkRedirect`, `WaitRedirect` |
| a line that ends in `&` | `ForkBackground` |
| a line in the foreground | `ForkForeground`, `Unblock`, `WaitForeground`, `Kill`, `WaitAll` |
| their error returns | `CallFails` |
| `child_handler`, SIGINT | `child_handler`, `Sigint`, `Interrupt` |
| a child up to `execvp` | `RestartSigint` (with `close_and_restart`), `DupFails`, `ReturnToLoop`, `Exec`, `ExecFails` |
| the program it runs | `Ends`, by itself, at the end of its input, or by SIGPIPE |

`proc` is the kernel's table: behind an id is nothing, a process of another
program (an outsider), or a child that is forked, has SIGINT restored, runs, or is
a zombie; a child keeps the ends of the pipe it inherited. Outsiders come and go
(`OthersStep`): an id the shell has waited for may be an outsider's at the next
step, `waitpid` then returns ECHILD, and the SIGTERM of line 449 may end it. Only
one pipe exists at a time, since a line has at most one and the shell closes it before
the next. A child that fails before `execvp` comes back through
`process_arglist` with 0, which ends the loop of `main` in the child too.

Undefined behaviour is a choice: `restart_sigint` gives `sigaction` a struct it
never set, so any disposition may result; `output_redirect` copies words to
pointers it never set, so its child may die; a negative position of `|` writes
in front of the array, so the shell may die. The input is a terminal: what
`exit` in a child does to the buffered offset of a file is left out.

## 4. What the runs show

| run | expected | question |
|---|---|---|
| `pfind_safety` | pass | three threads, a tree with two branches, failures and early wakeups: no directory is searched twice or lost, the matches are not over-counted, pfind does not end early, and it implements the abstract search |
| `pfind_live` | pass | three threads scheduled fairly on a chain of directories, with failures: the barrier holds, and the search ends unless threads wait for a handoff for ever or a thread has failed before; nothing else can hold it |
| `pfind_lost_match` | violation | two threads count two matches as one |
| `pfind_hang` | violation | a pending handoff parks threads for ever |
| `pcc_safety` | pass | two clients, kills, lost connections, failing calls and two SIGINTs at any step: totals, answers and report agree |
| `pcc_live` | pass | three clients, of odd sizes: a SIGINT ends the server, a connected client is answered, and a client ends or reads the end of its connection for ever |
| `pcc_race` | violation | a SIGINT just after `accept` shuts the server down with a client connected |
| `pcc_sigpipe` | violation | a client that dies kills the server by SIGPIPE |
| `message_safety` | pass | two devices, insmod and rmmod, short memory, and callers that open a device early or not: lists, leaks, pointers, registers |
| `message_torn` | violation | a reader gets a message nobody wrote |
| `shell_safety` | pass | lines of every kind in any order, failures and a SIGINT at any step: who gets which signal, when a pipe ends, that a line returns to the prompt and leaves nothing behind, and that one line runs at a time |
| `shell_zombies` | violation | a command in the background stays a zombie |

Each property of a passing run has a mutant of the code, an operator beside
the one it replaces, that makes TLC report the property.

### Bounds

* pfind: three directories, two matches and a skipped entry. Three threads are
  the fewest with a worker, a waiter and one that steps aside for a handoff. In
  the branching tree two directories are in the queue at once; in the chain the
  queue empties between directories, so that handoffs happen. The third thread
  is what the safety run needs most; the violations need two.
* pcc: two printable characters, so that an update of the totals has a middle.
  `IntBytes = 2` makes partial transfers of N and C possible, `IntBytes = 1` in
  the liveness run leaves them to the data. `UintMod` 8 or 4 puts a size in the
  negative half of `int` in reach, with a file of two bytes. Two SIGINTs: the
  second comes while the first is deferred.
* message_slot: memory for two message files and four channels of devices to
  put there, so that allocation fails; lists of up to two; messages of one and
  two bytes, and one too long. Two processes are two calls at a time, which is
  what the exclusions are about; each may go on for ever. No file is shared by
  two processes (`FilesAssumption`).
  `Exclusions` has the callers that keep all apart and those that open a device
  early; overlapping transfers, which touch no pointer, are in `message_torn`.
* shell: three process ids, so that a pipe runs beside one command in the
  background and a second one finds the table full and `fork` fails. Any of them
  may be an outsider's at any time the shell does not use it. One SIGINT at any
  step. A `char` of three bits puts the fifth word in the negative half,
  with a line of seven words. The programs are the ones a pipe can tell apart:
  one that ends, one that ends with its input, one that ends when nobody reads
  it, and one that cannot be executed.
  A line is left out whose two programs keep each other going, one that writes
  for ever into one that reads to the end: neither is `Endless`, both stay.
* Symmetry (threads; addresses) is used in safety runs only.
* Deadlock is checked for the module: some process can always go on, so the
  exclusions leave nobody waiting for good. The runs of pfind, pcc and the shell
  say `CHECK_DEADLOCK FALSE`: pfind, the clients and the shell end, and a server
  without a client waits.

### Fairness

Weak fairness of `main` and of each thread of pfind, and of the server and each
client of pcc, and of the shell and each of its children: the kernel schedules
a thread that can run. Failures, kills,
SIGINT, early wakeups and the network have none. A mutex is taken by weak
fairness only, so a thread may lose every race for it; the liveness properties
hold even so, and the hang found does not depend on it. The user of the shell
need not enter a line. A program in the shell may run for ever only if nothing
it does can end it (`Endless`), and `CommandReturns` and `OrphansEnd` except that.
Outsiders have no fairness. Fair clients of pcc go on with their connection and
the liveness run breaks no link, so a client that stalls, which does hold the
server, is not covered by `SigintEndsServer`. The other
safety runs assume no fairness.

### Disagreements found

With a run:

* `pfind.c:354`, "number of matches is increased atomically" (353): the value
  is read before the lock and stored after it, so matches are lost.
* `pfind.c:514`: `handoff_required` is never cleared, threads wait for a handoff
  that nobody performs, and "attempt to wait for all running threads to finish
  using join" (643) never returns.
* `pcc_server.c:676`: between the return of `accept` and the assignment of
  `connected_file_fd` SIGINT shuts the server down, against "if the server is
  not proccessing any client, shutdown the server" (406).
* `pcc_server.c:847`: SIGPIPE kills the server before `EPIPE`, which the code
  treats as a known error (370-374), can be seen.
* `message_slot.c:219`: length and bytes are stored one by one without a lock,
  so a read does not return "the last message written on the message_file" (135).
* `myshell.c:134`: `child_handler`, "a sigaction handler for child processes"
  (83), is installed for SIGINT twice and for SIGCHLD never: a command in the
  background stays a zombie, which the shell means "to avoid" (273).

Met while modelling, in the models and without a run of their own:

* `pfind.c:481`, `425`: a parameter is changed in place of the global, so
  `wait_cond_threads` counts waits and `error_threads` stays 0: pfind exits
  with 0 after threads failed. The exit test can then end a thread
  early; `CompleteAtExit` shows that the search is complete all the same.
* `pfind.c:697`: `handle_error` has no case for `"root"`, so after `lstat` fails
  `main` goes on with a `struct stat` that was never set.
* `pfind.c:546`: the mutex is passed by value; a thread that fails may lock a
  copy that was taken while held and never return.
* `pcc_client.c:338`: at an end of file `read` returns 0 and the loop of
  `read_bytes` spins for ever.
* `pcc_client.c:520`: a file of 2^31 bytes or more is negative as an `int` and
  is not sent, and the server waits for it.
* `pcc_server.c:868`: if the connection is lost after the answer was delivered
  the client is not counted; `AnsweredIsCounted` excepts this case.
* `message_slot.c:325`, `354`: overlapping ioctls on a device break or lose
  lists, and `326` tests `head` in place of the new pointer.

* `message_slot.c:412`: the lists are emptied after the device can be opened;
  a message file made in between is in no list and never freed.
* `myshell.c:181`: the struct for `sigaction` is not initialised, so whether a
  command can be interrupted is left to chance; `220`: a child of a pipe unblocks
  SIGINT, where it may still meet the shell's handler, before it restores it.
* `myshell.c:449`: SIGTERM is sent to an id after it has been waited for, here or in
  the handler, and the kernel may have given it to a process of another program
  by then. In the model that takes eight steps: start, a line, its fork and
  unblock, the child's two last steps, the wait, an outsider; `Kill` then ends
  it. `TermSparesChildren` claims only that no child of the shell is hit. No
  comment or test speaks of this line, so no run reports it.
* `myshell.c:453`: a command in the foreground waits for those in the background.
* `myshell.c:162`: a position is a `char`, and negative from the 128th word on.
* `myshell.c:313`: words are copied to pointers that were never assigned.

## 5. What is proved

Every invariant, action property and refinement of the passing runs is a
theorem, for every value of the constants that the assumptions below admit. TLC
checked each property, and the inductive invariants, on instances like those of
section 4 before the proof was tried.

| module | theorems |
|---|---|
| `PFindProofs` | `TypeCorrect`, `MutualExclusion` (`LockOwner`), `NoRepeatedSearch` (`SearchedOnce`), `CompleteSearch` (`CompleteAtExit`), `NoMatchInvented` (`MatchesBounded`), `ExactCounter` (`CounterExactUntilHandoff`), `Barrier` (`BarrierHolds`, if no wait ends early), `Refinement` (`ImplementsSearch`); the invariants `TypeInvariant`, `WorkInvariant` |
| `PccProofs` | `TypeCorrect`, `WholeFiles` (`OnlyWholeFiles`), `AnswersCorrect` (`AnswersExact`), `AnsweredCounted` (`AnsweredIsCounted`) |
| `PccReportProofs` | `TotalsCorrect` (`TotalsExact`), `ReportCorrect` (`ReportExact`), `Refinement` (`ImplementsService`) |
| `MessageListProofs` | lemmas about `LinkedFrom`, cited by the next three |
| `MessageProofs` | `TypeCorrect`, `ListsCorrect` (`ListsWellFormed`); the invariants `CallInvariant`, `ListInvariant` |
| `MessageFileProofs` | `PointersCorrect` (`OopsOnlyOutOfMemory`), `FilesCorrect` (`FilesPointIntoLists`), `MemoryCorrect` (`NothingLeaks`); the invariants `InfoInvariant`, `KilledInvariant`, `MemberInvariant` |
| `MessageRegisterProofs` | `Refinement` (`ImplementsRegisters`); the invariant `TransferInvariant` |
| `ShellProofs` | `TypeCorrect`, `TermHitsNoChild` (`TermSparesChildren`), `InterruptNotSwallowed` (`InterruptReachesCommand`), `PipeEnds` (`PipeEndsWithItsPrograms`), `Refinement` (`ImplementsRunner`) |

TLC evaluates every assumption in the runs:

* pfind: finitely many threads, at least one; each entry of the tree has one
  parent, and the root none; the two flags are Booleans.
* pcc: finitely many clients; `UintMod` even, as `AsInt` halves it; the
  characters numbered from 1; files of numbers.
* message_slot: `NULL` and a wild pointer are no addresses; memory is finite, a
  message at least one byte; ids are positive; no open file is shared; `None`
  is no record and no message.
* myshell: finitely many process ids; a line is not empty; `CharMod` even.

### pfind

`SearchedOnce` and `CompleteAtExit` are not inductive: that a directory is not
searched twice depends on where each directory is, and that nothing is left at
the end on the same thing. `WorkInv` says where: every entry of a visited
directory is already in the queue, visited or printed, or exactly one thread
still has it, unread or in hand, or a thread that had it failed; and what a
thread has lies under its own directory, which no other thread has. It is
inductive together with the type invariant. So that not every action needs its
own case for it, `StepKinds` shows that a step is one of three kinds: it leaves
the work alone (`Quiet`), takes a directory from the queue (`Takes`), or moves
one entry on (`Works`), and each kind preserves `WorkInv`. At the end all
threads have exited and none has work, so all is visited: the exit test with
its wrong counter plays no part in it except that it is made with an empty
queue (`ExitInv`). The refinement maps `pending` to the elements of the queue,
and uses the same three kinds of step.

`CounterInv` is what the exit test needs until the first handoff: the counter
is the number of threads that have counted themselves, each of which still
waits or has woken to an empty queue or exited. After a handoff it is false,
which is a finding. `BarrierInv` counts the threads that have begun. `Barrier`
has the hypothesis `~SpuriousWakeups` because the two waits of the barrier are
not in loops; with early wakeups the property is false in the code.

### pcc

`CoreInv` ties the place of the server to its globals, `ConnectInv` says that a
client is accepted once and fresh, `RequestInv` how much of the request has
been read at each place, `AnswerInv` and `ReceiveInv` that what has been sent
back is the count of the client's own file, `CompleteInv` that a whole answer
is followed by the update. `WholeFiles` and `AnsweredCounted` follow.

`Sum`, the total over the counted clients, is a fold over a set. What it adds
up to is a statement about every finite set, and the induction theorems of the
library cannot be instantiated; `SumAdds` and the lemmas before it argue with a
smallest counterexample instead. With them `TotalsExact` is inductive: an
update in progress has added the characters before the current one. `ReportInv`
says that a report shows totals that change no more, main's lines first and
then, perhaps, all lines again from the handler; `ShownInv` that no part of an
update shows in it. The refinement maps an update in progress to not yet done,
so the step that finishes it is the abstract service of a client.

### message_slot

`CallInv` is what a call relies on: its file is open and the module loaded, its
message fits, its loop is within it. `ListInv` is the invariant of the lists,
for callers that keep the ioctls of one device apart. It cannot be stated of
the lists alone. An ioctl that is walking a list when insmod empties the heads
goes on in memory that no device lists any more, and must not meet another
ioctl there; so it speaks of what each ioctl reaches (`Reach`) as well as of
what each device lists (`Linked`), and says these are disjoint. `WalkOK` has
the reason an id occurs once: the ioctl has passed no message file with its own
id. Since a step changes at most the part that belongs to one device, the
`Frame` lemmas carry over the rest, and each step is left with its own part.

What is listed is defined by the loop of `cleanup`, a recursion over as many
rounds as there are addresses. `MessageListProofs` shows that this is the least
set that has the head and is closed under `next`, and everything after it uses
only that.

`InfoInv` says that the pointer of an open file that is not between the two
stores of an ioctl (`Settled`) is good; with `KilledInv` and `ListInv` it gives
`PointersCorrect`. `MemberInv` adds, for callers that open nothing before
insmod has returned, that open files and ioctls are within the lists and
nothing else is allocated: `FilesCorrect` and `MemoryCorrect`.

`TransferInv` adds, for callers that keep the transfers of a message file
apart, that what has been stored is the front of the message, and what has been
copied the front of what is stored. In the refinement the register of a channel
is the message of the one message file that has its id, or that of the call
that is storing it. A new message file is empty, so it does not show when it
comes into a list; a message changes only when its length is stored. Then each
step is one of the abstract calls or a stutter. An abstract call may always be
refused, as memory may be short and arguments wrong, so the refinement says what
calls that succeed do, and that refused ones change nothing; it does not say
when a call must succeed.

### myshell

`ForksOrMoves` says what a step may do to one process: the shell forks it, at
one of its five calls, or its record changes in one of the ways of `Moves`.
What a step does to an id that no child has is one of these ways too, so that no
other proof speaks of outsiders. `TermSparesChildren` is inductive, since only a
fork makes a child. `EndsInv` gives the ends of the pipe as
a function of a child's role and progress; `InterruptInv` says that a SIGINT
sent to a foreground command stays pending until it is unblocked; `WaitInv`
that the processes not yet waited for, but for those in the background, are
those whose ids the shell still holds. The refinement is from `WaitInv`.

### Only model-checked

* Liveness (`EndsOrHeldByHandoffOrFailure`, `SigintEndsServer`,
  `ClientsServed`, `ClientEndsOrSpins`, `CommandReturns`, `OrphansEnd`): the proof system has
  no rules for fairness.
* The violations, which are about one behaviour each.
* Deadlock, and that a handoff hangs pfind, which are about what can still
  happen (ENABLED).

## 6. What is not modelled

* How `shell.c` splits a line into words, and a shell whose input is a file.
* Message texts and the parsing of arguments and addresses. What a wrong
  argument leads to, an exit at the start, is in `StartThreads`, `ServerFails`
  and `BufferCreation`.
* A client's file that changes while it is read: only its first N bytes are
  sent, or the client fails.
* pfind: an error of `readdir` looks to the code like the end of the directory, and
  is that in the model, which does not skip entries for it.
* message_slot: the tests for a NULL buffer of the caller (119, 163), which return
  before anything is read or stored.
* myshell: programs that fork. Their children would share the terminal's SIGINT and
  hold their end of the pipe; an outsider in the model does neither.
* Descriptors shared by two processes, and the reuse of freed memory of an open
  file by the kernel.
* `pt.c` is empty; the Makefile only builds the module.
