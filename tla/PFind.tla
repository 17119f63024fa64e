------------------------------- MODULE PFind -------------------------------
(***************************************************************************)
(* pfind.c: a fixed set of threads searches a directory tree through one   *)
(* shared FIFO queue of directories.  One action is one critical section,  *)
(* or one library call whose outcome other threads can observe; acquiring  *)
(* queue_lock is a step of its own, because the code copies the mutex by   *)
(* value while other threads may hold it.                                  *)
(***************************************************************************)
EXTENDS Integers, Sequences, FiniteSets

CONSTANTS
  Threads,           \* the worker threads; thread_number is their number
  Root, Dirs, Matching, Contents,   \* the tree, as in DirectorySearch
  NoThread, NoEntry, \* not a thread, not a directory or file
  MayFail,           \* may opendir, lstat, malloc and pthread_create fail?
  SpuriousWakeups    \* may pthread_cond_wait return without a signal?

ASSUME ThreadsAssumption ==
  IsFiniteSet(Threads) /\ Threads # {} /\ NoThread \notin Threads

\* A directory tree: one parent for every entry, and none for the root.
ASSUME TreeAssumption ==
  /\ Root \in Dirs
  /\ Dirs \cap Matching = {}
  /\ NoEntry \notin Dirs \cup Matching
  /\ DOMAIN Contents = Dirs
  /\ \A d \in Dirs : Root \notin Contents[d]
  /\ \A c, d \in Dirs : c # d => Contents[c] \cap Contents[d] = {}

ASSUME FlagsAssumption == MayFail \in BOOLEAN /\ SpuriousWakeups \in BOOLEAN

VARIABLES
  \* globals of pfind.c
  queue, queue_lock, wait_cond_threads, handoff_required, running_threads,
  matches, error_threads,
  \* locals of each thread
  pc, waiting_mode, dir_path, unread, entry, matches_arg, lock_copy,
  \* the main thread, and the exit status of the process
  main, exit_code,
  \* history: directories dequeued, and matching files printed
  visited, printed

globals == <<queue, wait_cond_threads, handoff_required>>
barrier == <<running_threads, main, exit_code>>
scan    == <<dir_path, unread, entry, lock_copy>>
count   == <<matches, matches_arg, printed>>
vars == <<globals, queue_lock, error_threads, pc, waiting_mode, visited,
          barrier, scan, count>>

thread_number == Cardinality(Threads)
Entries == Dirs \cup Matching

Goto(t, label) == pc' = [pc EXCEPT ![t] = label]
At(label) == {t \in Threads : pc[t] = label}

\* Every thread of S leaves its pthread_cond_wait; it still needs the mutex.
Awake(S, label, newpc) == [u \in Threads |-> IF u \in S THEN label ELSE newpc[u]]

Parked == At("wait_handoff") \cup At("wait_non_empty")

\* insert links the node behind the last one, or makes it the only one.
insert_Replaces(q, d) == <<d>>            \* mutant: always the "empty" case
insert(q, d) == Append(q, d)

\* remove_first drops the head; the last node leaves an empty queue.
remove_first_KeepsLast(q) ==              \* mutant: no reset of first
  IF Len(q) = 1 THEN q ELSE Tail(q)
remove_first(q) == Tail(q)

-----------------------------------------------------------------------------
Init ==
  /\ queue = <<Root>>
  /\ queue_lock = NoThread
  /\ wait_cond_threads = 0
  /\ handoff_required = 0
  /\ running_threads = 0
  /\ matches = 0
  /\ error_threads = 0
  /\ pc = [t \in Threads |-> "begin"]
  /\ waiting_mode = [t \in Threads |-> 0]
  /\ dir_path = [t \in Threads |-> NoEntry]
  /\ unread = [t \in Threads |-> {}]
  /\ entry = [t \in Threads |-> NoEntry]
  /\ matches_arg = [t \in Threads |-> 0]
  /\ lock_copy = [t \in Threads |-> "free"]
  /\ main = "start"
  /\ exit_code = -1
  /\ visited = {}
  /\ printed = {}

-----------------------------------------------------------------------------
(* The start barrier.  main holds begin_lock from "start" until it waits;  *)
(* "woken", it still has to get it back.  A thread, and main in            *)
(* BeginSearch, hold it only within one step.                              *)

\* Print what failed and exit, in main and before anything is searched.  A root
\* that lstat cannot find is the exception: its case is missing, main looks at a
\* stat it does not have, and exits here or leaves the root to a thread, which fails.
handle_error == main' = "exited" /\ exit_code' = 1

\* start_process: create the threads and wait for threads_prepared.
StartThreads ==
  /\ main = "start"
  /\ \/ main' = "wait_prepared" /\ UNCHANGED exit_code
     \/ MayFail /\ handle_error
  /\ UNCHANGED <<globals, queue_lock, error_threads, pc, waiting_mode,
                 visited, running_threads, scan, count>>

check_for_threads_prepared_First(n) == n > 0   \* mutant: any thread wakes main
check_for_threads_prepared(n) == n = thread_number

\* A thread counts itself, the last one wakes main, and all await begin_cond.
ThreadBegin(t) ==
  /\ pc[t] = "begin"
  /\ main \in {"wait_prepared", "woken", "join"}
  /\ running_threads' = running_threads + 1
  /\ main' = IF check_for_threads_prepared(running_threads')
                /\ main = "wait_prepared"
             THEN "woken" ELSE main
  /\ Goto(t, "wait_begin")
  /\ UNCHANGED <<globals, queue_lock, error_threads, waiting_mode, visited,
                 exit_code, scan, count>>

\* main has begin_lock back: broadcast begin_cond, release and start joining.
BeginSearch ==
  /\ main = "woken"
  /\ main' = "join"
  /\ pc' = Awake(At("wait_begin"), "loop", pc)
  /\ UNCHANGED <<globals, queue_lock, error_threads, waiting_mode, visited,
                 running_threads, exit_code, scan, count>>

\* All joins returned: print the number of matches and exit.
Finish ==
  /\ main = "join"
  /\ \A t \in Threads : pc[t] \in {"exited", "failed"}
  /\ main' = "exited"
  /\ exit_code' = IF error_threads # 0 THEN 1 ELSE 0
  /\ UNCHANGED <<globals, queue_lock, error_threads, pc, waiting_mode,
                 visited, running_threads, scan, count>>

-----------------------------------------------------------------------------
(* The queue loop of multiple_thread_search.                               *)

LockFor == [loop |-> "locked", relock |-> "relocked", insert |-> "inserting"]

Acquire_NoWait(t) == queue_lock' = t           \* mutant: no mutual exclusion
Acquire(t) == queue_lock = NoThread /\ queue_lock' = t

Lock(t) ==
  /\ pc[t] \in DOMAIN LockFor
  /\ Acquire(t)
  /\ Goto(t, LockFor[pc[t]])
  /\ waiting_mode' = IF pc[t] = "loop" THEN [waiting_mode EXCEPT ![t] = 0]
                                       ELSE waiting_mode
  /\ UNCHANGED <<globals, error_threads, visited, barrier, scan, count>>

\* A handoff is pending: step aside until handoff_performed.
AwaitHandoff(t) ==
  /\ pc[t] = "locked"
  /\ wait_cond_threads > 0 /\ handoff_required # 0
  /\ wait_cond_threads' = wait_cond_threads + 1
  /\ waiting_mode' = [waiting_mode EXCEPT ![t] = 1]
  /\ queue_lock' = NoThread
  /\ Goto(t, "wait_handoff")
  /\ UNCHANGED <<queue, handoff_required, error_threads, visited, barrier,
                 scan, count>>

AtQueueTest(t) ==
  \/ pc[t] = "relocked"
  \/ pc[t] = "locked" /\ (wait_cond_threads = 0 \/ handoff_required = 0)

\* increase_wait_cond_threads(waiting_mode, 0), once per wait.
CountWaiter_Again(t) ==                  \* mutant: counts every wakeup
  /\ wait_cond_threads' = wait_cond_threads + 1
  /\ waiting_mode' = [waiting_mode EXCEPT ![t] = 1]

CountWaiter_Down(t) ==                   \* mutant: counts down
  /\ wait_cond_threads' = wait_cond_threads - (1 - waiting_mode[t])
  /\ waiting_mode' = [waiting_mode EXCEPT ![t] = 1]

CountWaiter(t) ==
  /\ wait_cond_threads' = wait_cond_threads + (1 - waiting_mode[t])
  /\ waiting_mode' = [waiting_mode EXCEPT ![t] = 1]

AllWaiting_OffByOne(n) == thread_number < n + error_threads       \* mutant
AllWaiting(n) == thread_number = n + error_threads

\* The queue is empty and not all threads are known to wait: park.
AwaitNonEmpty(t) ==
  /\ AtQueueTest(t)
  /\ queue = <<>>
  /\ CountWaiter(t)
  /\ ~AllWaiting(wait_cond_threads')
  /\ queue_lock' = NoThread
  /\ Goto(t, "wait_non_empty")
  /\ UNCHANGED <<queue, handoff_required, error_threads, visited, barrier,
                 scan, count>>

max_num_of_threads_reached_Silent(newpc) == newpc    \* mutant: no broadcast
max_num_of_threads_reached(newpc) == Awake(Parked, "relock", newpc)

\* The queue is empty and every thread waits: wake them all and exit.
LastWaiterExits(t) ==
  /\ AtQueueTest(t)
  /\ queue = <<>>
  /\ CountWaiter(t)
  /\ AllWaiting(wait_cond_threads')
  /\ queue_lock' = NoThread
  /\ pc' = max_num_of_threads_reached([pc EXCEPT ![t] = "exited"])
  /\ UNCHANGED <<queue, handoff_required, error_threads, visited, barrier,
                 scan, count>>

\* Dequeue a directory.  decrease_wait_cond_threads and the reset in
\* check_for_needed_handoff assign parameters: neither global changes.
RemoveFirst(t) ==
  /\ AtQueueTest(t)
  /\ queue # <<>>
  /\ dir_path' = [dir_path EXCEPT ![t] = Head(queue)]
  /\ visited' = visited \cup {Head(queue)}
  /\ queue' = remove_first(queue)
  /\ pc' = LET left == [pc EXCEPT ![t] = "call"]
           IN  IF handoff_required # 0 /\ waiting_mode[t] # 0
               THEN Awake(At("wait_handoff"), "relock", left) ELSE left
  /\ queue_lock' = NoThread
  /\ UNCHANGED <<wait_cond_threads, handoff_required, error_threads,
                 waiting_mode, barrier, unread, entry, lock_copy, count>>

-----------------------------------------------------------------------------
(* dir_search, called with a copy of the mutex.                            *)

\* Passing queue_lock by value copies its state, held or free.
CallSearch(t) ==
  /\ pc[t] = "call"
  /\ lock_copy' = [lock_copy EXCEPT ![t] =
                     IF queue_lock = NoThread THEN "free" ELSE "held"]
  /\ Goto(t, "open")
  /\ UNCHANGED <<globals, queue_lock, error_threads, waiting_mode, visited,
                 barrier, dir_path, unread, entry, count>>

OpenDir(t) ==
  /\ pc[t] = "open"
  /\ unread' = [unread EXCEPT ![t] = Contents[dir_path[t]]]
  /\ Goto(t, "scan")
  /\ UNCHANGED <<globals, queue_lock, error_threads, waiting_mode, visited,
                 barrier, dir_path, entry, lock_copy, count>>

\* readdir yields entries in no particular order.
ReadEntry(t, e) ==
  /\ pc[t] = "scan"
  /\ e \in unread[t]
  /\ unread' = [unread EXCEPT ![t] = @ \ {e}]

\* A directory the user may enter becomes a new search_node.
ScanDir(t, e) ==
  /\ ReadEntry(t, e)
  /\ e \in Dirs
  /\ entry' = [entry EXCEPT ![t] = e]
  /\ Goto(t, "insert")
  /\ UNCHANGED <<globals, queue_lock, error_threads, waiting_mode, visited,
                 barrier, dir_path, lock_copy, count>>

\* increase_matches is called with the value matches has now.
ScanMatch(t, e) ==
  /\ ReadEntry(t, e)
  /\ e \in Matching
  /\ entry' = [entry EXCEPT ![t] = e]
  /\ matches_arg' = [matches_arg EXCEPT ![t] = matches]
  /\ Goto(t, "count")
  /\ UNCHANGED <<globals, queue_lock, error_threads, waiting_mode, visited,
                 barrier, dir_path, lock_copy, matches, printed>>

\* ".", "..", an unreadable directory or a name without the search term.
SkipEntry(t, e) ==
  /\ ReadEntry(t, e)
  /\ e \notin Entries
  /\ UNCHANGED <<globals, queue_lock, error_threads, pc, waiting_mode,
                 visited, barrier, dir_path, entry, lock_copy, count>>

\* check_for_handoff: enqueue; if the queue was empty, signal one waiter.
Insert(t) ==
  /\ pc[t] = "inserting"
  /\ queue' = insert(queue, entry[t])
  /\ handoff_required' = IF queue = <<>> /\ wait_cond_threads > 0
                         THEN 1 ELSE handoff_required
  /\ LET left == [pc EXCEPT ![t] = "scan"]
         waiters == At("wait_non_empty")
     IN  IF queue = <<>> /\ waiters # {}
         THEN \E u \in waiters : pc' = [left EXCEPT ![u] = "relock"]
         ELSE pc' = left
  /\ queue_lock' = NoThread
  /\ UNCHANGED <<wait_cond_threads, error_threads, waiting_mode, visited,
                 barrier, scan, count>>

\* increase_matches adds one to its parameter under count_lock and prints.
CountMatch(t) ==
  /\ pc[t] = "count"
  /\ matches_arg' = [matches_arg EXCEPT ![t] = @ + 1]
  /\ printed' = printed \cup {entry[t]}
  /\ Goto(t, "store")
  /\ UNCHANGED <<globals, queue_lock, error_threads, waiting_mode, visited,
                 barrier, scan, matches>>

NewMatches_Added(t) == matches + matches_arg[t]   \* mutant: += for =
NewMatches(t) == matches_arg[t]

\* The caller assigns the result to the global, holding no lock.
StoreMatches(t) ==
  /\ pc[t] = "store"
  /\ matches' = NewMatches(t)
  /\ Goto(t, "scan")
  /\ UNCHANGED <<globals, queue_lock, error_threads, waiting_mode, visited,
                 barrier, scan, matches_arg, printed>>

CloseDir(t) ==
  /\ pc[t] = "scan"
  /\ unread[t] = {}
  /\ Goto(t, "loop")
  /\ UNCHANGED <<globals, queue_lock, error_threads, waiting_mode, visited,
                 barrier, scan, count>>

\* opendir fails, or lstat or malloc on an entry: dir_search gives up.
SearchFails(t) ==
  /\ MayFail
  /\ \/ pc[t] = "open"
     \/ pc[t] = "scan" /\ unread[t] # {}
  /\ Goto(t, "fail")
  /\ UNCHANGED <<globals, queue_lock, error_threads, waiting_mode, visited,
                 barrier, scan, count>>

\* increase_error_threads locks the copy of the mutex and adds one to its
\* parameter.  Nobody ever unlocks a copy that was taken while held.
ErrorExit(t) ==
  /\ pc[t] = "fail"
  /\ Goto(t, IF lock_copy[t] = "held" THEN "stuck" ELSE "failed")
  /\ UNCHANGED <<globals, queue_lock, error_threads, waiting_mode, visited,
                 barrier, scan, count>>

-----------------------------------------------------------------------------
\* POSIX lets any pthread_cond_wait return early; none here is in a loop
\* except the wait for non_empty.
WakeThread(t) ==
  /\ SpuriousWakeups
  /\ \/ pc[t] \in {"wait_handoff", "wait_non_empty"} /\ Goto(t, "relock")
     \/ pc[t] = "wait_begin" /\ Goto(t, "loop")
  /\ UNCHANGED <<globals, queue_lock, error_threads, waiting_mode, visited,
                 barrier, scan, count>>

WakeMain ==
  /\ SpuriousWakeups
  /\ main = "wait_prepared"
  /\ main' = "woken"
  /\ UNCHANGED <<globals, queue_lock, error_threads, pc, waiting_mode,
                 visited, running_threads, exit_code, scan, count>>

QueueLoop(t) ==
  \/ Lock(t) \/ AwaitHandoff(t) \/ AwaitNonEmpty(t) \/ LastWaiterExits(t)
  \/ RemoveFirst(t)

DirSearch(t) ==
  \/ CallSearch(t) \/ OpenDir(t) \/ Insert(t) \/ CountMatch(t)
  \/ StoreMatches(t) \/ CloseDir(t) \/ ErrorExit(t)
  \/ \E e \in unread[t] : ScanDir(t, e) \/ ScanMatch(t, e) \/ SkipEntry(t, e)

Thread(t) == ThreadBegin(t) \/ QueueLoop(t) \/ DirSearch(t)
Main      == StartThreads \/ BeginSearch \/ Finish

\* main exits before any thread has begun, or after all have ended.
Next ==
  \/ Main
  \/ \E t \in Threads : Thread(t) \/ SearchFails(t) \/ WakeThread(t)
  \/ WakeMain

Spec == Init /\ [][Next]_vars

\* The kernel runs every thread that can take a step.
Fairness == WF_vars(Main) /\ \A t \in Threads : WF_vars(Thread(t))
FairSpec == Spec /\ Fairness

-----------------------------------------------------------------------------
(* Properties.                                                             *)

Labels == {"begin", "wait_begin", "loop", "locked", "wait_handoff",
           "wait_non_empty", "relock", "relocked", "call", "open", "scan",
           "insert", "inserting", "count", "store", "fail", "stuck",
           "failed", "exited"}

TypeOK ==
  /\ queue \in Seq(Dirs)
  /\ queue_lock \in Threads \cup {NoThread}
  /\ wait_cond_threads \in Nat
  /\ handoff_required \in {0, 1}
  /\ running_threads \in Nat
  /\ matches \in Nat
  /\ error_threads = 0
  /\ pc \in [Threads -> Labels]
  /\ waiting_mode \in [Threads -> {0, 1}]
  /\ dir_path \in [Threads -> Dirs \cup {NoEntry}]
  /\ unread \in [Threads -> SUBSET UNION {Contents[d] : d \in Dirs}]
  /\ entry \in [Threads -> Entries \cup {NoEntry}]
  /\ matches_arg \in [Threads -> Nat]
  /\ lock_copy \in [Threads -> {"free", "held"}]
  /\ main \in {"start", "wait_prepared", "woken", "join", "exited"}
  /\ exit_code \in {-1, 0, 1}
  /\ visited \subseteq Dirs
  /\ printed \subseteq Matching

\* A thread between RemoveFirst and the end of dir_search.
Searching(t) == pc[t] \in {"call", "open", "scan", "insert", "inserting",
                           "count", "store"}

\* queue_lock excludes: whoever is inside a critical section is its owner.
\* (pfind.c:208-221 and 512-544)
LockOwner ==
  \A t \in Threads :
     pc[t] \in {"locked", "relocked", "inserting"} <=> queue_lock = t

\* No directory is searched by two threads, and none that was dequeued, or
\* is queued, is queued again: insert and remove_first lose and repeat
\* nothing, whatever the order of threads.  (pfind.c:116-170, 540)
SearchedOnce ==
  /\ \A t, u \in Threads :
        t # u /\ Searching(t) /\ Searching(u) => dir_path[t] # dir_path[u]
  /\ \A i \in 1..Len(queue) :
        /\ queue[i] \notin visited
        /\ \A j \in 1..Len(queue) : i # j => queue[i] # queue[j]

\* The unlocked read and write of matches may lose matches and never invents
\* one: at any time at most as many are counted as printed. (pfind.c:226, 354)
MatchesBounded == matches <= Cardinality(printed)

\* If pfind ends and no thread failed, it searched every directory it can
\* reach and printed every match, even though wait_cond_threads counts
\* waits and not waiters, so that threads may exit early.  (pfind.c:527, 652)
CompleteAtExit ==
  main = "exited" /\ exit_code = 0 /\ (\A t \in Threads : pc[t] = "exited") =>
    /\ queue = <<>>
    /\ Root \in visited
    /\ \A d \in visited : /\ Contents[d] \cap Dirs \subseteq visited
                          /\ Contents[d] \cap Matching \subseteq printed

\* Until the first handoff wait_cond_threads is the number of threads that
\* found the queue empty, and while it is positive the queue stays empty:
\* the exit test of line 527 is then right.  (pfind.c:216, 485, 527)
CounterExactUntilHandoff ==
  handoff_required = 0 =>
    /\ wait_cond_threads = Cardinality({t \in Threads : waiting_mode[t] = 1})
    /\ wait_cond_threads > 0 => queue = <<>>

\* No thread begins the search before all have been created and counted.
\* (pfind.c:500-505, 657-659)
BarrierHolds ==
  (\E t \in Threads : pc[t] \notin {"begin", "wait_begin"}) =>
    running_threads = thread_number

\* The number printed at the end is the number of files printed.  Comment
\* at pfind.c:353, "number of matches is increased atomically".
MatchesCounted ==
  main = "exited" /\ exit_code = 0 => matches = Cardinality(printed)

\* Every join returns and pfind ends.  Comment at pfind.c:643, "attempt to
\* wait for all running threads to finish using join".
SearchEnds == <>(main = "exited")

\* A search ends, or every thread that is left waits for ever, and then one of
\* them waits for a handoff, or a thread has failed and is still counted by the
\* exit test: nothing else can hold a search, neither the queue nor the lock,
\* nor a failed thread that never gets its copy of it.
\* (pfind.c:214-220, 425, 514-534, 546)
Stopped(t) == pc[t] \in {"failed", "stuck"}

EndsOrHeldByHandoffOrFailure ==
  <>(\/ main = "exited"
     \/ /\ At("wait_handoff") # {} \/ \E t \in Threads : Stopped(t)
        /\ \A t \in Threads : t \in Parked \/ Stopped(t) \/ pc[t] = "exited")

\* pfind implements the abstract search: pending directories are the queue.
Search == INSTANCE DirectorySearch WITH
  pending  <- {queue[i] : i \in 1..Len(queue)},
  reported <- printed,
  result   <- IF main # "exited" THEN "running"
              ELSE IF exit_code = 0 /\ \A t \in Threads : pc[t] = "exited"
              THEN "complete" ELSE "partial"

ImplementsSearch == Search!AbsSpec
=============================================================================
