---------------------------- MODULE PFindProofs ----------------------------
(***************************************************************************)
(* Theorems about PFind, for every tree, every number of threads, with or  *)
(* without failures and spurious wakeups.                                  *)
(*                                                                         *)
(* The argument sees a thread through four facts only: the directory it    *)
(* works on, whether it is searching it, whether it has failed, and Todo,  *)
(* the entries it has still to deal with.  Every step of the program is    *)
(* then one of three kinds (StepKinds): nothing changes, a thread takes a  *)
(* directory from the queue, or a searching thread deals with entries.     *)
(***************************************************************************)
EXTENDS PFind, FiniteSetTheorems, TLAPS

Elems(q) == {q[i] : i \in 1..Len(q)}
Injective(q) == \A i, j \in 1..Len(q) : i # j => q[i] # q[j]

Failed(t) == pc[t] \in {"fail", "stuck", "failed"}

\* Entries of dir_path[t] that t has neither queued nor printed nor skipped.
Todo(t) ==
  IF pc[t] \in {"call", "open"} THEN Contents[dir_path[t]]
  ELSE IF pc[t] \in {"scan", "store"} THEN unread[t]
  ELSE IF pc[t] \in {"insert", "inserting", "count"} THEN unread[t] \cup {entry[t]}
  ELSE {}

Known == Elems(queue) \cup visited \cup printed

-----------------------------------------------------------------------------
(* The inductive invariant.                                                *)

\* A thread that is searching or has failed was given its directory.
Located == \A t \in Threads : Searching(t) \/ Failed(t) => dir_path[t] \in visited

\* The entry in hand is of the right kind and was taken out of unread.
EntryInHand ==
  \A t \in Threads :
    /\ pc[t] \in {"insert", "inserting"} => entry[t] \in Dirs \ unread[t]
    /\ pc[t] = "count" => entry[t] \in Matching \ unread[t]

TypeInv == TypeOK /\ Located /\ EntryInHand

\* What is still to do is in the thread's directory, and known to nobody.
TodoFresh ==
  \A t \in Threads : Searching(t) => /\ Todo(t) \subseteq Contents[dir_path[t]]
                                     /\ Todo(t) \cap Known = {}

OneSearcher ==
  \A t, u \in Threads :
    t # u /\ Searching(t) /\ Searching(u) => dir_path[t] # dir_path[u]

QueueFresh == Injective(queue) /\ Elems(queue) \cap visited = {}

\* Whatever is known was found in a directory that was searched.
Reached == \A e \in Known : e = Root \/ \E d \in visited : e \in Contents[d]

\* What a visited directory holds is known, or is the business of a thread.
Covered ==
  /\ Root \in Known
  /\ \A d \in visited : \A e \in Contents[d] \cap Entries :
       \/ e \in Known
       \/ \E t \in Threads : dir_path[t] = d /\ (Failed(t) \/ e \in Todo(t))

WorkInv == TodoFresh /\ OneSearcher /\ QueueFresh /\ Reached /\ Covered

-----------------------------------------------------------------------------
(* The three kinds of steps.                                               *)

Same(t) ==
  /\ dir_path'[t] = dir_path[t]
  /\ Searching(t)' <=> Searching(t)
  /\ Failed(t)' <=> Failed(t)
  /\ Todo(t)' = Todo(t)

Quiet ==
  /\ UNCHANGED <<queue, visited, printed>>
  /\ \A t \in Threads : Same(t)

Takes(t) ==
  /\ queue # <<>>
  /\ ~Searching(t) /\ ~Failed(t)
  /\ queue' = Tail(queue)
  /\ visited' = visited \cup {Head(queue)}
  /\ printed' = printed
  /\ dir_path'[t] = Head(queue)
  /\ Searching(t)' /\ ~Failed(t)' /\ Todo(t)' = Contents[Head(queue)]
  /\ \A u \in Threads \ {t} : Same(u)

Works(t) ==
  /\ Searching(t)
  /\ visited' = visited
  /\ dir_path'[t] = dir_path[t]
  /\ Todo(t)' \subseteq Todo(t)
  /\ \/ UNCHANGED <<queue, printed>>
     \/ \E e \in (Todo(t) \cap Dirs) \ Todo(t)' :
          queue' = Append(queue, e) /\ printed' = printed
     \/ \E e \in (Todo(t) \cap Matching) \ Todo(t)' :
          printed' = printed \cup {e} /\ queue' = queue
  /\ \A e \in (Todo(t) \cap Entries) \ Todo(t)' : e \in Known' \/ Failed(t)'
  /\ \A u \in Threads \ {t} : Same(u)

-----------------------------------------------------------------------------
(* Sequences without repetition.                                           *)

\* Appending a new element adds it to the elements and repeats none.
LEMMA AppendElems ==
  ASSUME NEW S, NEW q \in Seq(S), NEW e \in S, Injective(q), e \notin Elems(q)
  PROVE  /\ Elems(Append(q, e)) = Elems(q) \cup {e}
         /\ Injective(Append(q, e))
<1> DEFINE r == Append(q, e)
<1>1. /\ Len(r) = Len(q) + 1
      /\ r[Len(q) + 1] = e
      /\ \A i \in 1..Len(q) : r[i] = q[i]
  OBVIOUS
<1>2. Len(q) \in Nat
  OBVIOUS
<1>3. Elems(r) = Elems(q) \cup {e}
  BY <1>1, <1>2 DEF Elems
<1>4. Injective(r)
  BY <1>1, <1>2 DEF Elems, Injective
<1> QED
  BY <1>3, <1>4

\* Dropping the head removes exactly that element.
LEMMA TailElems ==
  ASSUME NEW S, NEW q \in Seq(S), q # <<>>, Injective(q)
  PROVE  /\ Head(q) \in Elems(q)
         /\ Elems(Tail(q)) = Elems(q) \ {Head(q)}
         /\ Injective(Tail(q))
<1> DEFINE r == Tail(q)
<1>1. Len(q) \in Nat \ {0} /\ Head(q) = q[1]
  OBVIOUS
<1>2. Len(r) = Len(q) - 1 /\ \A i \in 1..Len(r) : r[i] = q[i + 1]
  OBVIOUS
<1>3. Head(q) \in Elems(q)
  BY <1>1 DEF Elems
<1>4. Elems(r) = Elems(q) \ {Head(q)}
  <2>1. \A i \in 2..Len(q) : i - 1 \in 1..Len(r) /\ q[i] = r[i - 1]
    BY <1>1, <1>2
  <2> HIDE DEF r
  <2> QED
    BY <1>1, <1>2, <2>1 DEF Elems, Injective
<1>5. Injective(r)
  BY <1>1, <1>2 DEF Injective
<1> QED
  BY <1>3, <1>4, <1>5

-----------------------------------------------------------------------------
(* Types.                                                                  *)

\* t goes to label; a thread that waited in the queue loop may be woken.
Wakes(t, label) ==
  /\ pc' \in [Threads -> Labels]
  /\ pc'[t] = label
  /\ \A u \in Threads \ {t} :
       \/ pc'[u] = pc[u]
       \/ pc[u] \in {"wait_handoff", "wait_non_empty"} /\ pc'[u] = "relock"

\* What the three steps that signal or broadcast do to the threads.
LEMMA WakesThreads ==
  ASSUME TypeOK, NEW t \in Threads
  PROVE  /\ Insert(t) => Wakes(t, "scan")
         /\ LastWaiterExits(t) => Wakes(t, "exited")
         /\ RemoveFirst(t) => Wakes(t, "call")
<1> USE DEF TypeOK, Wakes, Labels, Awake, At
<1>1. ASSUME Insert(t) PROVE Wakes(t, "scan")
  <2>1. pc[t] = "inserting"
    BY <1>1 DEF Insert
  <2>2. \/ pc' = [pc EXCEPT ![t] = "scan"]
        \/ \E u \in At("wait_non_empty") :
              pc' = [[pc EXCEPT ![t] = "scan"] EXCEPT ![u] = "relock"]
    BY <1>1 DEF Insert
  <2>3. CASE pc' = [pc EXCEPT ![t] = "scan"]
    BY <2>3
  <2>4. ASSUME NEW u \in At("wait_non_empty"),
               pc' = [[pc EXCEPT ![t] = "scan"] EXCEPT ![u] = "relock"]
        PROVE  Wakes(t, "scan")
    BY <2>1, <2>4
  <2> QED
    BY <2>2, <2>3, <2>4
<1>2. ASSUME LastWaiterExits(t) PROVE Wakes(t, "exited")
  <2>1. pc[t] \in {"locked", "relocked"}
    BY <1>2 DEF LastWaiterExits, AtQueueTest
  <2>2. pc' = Awake(Parked, "relock", [pc EXCEPT ![t] = "exited"])
    BY <1>2 DEF LastWaiterExits, max_num_of_threads_reached
  <2> QED
    BY <2>1, <2>2 DEF Parked
<1>3. ASSUME RemoveFirst(t) PROVE Wakes(t, "call")
  BY <1>3 DEF RemoveFirst, AtQueueTest
<1> QED
  BY <1>1, <1>2, <1>3

\* A thread is counted once, when it first finds the queue empty.
LEMMA CountWaiterType ==
  ASSUME TypeOK, NEW t \in Threads, CountWaiter(t)
  PROVE  wait_cond_threads' \in Nat /\ waiting_mode' \in [Threads -> {0, 1}]
<1>1. wait_cond_threads \in Nat /\ waiting_mode \in [Threads -> {0, 1}]
  BY DEF TypeOK
<1>2. 1 - waiting_mode[t] \in Nat
  BY <1>1
<1> QED
  BY <1>1, <1>2 DEF CountWaiter

\* Every value the program keeps is of its type, and a thread's directory
\* and entry are what its place in the code says (pfind.c:299-362, 492-551).
THEOREM TypeInvariant == Spec => []TypeInv
<1> USE TreeAssumption, ThreadsAssumption
<1>1. Init => TypeInv
  BY DEF Init, TypeInv, TypeOK, Located, EntryInHand, Labels, Entries,
         Searching, Failed
<1>2. ASSUME TypeInv, [Next]_vars PROVE TypeInv'
  <2> USE <1>2 DEF TypeInv, TypeOK, Located, EntryInHand, Searching, Failed,
                   Labels, globals, scan, count, barrier, Goto
  <2>1. ASSUME StartThreads PROVE TypeInv'
    BY <2>1 DEF StartThreads, handle_error
  <2>2. ASSUME BeginSearch PROVE TypeInv'
    BY <2>2 DEF BeginSearch, Awake, At
  <2>3. ASSUME Finish PROVE TypeInv'
    BY <2>3 DEF Finish
  <2>4. ASSUME WakeMain PROVE TypeInv'
    BY <2>4 DEF WakeMain
  <2>5. ASSUME NEW t \in Threads, ThreadBegin(t) PROVE TypeInv'
    BY <2>5 DEF ThreadBegin
  <2>6. ASSUME NEW t \in Threads, Lock(t) PROVE TypeInv'
    BY <2>6 DEF Lock, LockFor, Acquire
  <2>7. ASSUME NEW t \in Threads, AwaitHandoff(t) PROVE TypeInv'
    BY <2>7 DEF AwaitHandoff
  <2>8. ASSUME NEW t \in Threads, AwaitNonEmpty(t) PROVE TypeInv'
    BY <2>8 DEF AwaitNonEmpty, CountWaiter, AtQueueTest
  <2>9. ASSUME NEW t \in Threads, LastWaiterExits(t) PROVE TypeInv'
    <3>1. Wakes(t, "exited")
      BY <2>9, WakesThreads
    <3>2. wait_cond_threads' \in Nat /\ waiting_mode' \in [Threads -> {0, 1}]
      BY <2>9, CountWaiterType DEF LastWaiterExits
    <3> QED
      BY <2>9, <3>1, <3>2 DEF LastWaiterExits, Wakes
  <2>10. ASSUME NEW t \in Threads, RemoveFirst(t) PROVE TypeInv'
    BY <2>10 DEF RemoveFirst, AtQueueTest, Awake, At, remove_first
  <2>11. ASSUME NEW t \in Threads, CallSearch(t) PROVE TypeInv'
    BY <2>11 DEF CallSearch
  <2>12. ASSUME NEW t \in Threads, OpenDir(t) PROVE TypeInv'
    BY <2>12 DEF OpenDir
  <2>13. ASSUME NEW t \in Threads, NEW e \in unread[t], ScanDir(t, e) PROVE TypeInv'
    BY <2>13 DEF ScanDir, ReadEntry, Entries
  <2>14. ASSUME NEW t \in Threads, NEW e \in unread[t], ScanMatch(t, e) PROVE TypeInv'
    BY <2>14 DEF ScanMatch, ReadEntry, Entries
  <2>15. ASSUME NEW t \in Threads, NEW e \in unread[t], SkipEntry(t, e) PROVE TypeInv'
    BY <2>15 DEF SkipEntry, ReadEntry
  <2>16. ASSUME NEW t \in Threads, Insert(t) PROVE TypeInv'
    <3>1. Wakes(t, "scan")
      BY <2>16, WakesThreads
    <3>2. queue' \in Seq(Dirs) /\ handoff_required' \in {0, 1}
      BY <2>16 DEF Insert, insert
    <3>3. pc[t] = "inserting"
      BY <2>16 DEF Insert
    <3> QED
      BY <2>16, <3>1, <3>2, <3>3 DEF Insert, Wakes
  <2>17. ASSUME NEW t \in Threads, CountMatch(t) PROVE TypeInv'
    BY <2>17 DEF CountMatch
  <2>18. ASSUME NEW t \in Threads, StoreMatches(t) PROVE TypeInv'
    BY <2>18 DEF StoreMatches, NewMatches
  <2>19. ASSUME NEW t \in Threads, CloseDir(t) PROVE TypeInv'
    BY <2>19 DEF CloseDir
  <2>20. ASSUME NEW t \in Threads, ErrorExit(t) PROVE TypeInv'
    BY <2>20 DEF ErrorExit
  <2>21. ASSUME NEW t \in Threads, SearchFails(t) PROVE TypeInv'
    BY <2>21 DEF SearchFails
  <2>22. ASSUME NEW t \in Threads, WakeThread(t) PROVE TypeInv'
    <3>1. CASE Goto(t, "relock")
      BY <2>22, <3>1 DEF WakeThread
    <3>2. CASE Goto(t, "loop")
      BY <2>22, <3>2 DEF WakeThread
    <3> QED
      BY <2>22, <3>1, <3>2 DEF WakeThread
  <2>23. ASSUME UNCHANGED vars PROVE TypeInv'
    BY <2>23 DEF vars
  <2> QED
    BY <2>1, <2>2, <2>3, <2>4, <2>5, <2>6, <2>7, <2>8, <2>9, <2>10, <2>11,
       <2>12, <2>13, <2>14, <2>15, <2>16, <2>17, <2>18, <2>19, <2>20, <2>21,
       <2>22, <2>23
    DEF Next, Main, Thread, QueueLoop, DirSearch
<1> QED
  BY <1>1, <1>2, PTL DEF Spec

-----------------------------------------------------------------------------
(* Mutual exclusion.                                                       *)

\* The thread inside a critical section of queue_lock, and no other, owns
\* it, also when waits end early (pfind.c:208-221, 512-544).
THEOREM MutualExclusion == Spec => []LockOwner
<1> USE ThreadsAssumption
<1>1. Init => LockOwner
  BY DEF Init, LockOwner
<1>2. ASSUME LockOwner, TypeInv, [Next]_vars PROVE LockOwner'
  <2> USE <1>2 DEF LockOwner, TypeInv, TypeOK, Goto
  <2>1. ASSUME NEW t \in Threads, QueueLoop(t) PROVE LockOwner'
    <3>1. CASE Lock(t)
      <4>1. /\ pc[t] \in {"loop", "relock", "insert"}
            /\ LockFor[pc[t]] \in {"locked", "relocked", "inserting"}
        BY <3>1 DEF Lock, LockFor
      <4> QED
        BY <3>1, <4>1 DEF Lock, Acquire
    <3>2. CASE AwaitHandoff(t)
      BY <3>2 DEF AwaitHandoff
    <3>3. CASE AwaitNonEmpty(t)
      BY <3>3 DEF AwaitNonEmpty, AtQueueTest
    <3>4. CASE LastWaiterExits(t)
      <4>1. Wakes(t, "exited")
        BY <3>4, WakesThreads
      <4> QED
        BY <3>4, <4>1 DEF LastWaiterExits, AtQueueTest, Wakes
    <3>5. CASE RemoveFirst(t)
      <4>1. Wakes(t, "call")
        BY <3>5, WakesThreads
      <4> QED
        BY ZenonT(60), <3>5, <4>1 DEF RemoveFirst, AtQueueTest, Wakes
    <3> QED
      BY <2>1, <3>1, <3>2, <3>3, <3>4, <3>5 DEF QueueLoop
  <2>2. ASSUME NEW t \in Threads, Insert(t) PROVE LockOwner'
    <3>1. Wakes(t, "scan")
      BY <2>2, WakesThreads
    <3> QED
      BY <2>2, <3>1 DEF Insert, Wakes
  <2>3. ASSUME NEW t \in Threads, DirSearch(t), ~Insert(t) PROVE LockOwner'
    BY <2>3 DEF DirSearch, CallSearch, OpenDir, CountMatch, StoreMatches,
                CloseDir, ErrorExit, ScanDir, ScanMatch, SkipEntry, ReadEntry
  <2>4. ASSUME NEW t \in Threads, ThreadBegin(t) \/ SearchFails(t) PROVE LockOwner'
    BY <2>4 DEF ThreadBegin, SearchFails
  <2>5. ASSUME NEW t \in Threads, WakeThread(t) PROVE LockOwner'
    BY <2>5 DEF WakeThread
  <2>6. CASE Main
    BY <2>6 DEF Main, StartThreads, handle_error, BeginSearch, Finish, Awake, At
  <2>7. CASE WakeMain \/ UNCHANGED vars
    BY <2>7 DEF WakeMain, vars
  <2> QED
    BY <2>1, <2>2, <2>3, <2>4, <2>5, <2>6, <2>7 DEF Next, Thread
<1> QED
  BY <1>1, <1>2, TypeInvariant, PTL DEF Spec

-----------------------------------------------------------------------------
(* Every step is of one of the three kinds.                                *)

Idle == {"begin", "wait_begin", "loop", "locked", "wait_handoff",
         "wait_non_empty", "relock", "relocked", "exited"}

\* A thread whose locals are untouched and whose label stays, or stays
\* outside dir_search, looks the same.
LEMMA SameThread ==
  ASSUME NEW t \in Threads,
         dir_path'[t] = dir_path[t], unread'[t] = unread[t], entry'[t] = entry[t],
         pc'[t] = pc[t] \/ (pc[t] \in Idle /\ pc'[t] \in Idle)
  PROVE  Same(t)
  BY DEF Same, Searching, Failed, Todo, Idle

\* The same for a woken thread.
LEMMA SameOthers ==
  ASSUME NEW t \in Threads, NEW label, Wakes(t, label)
  PROVE  \A u \in Threads \ {t} :
           pc'[u] = pc[u] \/ (pc[u] \in Idle /\ pc'[u] \in Idle)
  BY DEF Wakes, Idle

\* Every step leaves the search as it is, takes a directory from the queue
\* or deals with entries of a directory being searched.
LEMMA StepKinds ==
  ASSUME TypeInv, [Next]_vars
  PROVE  Quiet \/ \E t \in Threads : Takes(t) \/ Works(t)
<1> USE DEF TypeInv, TypeOK, Goto, globals, scan, count
<1>1. ASSUME Main \/ WakeMain \/ UNCHANGED vars PROVE Quiet
  <2>1. /\ UNCHANGED <<queue, visited, printed, dir_path, unread, entry>>
        /\ \A t \in Threads :
             pc'[t] = pc[t] \/ (pc[t] \in Idle /\ pc'[t] \in Idle)
    BY <1>1 DEF Main, StartThreads, handle_error, BeginSearch, Finish, WakeMain, vars, At,
                Awake, Idle
  <2> QED
    BY <2>1, SameThread DEF Quiet
<1>2. ASSUME NEW t \in Threads,
             ThreadBegin(t) \/ WakeThread(t) \/ AwaitHandoff(t) \/ AwaitNonEmpty(t)
      PROVE  Quiet
  <2>1. /\ UNCHANGED <<queue, visited, printed, dir_path, unread, entry>>
        /\ \A u \in Threads :
             pc'[u] = pc[u] \/ (pc[u] \in Idle /\ pc'[u] \in Idle)
    BY <1>2 DEF ThreadBegin, WakeThread, AwaitHandoff, AwaitNonEmpty,
                AtQueueTest, Idle
  <2> QED
    BY <2>1, SameThread DEF Quiet
<1>3. ASSUME NEW t \in Threads, LastWaiterExits(t) PROVE Quiet
  <2>1. Wakes(t, "exited")
    BY <1>3, WakesThreads
  <2>2. /\ UNCHANGED <<queue, visited, printed, dir_path, unread, entry>>
        /\ pc[t] \in Idle /\ pc'[t] \in Idle
    BY <1>3, <2>1 DEF LastWaiterExits, AtQueueTest, Idle, Wakes
  <2> QED
    BY <2>1, <2>2, SameThread, SameOthers DEF Quiet
<1>4. ASSUME NEW t \in Threads, Lock(t) PROVE Quiet
  <2>1. /\ pc[t] \in {"loop", "relock", "insert"}
        /\ UNCHANGED <<queue, visited, printed, dir_path, unread, entry>>
        /\ \A u \in Threads \ {t} : pc'[u] = pc[u]
        /\ pc[t] = "insert" => pc'[t] = "inserting"
        /\ pc[t] # "insert" => pc[t] \in Idle /\ pc'[t] \in Idle
    BY <1>4 DEF Lock, LockFor, Idle
  <2>2. Same(t)
    <3>1. CASE pc[t] = "insert"
      BY <2>1, <3>1 DEF Same, Searching, Failed, Todo
    <3>2. CASE pc[t] # "insert"
      BY <2>1, <3>2, SameThread
    <3> QED
      BY <3>1, <3>2
  <2> QED
    BY <2>1, <2>2, SameThread DEF Quiet
<1>5. ASSUME NEW t \in Threads, RemoveFirst(t) PROVE Takes(t)
  <2>1. Wakes(t, "call")
    BY <1>5, WakesThreads
  <2>2. \A u \in Threads \ {t} : Same(u)
    BY <1>5, <2>1, SameThread, SameOthers DEF RemoveFirst
  <2>3. pc[t] \in Idle /\ pc'[t] = "call" /\ dir_path'[t] = Head(queue)
    BY <1>5, <2>1 DEF RemoveFirst, AtQueueTest, Idle, Wakes
  <2> QED
    BY <1>5, <2>2, <2>3 DEF RemoveFirst, remove_first, Takes, Searching, Failed,
                            Todo, Idle
<1>6. ASSUME NEW t \in Threads,
             CallSearch(t) \/ OpenDir(t) \/ StoreMatches(t) \/ ErrorExit(t)
      PROVE  Quiet
  <2>1. \A u \in Threads \ {t} : Same(u)
    BY <1>6, SameThread DEF CallSearch, OpenDir, StoreMatches, ErrorExit
  <2>2. Same(t)
    <3>1. CASE CallSearch(t)
      BY <3>1 DEF CallSearch, Same, Searching, Failed, Todo
    <3>2. CASE OpenDir(t)
      BY <3>2 DEF OpenDir, Same, Searching, Failed, Todo
    <3>3. CASE StoreMatches(t)
      BY <3>3 DEF StoreMatches, Same, Searching, Failed, Todo
    <3>4. CASE ErrorExit(t)
      BY <3>4 DEF ErrorExit, Same, Searching, Failed, Todo
    <3> QED
      BY <1>6, <3>1, <3>2, <3>3, <3>4
  <2> QED
    BY <1>6, <2>1, <2>2
    DEF Quiet, CallSearch, OpenDir, StoreMatches, ErrorExit
<1>7. ASSUME NEW t \in Threads, NEW e \in unread[t],
             ScanDir(t, e) \/ ScanMatch(t, e)
      PROVE  Quiet
  <2>1. \A u \in Threads \ {t} : Same(u)
    BY <1>7, SameThread DEF ScanDir, ScanMatch, ReadEntry
  <2>2. /\ pc[t] = "scan" /\ pc'[t] \in {"insert", "count"}
        /\ unread'[t] = unread[t] \ {e} /\ entry'[t] = e
        /\ UNCHANGED <<dir_path, queue, visited, printed>>
    BY <1>7 DEF ScanDir, ScanMatch, ReadEntry
  <2>3. Todo(t) = unread[t] /\ Todo(t)' = unread[t]
    BY <2>2 DEF Todo
  <2>4. Same(t)
    BY <2>2, <2>3 DEF Same, Searching, Failed
  <2> QED
    BY <2>1, <2>2, <2>4 DEF Quiet
<1>8. ASSUME NEW t \in Threads, NEW e \in unread[t], SkipEntry(t, e)
      PROVE  Works(t)
  BY <1>8 DEF SkipEntry, ReadEntry, Works, Same, Searching, Failed, Todo
<1>9. ASSUME NEW t \in Threads, CloseDir(t) \/ SearchFails(t) PROVE Works(t)
  BY <1>9 DEF CloseDir, SearchFails, Works, Same, Searching, Failed, Todo
<1>10. ASSUME NEW t \in Threads, Insert(t) PROVE Works(t)
  <2>1. Wakes(t, "scan")
    BY <1>10, WakesThreads
  <2>2. /\ UNCHANGED <<visited, printed, dir_path, unread, entry>>
        /\ pc[t] = "inserting" /\ pc'[t] = "scan"
        /\ queue' = Append(queue, entry[t])
    BY <1>10, <2>1 DEF Insert, insert, Wakes
  <2>3. entry[t] \in Dirs \ unread[t]
    BY <2>2 DEF EntryInHand
  <2>4. \A u \in Threads \ {t} : Same(u)
    BY <2>1, <2>2, SameThread, SameOthers
  <2>5. entry[t] \in Elems(queue')
    <3>1. Len(queue') = Len(queue) + 1 /\ queue'[Len(queue) + 1] = entry[t]
      BY <2>2, <2>3
    <3> QED
      BY SMTT(30), <3>1 DEF Elems
  <2> QED
    BY <2>2, <2>3, <2>4, <2>5 DEF Works, Searching, Failed, Todo, Known
<1>11. ASSUME NEW t \in Threads, CountMatch(t) PROVE Works(t)
  <2>1. entry[t] \in Matching \ unread[t]
    BY <1>11 DEF CountMatch, EntryInHand
  <2> QED
    BY <1>11, <2>1 DEF CountMatch, Works, Same, Searching, Failed, Todo, Known
<1> QED
  BY <1>1, <1>2, <1>3, <1>4, <1>5, <1>6, <1>7, <1>8, <1>9, <1>10, <1>11
  DEF Next, Thread, QueueLoop, DirSearch

-----------------------------------------------------------------------------
(* The work invariant.                                                     *)

\* At the start only the root is known, and no thread works (pfind.c:704-717).
LEMMA WorkInvInit == Init => WorkInv
<1> SUFFICES ASSUME Init PROVE WorkInv
  OBVIOUS
<1> USE DEF Init, Searching, Failed, Known, Elems
<1>1. Elems(queue) = {Root}
  OBVIOUS
<1>2. TodoFresh /\ OneSearcher /\ Reached /\ Covered
  BY DEF TodoFresh, OneSearcher, Reached, Covered
<1>3. QueueFresh
  BY DEF QueueFresh, Injective
<1> QED
  BY <1>2, <1>3 DEF WorkInv

\* A step that leaves the search as it is keeps the invariant.
LEMMA QuietKeepsWorkInv ==
  ASSUME WorkInv, Quiet PROVE WorkInv'
<1> USE DEF WorkInv, Quiet, Same
<1>1. Known' = Known /\ Elems(queue)' = Elems(queue)
  BY DEF Known, Elems
<1>2. TodoFresh' /\ OneSearcher' /\ Reached'
  BY <1>1 DEF TodoFresh, OneSearcher, Reached
<1>3. QueueFresh'
  BY <1>1 DEF QueueFresh, Injective
<1>4. Covered'
  BY <1>1 DEF Covered
<1> QED
  BY <1>2, <1>3, <1>4

\* So does dequeuing: the directory is new to visited, and since an entry has
\* one parent nothing in it is known yet (pfind.c:540).
LEMMA TakesKeepsWorkInv ==
  ASSUME TypeInv, WorkInv, NEW t \in Threads, Takes(t) PROVE WorkInv'
<1> DEFINE d == Head(queue)
<1> USE TreeAssumption DEF WorkInv, TypeInv, TypeOK
<1>1. /\ d \in Elems(queue)
      /\ Elems(queue') = Elems(queue) \ {d}
      /\ Injective(queue')
  BY TailElems DEF Takes, QueueFresh
<1>2. d \in Dirs /\ d \notin visited
  BY <1>1 DEF Elems, QueueFresh
<1>3. Known' = Known
  BY <1>1 DEF Known, Takes
<1>4. QueueFresh'
  BY <1>1 DEF QueueFresh, Takes
<1>5. Contents[d] \cap Known = {}
  <2> SUFFICES ASSUME NEW e \in Contents[d] \cap Known PROVE FALSE
    OBVIOUS
  <2>1. e # Root
    BY <1>2
  <2>2. PICK c \in visited : e \in Contents[c]
    BY <2>1 DEF Reached
  <2> QED
    BY <1>2, <2>2
<1>6. TodoFresh'
  <2> SUFFICES ASSUME NEW u \in Threads, Searching(u)'
               PROVE  /\ Todo(u)' \subseteq Contents[dir_path'[u]]
                      /\ Todo(u)' \cap Known' = {}
    BY DEF TodoFresh
  <2>1. CASE u = t
    BY <1>3, <1>5, <2>1 DEF Takes
  <2>2. CASE u # t
    BY <1>3, <2>2 DEF TodoFresh, Takes, Same
  <2> QED
    BY <2>1, <2>2
<1>7. OneSearcher'
  <2>1. \A u \in Threads \ {t} : Searching(u)' => dir_path'[u] # dir_path'[t]
    BY <1>2 DEF Takes, Same, Located
  <2> QED
    BY <2>1 DEF OneSearcher, Takes, Same
<1>8. Reached'
  BY <1>3 DEF Reached, Takes
<1>9. Covered'
  <2>1. Root \in Known'
    BY <1>3 DEF Covered
  <2>2. ASSUME NEW c \in visited', NEW e \in Contents[c] \cap Entries, e \notin Known'
        PROVE  \E u \in Threads : dir_path'[u] = c /\ (Failed(u)' \/ e \in Todo(u)')
    <3>1. CASE c = d
      BY <2>2, <3>1 DEF Takes
    <3>2. CASE c # d
      <4>1. c \in visited /\ e \notin Known
        BY <1>3, <2>2, <3>2 DEF Takes
      <4>2. PICK u \in Threads : dir_path[u] = c /\ (Failed(u) \/ e \in Todo(u))
        BY <4>1 DEF Covered
      <4>3. u # t
        BY <4>2 DEF Takes, Todo, Searching
      <4>4. Same(u)
        BY <4>3 DEF Takes
      <4>5. dir_path'[u] = c /\ (Failed(u)' \/ e \in Todo(u)')
        BY <4>2, <4>4 DEF Same
      <4> QED
        BY <4>5
    <3> QED
      BY <3>1, <3>2
  <2> QED
    BY <2>1, <2>2 DEF Covered
<1> QED
  BY <1>4, <1>6, <1>7, <1>8, <1>9

\* So does dealing with entries: they lie in a directory no other thread
\* searches, and an entry given up is known or its thread has failed
\* (pfind.c:317-357).
LEMMA WorksKeepsWorkInv ==
  ASSUME TypeInv, WorkInv, NEW t \in Threads, Works(t) PROVE WorkInv'
<1> DEFINE d == dir_path[t]
<1> USE TreeAssumption DEF WorkInv, TypeInv, TypeOK
<1>1. /\ d \in visited /\ d \in Dirs
      /\ Todo(t) \subseteq Contents[d]
      /\ Todo(t) \cap Known = {}
  BY DEF Works, Located, TodoFresh
<1>2. QueueFresh' /\ Elems(queue') \subseteq Elems(queue) \cup (Todo(t) \ Todo(t)')
      /\ Elems(queue) \subseteq Elems(queue')
  <2>1. CASE queue' = queue
    BY <2>1 DEF QueueFresh, Works
  <2>2. ASSUME NEW e \in (Todo(t) \cap Dirs) \ Todo(t)', queue' = Append(queue, e)
        PROVE  QueueFresh' /\ Elems(queue') = Elems(queue) \cup {e}
    <3>1. e \notin Elems(queue) /\ e \notin visited
      BY <1>1 DEF Known
    <3>2. Elems(queue') = Elems(queue) \cup {e} /\ Injective(queue')
      BY <2>2, <3>1, AppendElems DEF QueueFresh
    <3> QED
      BY <3>1, <3>2 DEF QueueFresh, Works
  <2> QED
    BY <2>1, <2>2 DEF Works
<1>3. /\ Known \subseteq Known'
      /\ Known' \subseteq Known \cup (Todo(t) \ Todo(t)')
  BY <1>2 DEF Known, Works
<1>4. TodoFresh'
  <2> SUFFICES ASSUME NEW u \in Threads, Searching(u)'
               PROVE  /\ Todo(u)' \subseteq Contents[dir_path'[u]]
                      /\ Todo(u)' \cap Known' = {}
    BY DEF TodoFresh
  <2>1. CASE u = t
    BY <1>1, <1>3, <2>1 DEF Works
  <2>2. CASE u # t
    <3>1. /\ Searching(u) /\ dir_path'[u] = dir_path[u]
          /\ Todo(u)' = Todo(u)
      BY <2>2 DEF Works, Same
    <3>2. dir_path[u] # d /\ dir_path[u] \in Dirs
      BY <2>2, <3>1 DEF OneSearcher, Works, Located
    <3>3. Todo(u) \cap Todo(t) = {}
      BY <1>1, <3>1, <3>2 DEF TodoFresh
    <3> QED
      BY <1>3, <3>1, <3>3 DEF TodoFresh
  <2> QED
    BY <2>1, <2>2
<1>5. OneSearcher'
  BY DEF OneSearcher, Works, Same
<1>6. Reached'
  BY <1>1, <1>3 DEF Reached, Works
<1>7. Covered'
  <2>1. Root \in Known'
    BY <1>3 DEF Covered
  <2>2. ASSUME NEW c \in visited', NEW e \in Contents[c] \cap Entries, e \notin Known'
        PROVE  \E u \in Threads : dir_path'[u] = c /\ (Failed(u)' \/ e \in Todo(u)')
    <3>1. c \in visited /\ e \notin Known
      BY <1>3, <2>2 DEF Works
    <3>2. PICK u \in Threads : dir_path[u] = c /\ (Failed(u) \/ e \in Todo(u))
      BY <3>1 DEF Covered
    <3>3. CASE u = t
      <4>1. e \in Todo(t)
        BY <3>2, <3>3 DEF Works, Searching, Failed
      <4> QED
        BY <2>2, <3>2, <3>3, <4>1 DEF Works
    <3>4. CASE u # t
      <4>1. Same(u)
        BY <3>4 DEF Works
      <4>2. dir_path'[u] = c /\ (Failed(u)' \/ e \in Todo(u)')
        BY <3>2, <4>1 DEF Same
      <4> QED
        BY <4>2
    <3> QED
      BY <3>3, <3>4
  <2> QED
    BY <2>1, <2>2 DEF Covered
<1> QED
  BY <1>2, <1>4, <1>5, <1>6, <1>7

\* At every moment each entry of a visited directory is known, or one thread,
\* the only one searching there, still has it (pfind.c:299-362, 508-551).
THEOREM WorkInvariant == Spec => []WorkInv
<1>1. TypeInv /\ WorkInv /\ [Next]_vars => WorkInv'
  BY StepKinds, QuietKeepsWorkInv, TakesKeepsWorkInv, WorksKeepsWorkInv
<1> QED
  BY WorkInvInit, <1>1, TypeInvariant, PTL DEF Spec

-----------------------------------------------------------------------------
(* What the work invariant says of the program.                            *)

\* No directory is handed to two threads, queued twice, or queued after it
\* was handed out (pfind.c:116-170, 540).
THEOREM NoRepeatedSearch == Spec => []SearchedOnce
<1>1. WorkInv => SearchedOnce
  BY DEF WorkInv, OneSearcher, QueueFresh, SearchedOnce, Injective, Elems
<1> QED
  BY <1>1, WorkInvariant, PTL

\* When all threads have exited by themselves the queue is empty.
ExitInv == (\A t \in Threads : pc[t] = "exited") => queue = <<>>

\* When all threads have exited the queue is empty (pfind.c:524-533).
LEMMA ExitInvariant == Spec => []ExitInv
<1> USE ThreadsAssumption DEF ExitInv
<1>1. Init => ExitInv
  BY DEF Init
<1>2. ASSUME TypeInv, ExitInv, [Next]_vars PROVE ExitInv'
  <2> SUFFICES ASSUME \A t \in Threads : pc'[t] = "exited" PROVE queue' = <<>>
    OBVIOUS
  <2> USE <1>2 DEF TypeInv, TypeOK, Goto
  <2>1. ASSUME NEW t \in Threads, LastWaiterExits(t) PROVE queue' = <<>>
    BY <2>1 DEF LastWaiterExits
  <2>2. CASE Main \/ WakeMain \/ UNCHANGED vars
    <3>1. queue' = queue /\ \A t \in Threads : pc[t] = "exited"
      BY <2>2 DEF Main, StartThreads, handle_error, BeginSearch, Finish, WakeMain, vars,
                  globals, At, Awake
    <3> QED
      BY <3>1
  <2>3. ASSUME NEW t \in Threads, QueueLoop(t), ~LastWaiterExits(t)
        PROVE  FALSE
    <3>1. CASE Lock(t)
      BY <3>1 DEF Lock, LockFor
    <3>2. CASE RemoveFirst(t)
      BY <3>2, WakesThreads DEF Wakes
    <3>3. CASE AwaitHandoff(t) \/ AwaitNonEmpty(t)
      BY <3>3 DEF AwaitHandoff, AwaitNonEmpty
    <3> QED
      BY <2>3, <3>1, <3>2, <3>3 DEF QueueLoop
  <2>4. ASSUME NEW t \in Threads, Insert(t) PROVE FALSE
    BY <2>4, WakesThreads DEF Wakes
  <2>5. ASSUME NEW t \in Threads, DirSearch(t), ~Insert(t) PROVE FALSE
    BY <2>5 DEF DirSearch, CallSearch, OpenDir, CountMatch, StoreMatches,
                CloseDir, ErrorExit, ScanDir, ScanMatch, SkipEntry, ReadEntry
  <2>6. ASSUME NEW t \in Threads,
               ThreadBegin(t) \/ SearchFails(t) \/ WakeThread(t)
        PROVE  FALSE
    BY <2>6 DEF ThreadBegin, SearchFails, WakeThread
  <2> QED
    BY <2>1, <2>2, <2>3, <2>4, <2>5, <2>6 DEF Next, Thread
<1> QED
  BY <1>1, <1>2, TypeInvariant, PTL DEF Spec

\* A search that ends without a failed thread is complete, whatever the
\* waiting counter says and however early some threads exit (pfind.c:527).
THEOREM CompleteSearch == Spec => []CompleteAtExit
<1>1. ASSUME TypeInv, WorkInv, ExitInv PROVE CompleteAtExit
  <2> SUFFICES ASSUME \A t \in Threads : pc[t] = "exited"
               PROVE  /\ queue = <<>>
                      /\ Root \in visited
                      /\ \A d \in visited :
                           /\ Contents[d] \cap Dirs \subseteq visited
                           /\ Contents[d] \cap Matching \subseteq printed
    BY DEF CompleteAtExit
  <2>1. queue = <<>> /\ Elems(queue) = {}
    BY <1>1 DEF ExitInv, Elems
  <2>2. Known = visited \cup printed
    BY <2>1 DEF Known
  <2>3. visited \subseteq Dirs /\ printed \subseteq Matching
    BY <1>1 DEF TypeInv, TypeOK
  <2>4. \A t \in Threads : ~Failed(t) /\ Todo(t) = {}
    BY DEF Failed, Todo
  <2>5. \A d \in visited : Contents[d] \cap Entries \subseteq visited \cup printed
    BY <1>1, <2>2, <2>4 DEF WorkInv, Covered
  <2>6. Root \in visited
    BY <1>1, <2>2, <2>3, TreeAssumption DEF WorkInv, Covered
  <2> QED
    BY <2>1, <2>3, <2>5, <2>6, TreeAssumption DEF Entries
<1> QED
  BY <1>1, TypeInvariant, WorkInvariant, ExitInvariant, PTL

-----------------------------------------------------------------------------
(* The match counter.                                                      *)

\* A value on its way into matches counts at most what has been printed.
MatchInv ==
  /\ IsFiniteSet(printed)
  /\ matches <= Cardinality(printed)
  /\ \A t \in Threads :
       pc[t] \in {"count", "store"} => matches_arg[t] <= Cardinality(printed)

\* The bound on matches is inductive with the values threads hold (pfind.c:226).
LEMMA MatchInvariant == Spec => []MatchInv
<1>1. Init => MatchInv
  BY FS_EmptySet DEF Init, MatchInv
<1>2. ASSUME TypeInv, WorkInv, MatchInv, [Next]_vars PROVE MatchInv'
  <2> USE <1>2 DEF TypeInv, TypeOK, MatchInv, Goto, count
  <2>1. Cardinality(printed) \in Nat
    BY FS_CardinalityType
  <2>2. ASSUME NEW t \in Threads, CountMatch(t) PROVE MatchInv'
    <3>1. entry[t] \notin printed
      BY <2>2 DEF CountMatch, WorkInv, TodoFresh, Searching, Todo, Known
    <3>2. /\ IsFiniteSet(printed')
          /\ Cardinality(printed') = Cardinality(printed) + 1
      BY <2>2, <3>1, FS_AddElement DEF CountMatch
    <3>3. matches' <= Cardinality(printed')
      BY <2>1, <2>2, <3>2 DEF CountMatch
    <3>4. ASSUME NEW u \in Threads, pc'[u] \in {"count", "store"}
          PROVE  matches_arg'[u] <= Cardinality(printed')
      <4>1. matches_arg[u] <= Cardinality(printed)
        BY <2>2, <3>4 DEF CountMatch
      <4>2. matches_arg'[u] \in {matches_arg[u], matches_arg[u] + 1}
        BY <2>2 DEF CountMatch
      <4> QED
        BY <2>1, <3>2, <4>1, <4>2
    <3> QED
      BY <3>2, <3>3, <3>4
  <2>3. ASSUME NEW t \in Threads, StoreMatches(t) PROVE MatchInv'
    BY <2>1, <2>3 DEF StoreMatches, NewMatches
  <2>4. ASSUME NEW t \in Threads, NEW e \in unread[t], ScanMatch(t, e)
        PROVE  MatchInv'
    BY <2>1, <2>4 DEF ScanMatch, ReadEntry
  <2>5. ASSUME NEW t \in Threads, QueueLoop(t) PROVE MatchInv'
    <3>1. \A u \in Threads : pc'[u] \in {"count", "store"} => pc'[u] = pc[u]
      <4>1. CASE Lock(t)
        BY <4>1 DEF Lock, LockFor
      <4>2. CASE AwaitHandoff(t) \/ AwaitNonEmpty(t)
        BY <4>2 DEF AwaitHandoff, AwaitNonEmpty
      <4>3. CASE LastWaiterExits(t) \/ RemoveFirst(t)
        BY <4>3, WakesThreads DEF Wakes
      <4> QED
        BY <2>5, <4>1, <4>2, <4>3 DEF QueueLoop
    <3> QED
      BY <2>5, <3>1 DEF QueueLoop, Lock, AwaitHandoff, AwaitNonEmpty,
                        LastWaiterExits, RemoveFirst
  <2>6. ASSUME NEW t \in Threads, Insert(t) PROVE MatchInv'
    <3>1. Wakes(t, "scan")
      BY <2>6, WakesThreads
    <3> QED
      BY <2>6, <3>1 DEF Insert, Wakes
  <2>7. ASSUME NEW t \in Threads,
               \/ ThreadBegin(t) \/ WakeThread(t) \/ SearchFails(t)
               \/ CallSearch(t) \/ OpenDir(t) \/ CloseDir(t) \/ ErrorExit(t)
        PROVE  MatchInv'
    BY <2>7 DEF ThreadBegin, WakeThread, SearchFails, CallSearch, OpenDir,
                CloseDir, ErrorExit
  <2>8. ASSUME NEW t \in Threads, NEW e \in unread[t],
               ScanDir(t, e) \/ SkipEntry(t, e)
        PROVE  MatchInv'
    BY <2>8 DEF ScanDir, SkipEntry, ReadEntry
  <2>9. CASE Main \/ WakeMain \/ UNCHANGED vars
    BY <2>9 DEF Main, StartThreads, handle_error, BeginSearch, Finish, WakeMain, vars, At, Awake
  <2> QED
    BY <2>2, <2>3, <2>4, <2>5, <2>6, <2>7, <2>8, <2>9 DEF Next, Thread, DirSearch
<1> QED
  BY <1>1, <1>2, TypeInvariant, WorkInvariant, PTL DEF Spec

\* However the unlocked reads and writes of matches interleave, at most as
\* many matches are counted as printed (pfind.c:226-232, 354).
THEOREM NoMatchInvented == Spec => []MatchesBounded
<1>1. MatchInv => MatchesBounded
  BY DEF MatchInv, MatchesBounded
<1> QED
  BY <1>1, MatchInvariant, PTL

-----------------------------------------------------------------------------
(* The abstract search.                                                    *)

\* Before the first and after the last step of main no thread is active.
MainInv ==
  /\ main = "start" => \A t \in Threads : pc[t] = "begin"
  /\ main = "exited" =>
       \/ exit_code = 1 /\ \A t \in Threads : pc[t] = "begin"
       \/ \A t \in Threads : pc[t] \in {"exited", "failed"}

\* Once main has exited nothing moves.
LEMMA NothingAfterExit ==
  ASSUME TypeInv, MainInv, main = "exited", [Next]_vars
  PROVE  UNCHANGED vars
<1> SUFFICES ASSUME Next PROVE FALSE
  OBVIOUS
<1>1. ~Main /\ ~WakeMain
  BY DEF Main, StartThreads, handle_error, BeginSearch, Finish, WakeMain
<1>2. ASSUME NEW t \in Threads PROVE pc[t] \in {"begin", "exited", "failed"}
  BY DEF MainInv
<1>3. ASSUME NEW t \in Threads PROVE ~QueueLoop(t)
  BY <1>2 DEF QueueLoop, Lock, LockFor, AwaitHandoff, AwaitNonEmpty, AtQueueTest,
              LastWaiterExits, RemoveFirst
<1>4. ASSUME NEW t \in Threads PROVE ~DirSearch(t)
  BY <1>2 DEF DirSearch, CallSearch, OpenDir, Insert, CountMatch, StoreMatches,
              CloseDir, ErrorExit, ScanDir, ScanMatch, SkipEntry, ReadEntry
<1>5. ASSUME NEW t \in Threads
      PROVE  ~ThreadBegin(t) /\ ~SearchFails(t) /\ ~WakeThread(t)
  BY <1>2 DEF ThreadBegin, SearchFails, WakeThread
<1> QED
  BY <1>1, <1>3, <1>4, <1>5 DEF Next, Thread

\* A thread changes nothing of main, except that the last to begin wakes it.
LEMMA ThreadsKeepMain ==
  ASSUME NEW t \in Threads, Thread(t) \/ SearchFails(t) \/ WakeThread(t)
  PROVE  main' = main \/ (ThreadBegin(t) /\ main' = "woken")
  BY DEF Thread, ThreadBegin, QueueLoop, DirSearch, Lock, AwaitHandoff,
         AwaitNonEmpty, LastWaiterExits, RemoveFirst, CallSearch, OpenDir,
         Insert, CountMatch, StoreMatches, CloseDir, ErrorExit, ScanDir,
         ScanMatch, SkipEntry, SearchFails, WakeThread, barrier

\* main creates the threads first and joins them last (pfind.c:652-661, 638-648).
LEMMA MainInvariant == Spec => []MainInv
<1>1. Init => MainInv
  BY DEF Init, MainInv
<1>2. ASSUME TypeInv, MainInv, [Next]_vars PROVE MainInv'
  <2>1. CASE main = "exited"
    BY <1>2, <2>1, NothingAfterExit DEF MainInv, vars, barrier
  <2>2. CASE main # "exited" /\ (Main \/ WakeMain \/ UNCHANGED vars)
    BY <1>2, <2>2 DEF MainInv, Main, StartThreads, handle_error, BeginSearch, Finish, WakeMain,
                      vars, barrier
  <2>3. ASSUME NEW t \in Threads, main # "exited",
               Thread(t) \/ SearchFails(t) \/ WakeThread(t)
        PROVE  MainInv'
    <3>1. main' # "exited" /\ (main' = "start" => main = "start")
      BY <2>3, ThreadsKeepMain
    <3>2. main # "start"
      <4> SUFFICES ASSUME \A u \in Threads : pc[u] = "begin", main = "start"
                   PROVE  FALSE
        BY <1>2 DEF MainInv
      <4> QED
        BY <2>3 DEF Thread, ThreadBegin, QueueLoop, DirSearch, Lock, LockFor,
           AwaitHandoff, AwaitNonEmpty, AtQueueTest, LastWaiterExits, RemoveFirst,
           CallSearch, OpenDir, Insert, CountMatch, StoreMatches, CloseDir,
           ErrorExit, ScanDir, ScanMatch, SkipEntry, ReadEntry, SearchFails,
           WakeThread
    <3> QED
      BY <3>1, <3>2 DEF MainInv
  <2> QED
    BY <1>2, <2>1, <2>2, <2>3 DEF Next
<1> QED
  BY <1>1, <1>2, TypeInvariant, PTL DEF Spec

\* A step that neither begins nor ends with main exited leaves result alone;
\* the two that end there are steps of main.
LEMMA ResultSteps ==
  ASSUME [Next]_vars, main # "exited", main' = "exited"
  PROVE  StartThreads \/ Finish
  BY ThreadsKeepMain
  DEF Next, Main, BeginSearch, WakeMain, vars, barrier

\* pfind implements the abstract search: a directory is handed out once, a
\* match reported once, and an end without failures is a complete search
\* (pfind.c:116-170, 207-222, 299-362, 638-650).
THEOREM Refinement == Spec => ImplementsSearch
<1>1. Init => Search!AbsInit
  BY DEF Init, Search!AbsInit
<1>2. ASSUME TypeInv, WorkInv, MainInv, ExitInv, CompleteAtExit', [Next]_vars
      PROVE  [Search!AbsNext]_(Search!absvars)
  <2> USE TreeAssumption DEF TypeInv, TypeOK
  <2>1. CASE main = "exited"
    BY <1>2, <2>1, NothingAfterExit
    DEF vars, globals, barrier, count, Search!absvars
  <2>2. CASE StartThreads \/ Finish
    <3>1. UNCHANGED <<queue, visited, printed>> /\ main # "exited"
      BY <2>2 DEF StartThreads, handle_error, Finish, globals, count
    <3>2. CASE main' # "exited"
      BY <3>1, <3>2 DEF Search!absvars
    <3>3. CASE main' = "exited" /\ ~(exit_code' = 0 /\ \A t \in Threads : pc'[t] = "exited")
      BY <3>1, <3>3 DEF Search!GiveUp, Search!AbsNext
    <3>4. CASE main' = "exited" /\ exit_code' = 0 /\ \A t \in Threads : pc'[t] = "exited"
      <4>1. Search!Exhausted
        BY SMTT(30), <1>2, <3>1, <3>4 DEF CompleteAtExit, Search!Exhausted
      <4> QED
        BY <3>1, <3>4, <4>1 DEF Search!Complete, Search!AbsNext
    <3> QED
      BY <3>2, <3>3, <3>4
  <2>3. CASE main # "exited" /\ main' # "exited"
    <3>1. CASE Quiet
      BY <2>3, <3>1 DEF Quiet, Search!absvars
    <3>2. ASSUME NEW t \in Threads, Takes(t) PROVE Search!AbsNext
      <4>1. /\ Head(queue) \in Elems(queue)
            /\ Elems(queue') = Elems(queue) \ {Head(queue)}
        BY <1>2, <3>2, TailElems DEF Takes, WorkInv, QueueFresh
      <4>2. PICK d \in Dirs : d = Head(queue)
        BY <1>2, <3>2 DEF Takes
      <4>3. Search!Visit(d)
        BY <2>3, <3>2, <4>1, <4>2 DEF Takes, Search!Visit, Elems
      <4> QED
        BY <4>3 DEF Search!AbsNext
    <3>3. ASSUME NEW t \in Threads, Works(t)
          PROVE  [Search!AbsNext]_(Search!absvars)
      <4> DEFINE d == dir_path[t]
      <4>1. /\ d \in visited /\ d \in Dirs
            /\ Todo(t) \subseteq Contents[d]
            /\ Todo(t) \cap Known = {}
        BY <1>2, <3>3 DEF Works, Located, WorkInv, TodoFresh
      <4>2. CASE UNCHANGED <<queue, printed>>
        BY <2>3, <3>3, <4>2 DEF Works, Search!absvars
      <4>3. ASSUME NEW e \in (Todo(t) \cap Dirs) \ Todo(t)',
                   queue' = Append(queue, e), printed' = printed
            PROVE  Search!AbsNext
        <5>1. Elems(queue') = Elems(queue) \cup {e}
          BY <1>2, <4>1, <4>3, AppendElems DEF WorkInv, QueueFresh, Known
        <5>2. Search!Discover(d, e)
          BY <2>3, <3>3, <4>1, <4>3, <5>1
          DEF Works, Known, Elems, Search!Discover
        <5> QED
          BY <4>1, <5>2 DEF Search!AbsNext
      <4>4. ASSUME NEW e \in (Todo(t) \cap Matching) \ Todo(t)',
                   printed' = printed \cup {e}, queue' = queue
            PROVE  Search!AbsNext
        <5>1. Search!Report(d, e)
          BY <2>3, <3>3, <4>1, <4>4 DEF Works, Known, Search!Report
        <5> QED
          BY <4>1, <5>1 DEF Search!AbsNext
      <4> QED
        BY <3>3, <4>2, <4>3, <4>4 DEF Works
    <3> QED
      BY <1>2, <3>1, <3>2, <3>3, StepKinds
  <2> QED
    BY <1>2, <2>1, <2>2, <2>3, ResultSteps
<1> QED
  BY <1>1, <1>2, TypeInvariant, WorkInvariant, MainInvariant, ExitInvariant,
     CompleteSearch, PTL
  DEF Spec, ImplementsSearch, Search!AbsSpec

-----------------------------------------------------------------------------
(* What the threads wait for: the counter of waiting threads, which decides *)
(* when they exit, and the start barrier.                                  *)

\* Every value the program keeps is of its type (pfind.c:44-66, 492-551).
THEOREM TypeCorrect == Spec => []TypeOK
<1>1. TypeInv => TypeOK
  BY DEF TypeInv
<1> QED
  BY <1>1, TypeInvariant, PTL

-----------------------------------------------------------------------------
(* The counter of waiting threads.                                         *)

Waiting == {t \in Threads : waiting_mode[t] = 1}

\* Without a handoff a thread that has counted itself is still waiting, has
\* been woken to find the queue empty again, or has exited.
StillWaiting ==
  \A t \in Waiting : pc[t] \in {"wait_non_empty", "relock", "relocked", "exited"}

CounterInv ==
  handoff_required = 0 =>
    /\ wait_cond_threads = Cardinality(Waiting)
    /\ wait_cond_threads > 0 => queue = <<>>
    /\ StillWaiting

\* A thread that counts itself makes one more waiting thread, once.
LEMMA CountedOnce ==
  ASSUME TypeOK, NEW t \in Threads, CountWaiter(t),
         wait_cond_threads = Cardinality(Waiting)
  PROVE  /\ wait_cond_threads' = Cardinality(Waiting')
         /\ Waiting' = Waiting \cup {t}
<1>1. IsFiniteSet(Waiting) /\ Cardinality(Waiting) \in Nat
  BY ThreadsAssumption, FS_Subset, FS_CardinalityType DEF Waiting
<1>2. Waiting' = Waiting \cup {t}
  BY DEF CountWaiter, TypeOK, Waiting
<1>3. Cardinality(Waiting \cup {t}) =
        IF t \in Waiting THEN Cardinality(Waiting) ELSE Cardinality(Waiting) + 1
  BY <1>1, FS_AddElement
<1>4. wait_cond_threads' = IF t \in Waiting THEN wait_cond_threads ELSE wait_cond_threads + 1
  BY DEF CountWaiter, TypeOK, Waiting
<1> QED
  BY <1>2, <1>3, <1>4

\* Without a handoff only a thread that found the queue empty is counted, and
\* it stays so until a directory is inserted, which is a handoff.
LEMMA CounterSteps ==
  ASSUME TypeInv, CounterInv, [Next]_vars, handoff_required' = 0
  PROVE  CounterInv'
<1> USE DEF TypeInv, TypeOK, Goto, globals, scan, count, barrier
<1>1. CASE Main \/ WakeMain \/ UNCHANGED vars
  <2>1. /\ UNCHANGED <<wait_cond_threads, handoff_required, waiting_mode, queue>>
        /\ \A t \in Threads : pc'[t] = pc[t] \/ (pc[t] = "wait_begin" /\ pc'[t] = "loop")
    BY <1>1 DEF Main, StartThreads, BeginSearch, Finish, WakeMain, vars, Awake, At
  <2> QED
    BY <2>1 DEF CounterInv, StillWaiting, Waiting
<1>2. ASSUME NEW t \in Threads, ThreadBegin(t) \/ WakeThread(t) \/ SearchFails(t)
      PROVE  CounterInv'
  <2>1. UNCHANGED <<wait_cond_threads, handoff_required, waiting_mode, queue>>
    BY <1>2 DEF ThreadBegin, WakeThread, SearchFails
  <2>2. /\ \A u \in Threads \ {t} : pc'[u] = pc[u]
        /\ \/ pc[t] \in {"begin", "wait_begin", "open", "scan"}
           \/ pc'[t] = "relock"
    BY <1>2 DEF ThreadBegin, WakeThread, SearchFails
  <2> QED
    BY <2>1, <2>2 DEF CounterInv, StillWaiting, Waiting
<1>3. ASSUME NEW t \in Threads, Insert(t) PROVE CounterInv'
  <2>1. Wakes(t, "scan")
    BY <1>3, WakesThreads
  <2>2. /\ handoff_required = 0
        /\ UNCHANGED <<wait_cond_threads, waiting_mode>>
        /\ pc[t] = "inserting"
        /\ wait_cond_threads = 0 \/ queue # <<>>
    BY <1>3 DEF Insert
  <2>3. Waiting' = Waiting /\ t \notin Waiting
    BY <2>2 DEF CounterInv, StillWaiting, Waiting
  <2>4. StillWaiting'
    BY <2>1, <2>2, <2>3 DEF CounterInv, StillWaiting, Wakes, Waiting
  <2> QED
    BY <2>2, <2>3, <2>4 DEF CounterInv
<1>4. ASSUME NEW t \in Threads, DirSearch(t), ~Insert(t) PROVE CounterInv'
  <2>1. UNCHANGED <<wait_cond_threads, handoff_required, waiting_mode, queue>>
    BY <1>4 DEF DirSearch, CallSearch, OpenDir, CountMatch, StoreMatches,
                CloseDir, ErrorExit, ScanDir, ScanMatch, SkipEntry, ReadEntry
  <2>2. /\ pc[t] \in {"call", "open", "scan", "count", "store", "fail"}
        /\ \A u \in Threads \ {t} : pc'[u] = pc[u]
    BY <1>4 DEF DirSearch, CallSearch, OpenDir, CountMatch, StoreMatches,
                CloseDir, ErrorExit, ScanDir, ScanMatch, SkipEntry, ReadEntry
  <2> QED
    BY <2>1, <2>2 DEF CounterInv, StillWaiting, Waiting
<1>5. ASSUME NEW t \in Threads, Lock(t) PROVE CounterInv'
  <2>1. waiting_mode' = waiting_mode \/ (handoff_required = 0 /\ pc[t] = "loop")
    BY <1>5 DEF Lock
  <2>2. handoff_required = 0 => t \notin Waiting \/ pc[t] = "relock"
    BY <1>5 DEF Lock, LockFor, CounterInv, StillWaiting
  <2>3. handoff_required = 0 => Waiting' = Waiting
    BY <1>5, <2>1, <2>2 DEF Lock, Waiting
  <2>4. \A u \in Threads : pc'[u] = pc[u] \/ (u = t /\ pc[t] = "relock" => pc'[u] = "relocked")
    BY <1>5 DEF Lock, LockFor
  <2>5. UNCHANGED <<queue, wait_cond_threads, handoff_required>>
    BY <1>5 DEF Lock
  <2> QED
    BY <1>5, <2>2, <2>3, <2>4, <2>5 DEF CounterInv, StillWaiting, Lock, LockFor
<1>6. ASSUME NEW t \in Threads, AwaitHandoff(t) PROVE CounterInv'
  BY <1>6 DEF AwaitHandoff
<1>7. ASSUME NEW t \in Threads, AwaitNonEmpty(t) PROVE CounterInv'
  <2>1. /\ handoff_required = 0 /\ queue' = <<>>
        /\ CountWaiter(t)
        /\ pc' = [pc EXCEPT ![t] = "wait_non_empty"]
    BY <1>7 DEF AwaitNonEmpty
  <2> QED
    BY <2>1, CountedOnce DEF CounterInv, StillWaiting, Waiting
<1>8. ASSUME NEW t \in Threads, LastWaiterExits(t) PROVE CounterInv'
  <2>1. Wakes(t, "exited")
    BY <1>8, WakesThreads
  <2>2. /\ handoff_required = 0 /\ queue' = <<>>
        /\ CountWaiter(t)
    BY <1>8 DEF LastWaiterExits
  <2>3. wait_cond_threads' = Cardinality(Waiting') /\ Waiting' = Waiting \cup {t}
    BY <2>2, CountedOnce DEF CounterInv
  <2>4. StillWaiting'
    <3>1. \A u \in Waiting : pc[u] \in {"wait_non_empty", "relock", "relocked", "exited"}
      BY <2>2 DEF CounterInv, StillWaiting
    <3>2. \A u \in Waiting \ {t} : pc'[u] = pc[u] \/ pc'[u] = "relock"
      BY <2>1 DEF Waiting, Wakes
    <3> QED
      BY <2>1, <2>3, <3>1, <3>2 DEF StillWaiting, Wakes
  <2> QED
    BY <2>2, <2>3, <2>4 DEF CounterInv
<1>9. ASSUME NEW t \in Threads, RemoveFirst(t) PROVE CounterInv'
  <2>1. Wakes(t, "call")
    BY <1>9, WakesThreads
  <2>2. /\ handoff_required = 0 /\ queue # <<>>
        /\ UNCHANGED <<wait_cond_threads, waiting_mode>>
    BY <1>9 DEF RemoveFirst
  <2>3. wait_cond_threads = 0 /\ Cardinality(Waiting) = 0
    BY <2>2 DEF CounterInv
  <2>4. Waiting = {}
    <3>1. IsFiniteSet(Waiting)
      BY ThreadsAssumption, FS_Subset DEF Waiting
    <3> QED
      BY <2>3, <3>1, FS_EmptySet
  <2>5. Waiting' = {}
    BY <2>2, <2>4 DEF Waiting
  <2> QED
    BY <2>2, <2>3, <2>5, FS_EmptySet DEF CounterInv, StillWaiting
<1> QED
  BY <1>1, <1>2, <1>3, <1>4, <1>5, <1>6, <1>7, <1>8, <1>9 DEF Next, Thread, QueueLoop

\* Until the first handoff the counter is the number of threads that found
\* the queue empty, so the exit test is right (pfind.c:216, 485, 527).
THEOREM ExactCounter == Spec => []CounterExactUntilHandoff
<1>1. Init => CounterInv
  <2> SUFFICES ASSUME Init PROVE CounterInv
    OBVIOUS
  <2>1. Waiting = {} /\ wait_cond_threads = 0
    BY DEF Init, Waiting
  <2> QED
    BY <2>1, FS_EmptySet DEF CounterInv, StillWaiting
<1>2. ASSUME TypeInv, CounterInv, [Next]_vars PROVE CounterInv'
  <2>1. CASE handoff_required' = 0
    BY <1>2, <2>1, CounterSteps
  <2>2. CASE handoff_required' # 0
    BY <2>2 DEF CounterInv
  <2> QED
    BY <2>1, <2>2
<1>3. CounterInv => CounterExactUntilHandoff
  BY DEF CounterInv, CounterExactUntilHandoff, Waiting
<1> QED
  BY <1>1, <1>2, <1>3, TypeInvariant, PTL DEF Spec

-----------------------------------------------------------------------------
(* The start barrier.                                                      *)

Begun == {t \in Threads : pc[t] # "begin"}

\* running_threads counts the threads that have begun; main is past its wait
\* only when they all have, and they are past theirs only when main is.
BarrierInv ==
  /\ running_threads = Cardinality(Begun)
  /\ main \in {"woken", "join"} => running_threads = thread_number
  /\ \A t \in Threads : pc[t] \notin {"begin", "wait_begin"} =>
       running_threads = thread_number

\* A thread that begins is counted, and none is left to begin after the last.
LEMMA BeginCounted ==
  ASSUME TypeInv, BarrierInv, NEW t \in Threads, ThreadBegin(t)
  PROVE  /\ running_threads # thread_number
         /\ running_threads' = Cardinality(Begun')
<1>1. /\ IsFiniteSet(Begun) /\ Begun \in SUBSET Threads
      /\ Cardinality(Begun) = Cardinality(Threads) => Begun = Threads
  BY ThreadsAssumption, FS_Subset DEF Begun
<1>2. t \notin Begun /\ Begun' = Begun \cup {t}
  BY DEF ThreadBegin, Begun, Goto, TypeInv, TypeOK
<1>3. Cardinality(Begun \cup {t}) = Cardinality(Begun) + 1
  BY <1>1, <1>2, FS_AddElement
<1> QED
  BY <1>1, <1>2, <1>3 DEF BarrierInv, ThreadBegin, thread_number

\* Where a step may take a thread and main, when no wait ends early.
LEMMA BarrierSteps ==
  ASSUME TypeInv, BarrierInv, ~SpuriousWakeups, Next
  PROVE  BarrierInv'
<1> USE DEF TypeInv, TypeOK, Goto, globals, scan, count, barrier
<1>1. ASSUME NEW t \in Threads, ThreadBegin(t) PROVE BarrierInv'
  <2>1. running_threads # thread_number /\ running_threads' = Cardinality(Begun')
    BY <1>1, BeginCounted
  <2>2. main' = main \/ (main' = "woken" /\ running_threads' = thread_number)
    BY <1>1 DEF ThreadBegin, check_for_threads_prepared
  <2>3. \A u \in Threads : pc'[u] = pc[u] \/ pc'[u] = "wait_begin"
    BY <1>1 DEF ThreadBegin
  <2>4. main' \in {"woken", "join"} => running_threads' = thread_number
    BY <2>1, <2>2 DEF BarrierInv
  <2>5. \A u \in Threads : pc'[u] \in {"begin", "wait_begin"}
    BY <2>1, <2>3 DEF BarrierInv
  <2> QED
    BY <2>1, <2>4, <2>5 DEF BarrierInv
<1>2. CASE BeginSearch
  <2>1. /\ main = "woken" /\ UNCHANGED running_threads
        /\ \A t \in Threads : pc'[t] = IF pc[t] = "wait_begin" THEN "loop" ELSE pc[t]
    BY <1>2 DEF BeginSearch, Awake, At
  <2>2. Begun' = Begun
    BY <2>1 DEF Begun
  <2> QED
    BY <2>1, <2>2 DEF BarrierInv, thread_number
<1>3. CASE StartThreads \/ Finish
  <2>1. /\ UNCHANGED <<running_threads, pc>>
        /\ main' \notin {"woken", "join"}
    BY <1>3 DEF StartThreads, handle_error, Finish
  <2> QED
    BY <2>1 DEF BarrierInv, Begun, thread_number
<1>4. ASSUME NEW t \in Threads, QueueLoop(t) \/ DirSearch(t) \/ SearchFails(t)
      PROVE  BarrierInv'
  <2>1. UNCHANGED <<running_threads, main>>
    BY <1>4 DEF QueueLoop, Lock, AwaitHandoff, AwaitNonEmpty, LastWaiterExits,
       RemoveFirst, DirSearch, CallSearch, OpenDir, Insert, CountMatch,
       StoreMatches, CloseDir, ErrorExit, ScanDir, ScanMatch, SkipEntry, SearchFails
  <2>2. \A u \in Threads :
          pc[u] \in {"begin", "wait_begin"} => u # t /\ pc'[u] = pc[u]
    <3>1. CASE Insert(t) \/ LastWaiterExits(t) \/ RemoveFirst(t)
      <4>1. pc[t] \in {"inserting", "locked", "relocked"}
        BY <3>1 DEF Insert, LastWaiterExits, RemoveFirst, AtQueueTest
      <4> QED
        BY <3>1, <4>1, WakesThreads DEF Wakes
    <3>2. CASE ~(Insert(t) \/ LastWaiterExits(t) \/ RemoveFirst(t))
      BY <1>4, <3>2 DEF QueueLoop, Lock, LockFor, AwaitHandoff, AwaitNonEmpty,
         AtQueueTest, DirSearch, CallSearch, OpenDir, CountMatch, StoreMatches,
         CloseDir, ErrorExit, ScanDir, ScanMatch, SkipEntry, ReadEntry, SearchFails
    <3> QED
      BY <3>1, <3>2
  <2>3. \A u \in Threads : pc'[u] \in {"begin", "wait_begin"} => pc'[u] = pc[u]
    <3>1. CASE Insert(t) \/ LastWaiterExits(t) \/ RemoveFirst(t)
      BY <3>1, WakesThreads DEF Wakes
    <3>2. CASE ~(Insert(t) \/ LastWaiterExits(t) \/ RemoveFirst(t))
      BY <1>4, <3>2 DEF QueueLoop, Lock, LockFor, AwaitHandoff, AwaitNonEmpty,
         DirSearch, CallSearch, OpenDir, CountMatch, StoreMatches,
         CloseDir, ErrorExit, ScanDir, ScanMatch, SkipEntry, ReadEntry, SearchFails
    <3> QED
      BY <3>1, <3>2
  <2>4. Begun' = Begun
    BY <2>2, <2>3 DEF Begun
  <2> QED
    BY <2>1, <2>2, <2>3, <2>4 DEF BarrierInv, thread_number
<1> QED
  BY <1>1, <1>2, <1>3, <1>4 DEF Next, Main, Thread, WakeMain, WakeThread

\* If no wait ends before it is signalled, no thread searches before all have
\* been created; the two waits of the barrier are not in loops, so that the
\* hypothesis is needed (pfind.c:500-505, 657-659).
THEOREM Barrier == ~SpuriousWakeups => (Spec => []BarrierHolds)
<1> SUFFICES ASSUME ~SpuriousWakeups PROVE Spec => []BarrierHolds
  OBVIOUS
<1>1. Init => BarrierInv
  <2> SUFFICES ASSUME Init PROVE BarrierInv
    OBVIOUS
  <2>1. Begun = {} /\ running_threads = 0 /\ main = "start"
    BY DEF Init, Begun
  <2>2. \A t \in Threads : pc[t] = "begin"
    BY DEF Init
  <2> QED
    BY <2>1, <2>2, FS_EmptySet DEF BarrierInv
<1>2. ASSUME TypeInv, BarrierInv, [Next]_vars PROVE BarrierInv'
  <2>1. CASE Next
    BY <1>2, <2>1, BarrierSteps
  <2>2. CASE UNCHANGED vars
    BY <1>2, <2>2 DEF vars, barrier, BarrierInv, Begun, thread_number
  <2> QED
    BY <1>2, <2>1, <2>2
<1>3. BarrierInv => BarrierHolds
  BY DEF BarrierInv, BarrierHolds
<1> QED
  BY <1>1, <1>2, <1>3, TypeInvariant, PTL DEF Spec
=============================================================================
