--------------------------- MODULE MessageProofs ---------------------------
(***************************************************************************)
(* Theorems about MessageUsers, for any programs, devices, channels and    *)
(* amount of memory.                                                       *)
(***************************************************************************)
EXTENDS MessageListProofs, SequenceTheorems

-----------------------------------------------------------------------------
(* The inductive invariant: the system calls.                              *)

Labels == {"user"} \cup IoctlLabels \cup MessageLabels
HeadLabels == {"head_id", "head_file", "publish"}

SystemCall ==
  [at : Labels, file : Files \cup {None}, id : Channels \cup {0}, temp : Nodes \cup {NULL, Wild},
   i : Nat, size : Nat, buffer : Seq(Nat)]
Results == [code : Codes, data : Seq(Nat)]

\* What a call relies on while it runs.
CallOK(p) ==
  /\ ~At(p, {"user"}) => call[p].file \in FilesOf[p] /\ info[call[p].file] # None
  /\ At(p, IoctlLabels) => call[p].id \in Channels
  /\ At(p, HeadLabels) => call[p].temp \in Nodes
  /\ At(p, MessageLabels) => info[call[p].file].message_file_id # 0
  /\ At(p, {"set_length", "store"}) => Len(call[p].buffer) \in 1..BUFFER_LENGTH
  /\ At(p, {"store"}) => call[p].i \in 1..Len(call[p].buffer)
  /\ At(p, {"copy"}) => call[p].i \in 1..call[p].size /\ call[p].size \in 1..BUFFER_LENGTH

\* Only a loaded module has open files.
OpenOK(f) == info[f] # None => loaded # "out" /\ (loaded = "live" \/ "load" \notin exclusion)

TypeInv ==
  /\ loaded \in {"out", "loading", "live"}
  /\ devices_info \in [Minors -> Nodes \cup {NULL}]
  /\ heap \in [Nodes -> MessageFile \cup {None}]
  /\ info \in [Files -> OpenFile \cup {None}]
  /\ call \in [Procs -> SystemCall]
  /\ result \in [Procs -> Results]
CallInv ==
  /\ TypeInv
  /\ exclusion \in Exclusions
  /\ \A p \in Procs : CallOK(p)
  /\ \A f \in Files : OpenOK(f)

-----------------------------------------------------------------------------
(* The steps.                                                              *)

Opens(p) == \E f \in FilesOf[p], m \in Minors : open_dev(p, f, m)
Writes(p) == \E f \in FilesOf[p], message \in Seq(Nat) : write_dev(p, f, message)
Reads(p) == \E f \in FilesOf[p], n \in Nat : read_dev(p, f, n)
Closes(p) == \E f \in FilesOf[p] : release_dev(p, f)
Controls(p) == \E f \in FilesOf[p], id \in Channels \cup {0} : ioctl_dev(p, f, id)

\* Every step is one of a process, of the superuser, or of nobody.
LEMMA StepCases ==
  ASSUME [Next]_vars
  PROVE  /\ \/ \E p \in Procs : \/ Opens(p) \/ Writes(p) \/ Reads(p) \/ Closes(p) \/ Controls(p)
                                \/ KernelStep(p)
            \/ Superuser
            \/ UNCHANGED slot
         /\ UNCHANGED exclusion
<1>1. CASE UNCHANGED vars
  BY <1>1 DEF vars, slot
<1>2. ASSUME NEW p \in Procs, NEW f \in FilesOf[p], Run(p, f), UNCHANGED exclusion
      PROVE  Opens(p) \/ Writes(p) \/ Reads(p) \/ Closes(p) \/ Controls(p)
  BY <1>2, ProgramAssumption, BoundsAssumption
  DEF Run, open_file, ioctl_file, Transfer, Exit, Opens, Writes, Reads, Closes, Controls
<1>3. ASSUME NEW p \in Procs, NEW f \in FilesOf[p], Call(p, f), UNCHANGED exclusion
      PROVE  Opens(p) \/ Writes(p) \/ Reads(p) \/ Closes(p) \/ Controls(p)
  BY <1>3, MessagesAssumption DEF Call, Opens, Writes, Reads, Closes, Controls
<1> QED
  BY <1>1, <1>2, <1>3 DEF Next, Kernel

\* The fields of a process that is in no call.
LEMMA UserType ==
  /\ User \in SystemCall
  /\ User.at = "user" /\ User.file = None /\ User.id = 0 /\ User.temp = NULL /\ User.i = 0
  /\ User.size = 0 /\ User.buffer = <<>>
  BY DEF User, SystemCall, Labels

\* A step of p leaves the calls and the files of the others alone.
Alone(p) ==
  /\ \A q \in Procs \ {p} : call'[q] = call[q] /\ result'[q] = result[q]
  /\ \A f \in Files \ FilesOf[p] : info'[f] = info[f]

\* What Return leaves.
LEMMA Returns ==
  ASSUME TypeInv, NEW p \in Procs, NEW r \in Results, Return(p, r)
  PROVE  /\ call' \in [Procs -> SystemCall] /\ result' \in [Procs -> Results]
         /\ call'[p] = User /\ result'[p] = r
         /\ \A q \in Procs \ {p} : call'[q] = call[q] /\ result'[q] = result[q]
  BY UserType DEF Return, TypeInv

\* What a step that only moves on leaves.
LEMMA Goes ==
  ASSUME TypeInv, NEW p \in Procs, NEW label \in Labels, call' = [call EXCEPT ![p].at = label]
  PROVE  /\ call' \in [Procs -> SystemCall]
         /\ call'[p].at = label
         /\ call'[p].file = call[p].file /\ call'[p].id = call[p].id /\ call'[p].temp = call[p].temp
         /\ call'[p].i = call[p].i /\ call'[p].size = call[p].size /\ call'[p].buffer = call[p].buffer
         /\ \A q \in Procs \ {p} : call'[q] = call[q]
  BY DEF TypeInv, SystemCall

\* A valid pointer is the address of a message file.
LEMMA ValidType ==
  ASSUME NEW n
  PROVE  /\ Valid(n) <=> n \in Nodes /\ heap[n] # None
         /\ TypeInv /\ Valid(n) => heap[n] \in MessageFile
  BY DEF Valid, Unused, TypeInv

\* A call goes on with the same file and id.
Goes_on(p, label) ==
  /\ call'[p].at = label /\ call'[p].file = call[p].file /\ call'[p].id = call[p].id

\* Everything but the calls and their results.
Still == UNCHANGED <<loaded, devices_info, heap, info>>

\* The three outcomes of a round of the loop of ioctl_dev (message_slot.c:312-324).
LEMMA SearchEffect ==
  ASSUME CallInv, NEW p \in Procs, Search(p)
  PROVE  /\ TypeInv' /\ Alone(p) /\ CallOK(p)' /\ Still /\ UNCHANGED result
         /\ At(p, {"search"}) /\ Valid(call[p].temp)
         /\ \/ /\ heap[call[p].temp].message_file_id = call[p].id
               /\ Goes_on(p, "set_id") /\ call'[p].temp = call[p].temp
            \/ /\ heap[call[p].temp].message_file_id # call[p].id
               /\ heap[call[p].temp].next = NULL
               /\ Goes_on(p, "append") /\ call'[p].temp = call[p].temp
            \/ /\ heap[call[p].temp].message_file_id # call[p].id
               /\ heap[call[p].temp].next # NULL
               /\ Goes_on(p, "search") /\ call'[p].temp = heap[call[p].temp].next
<1> USE DEF CallInv
<1>1. /\ At(p, {"search"}) /\ Valid(call[p].temp) /\ Still
      /\ heap[call[p].temp] \in MessageFile
  BY ValidType DEF Search, memory, Still
<1>2. CallOK(p)
  OBVIOUS
<1> DEFINE node == heap[call[p].temp]
<1>3. CASE node.message_file_id = call[p].id
  <2>1. call' = [call EXCEPT ![p].at = "set_id"] /\ UNCHANGED result
    BY <1>3 DEF Search, ioctl_match_found, Go
  <2> QED
    BY ZenonT(60), <1>1, <1>2, <1>3, <2>1, Goes
    DEF Labels, IoctlLabels, MessageLabels, HeadLabels, Goes_on, Still, TypeInv, Alone, CallOK, At
<1>4. CASE node.message_file_id # call[p].id /\ node.next = NULL
  <2>1. call' = [call EXCEPT ![p].at = "append"] /\ UNCHANGED result
    BY <1>4 DEF Search, ioctl_match_found, Go
  <2> QED
    BY ZenonT(60), <1>1, <1>2, <1>4, <2>1, Goes
    DEF Labels, IoctlLabels, MessageLabels, HeadLabels, Goes_on, Still, TypeInv, Alone, CallOK, At
<1>5. CASE node.message_file_id # call[p].id /\ node.next # NULL
  <2>1. call' = [call EXCEPT ![p].temp = node.next] /\ UNCHANGED result
    BY <1>5 DEF Search, ioctl_match_found
  <2>2. node.next \in Nodes \cup {NULL, Wild}
    BY <1>1 DEF MessageFile
  <2> HIDE DEF node
  <2>3. /\ call' \in [Procs -> SystemCall]
        /\ call'[p].at = call[p].at /\ call'[p].file = call[p].file /\ call'[p].id = call[p].id
        /\ call'[p].temp = node.next /\ \A q \in Procs \ {p} : call'[q] = call[q]
    BY ZenonT(60), <2>1, <2>2 DEF TypeInv, SystemCall
  <2> QED
    BY <1>1, <1>2, <1>5, <2>1, <2>3
    DEF Labels, IoctlLabels, MessageLabels, HeadLabels, Goes_on, Still, TypeInv, Alone, CallOK, At, node
<1> QED
  BY <1>3, <1>4, <1>5

\* A message file that was allocated just now: its memory is not set up.
NewMemory(n) ==
  /\ n \in Nodes /\ heap[n] = None
  /\ heap'[n] \in MessageFile /\ heap'[n].next \notin Nodes

\* kmalloc links new memory to the last message file (message_slot.c:325).
LEMMA AddNextEffect ==
  ASSUME CallInv, NEW p \in Procs, AddNext(p)
  PROVE  /\ TypeInv' /\ Alone(p) /\ CallOK(p)' /\ UNCHANGED <<loaded, devices_info, info, result>>
         /\ At(p, {"append"}) /\ Valid(call[p].temp)
         /\ Goes_on(p, "init") /\ call'[p].temp = call[p].temp
         /\ \E n \in Nodes :
              /\ NewMemory(n) /\ heap'[call[p].temp] = [heap[call[p].temp] EXCEPT !.next = n]
              /\ \A k \in Nodes \ {n, call[p].temp} : heap'[k] = heap[k]
<1> USE DEF CallInv
<1>1. /\ At(p, {"append"}) /\ Valid(call[p].temp) /\ UNCHANGED <<loaded, devices_info, info, result>>
      /\ call' = [call EXCEPT ![p].at = "init"]
  BY DEF AddNext, Go
<1>2. heap[call[p].temp] \in MessageFile /\ call[p].temp \in Nodes /\ heap[call[p].temp] # None
  BY <1>1, ValidType
<1>3. PICK n \in Unused, id \in Channels \cup {0}, next \in {NULL, Wild} :
        heap' = [heap EXCEPT ![n] = [message_file_id |-> id, message_length |-> 0, next |-> next,
                                     message |-> [i \in 1..BUFFER_LENGTH |-> 0]],
                             ![call[p].temp].next = n]
  BY DEF AddNext
<1> DEFINE t == call[p].temp
           new == [message_file_id |-> id, message_length |-> 0, next |-> next,
                   message |-> [i \in 1..BUFFER_LENGTH |-> 0]]
<1>4. new \in MessageFile /\ new.next \notin Nodes
  BY PointersAssumption, BoundsAssumption DEF MessageFile
<1>5. n \in Nodes /\ heap[n] = None /\ n # t
  BY <1>2 DEF Unused
<1> HIDE DEF new
<1>6. heap' = [heap EXCEPT ![n] = new, ![t].next = n]
  BY <1>3 DEF new
<1>7. /\ heap'[n] = new /\ heap'[t] = [heap[t] EXCEPT !.next = n]
      /\ \A k \in Nodes \ {n, t} : heap'[k] = heap[k]
  BY <1>2, <1>5, <1>6 DEF TypeInv
<1>8. [heap[t] EXCEPT !.next = n] \in MessageFile
  BY <1>2, <1>5 DEF MessageFile
<1>9. heap' \in [Nodes -> MessageFile \cup {None}]
  <2>1. heap' = [k \in Nodes |-> heap'[k]]
    BY <1>6 DEF TypeInv
  <2>2. \A k \in Nodes : heap'[k] \in MessageFile \cup {None}
    BY <1>4, <1>7, <1>8 DEF TypeInv
  <2> QED
    BY <2>1, <2>2
<1>10. NewMemory(n)
  BY <1>4, <1>5, <1>7 DEF NewMemory
<1>11. /\ call' \in [Procs -> SystemCall] /\ Alone(p)
       /\ Goes_on(p, "init") /\ call'[p].temp = t
  BY <1>1, Goes DEF Labels, IoctlLabels, Goes_on, Alone
<1>12. TypeInv' /\ CallOK(p)'
  BY <1>1, <1>9, <1>11
  DEF Labels, IoctlLabels, MessageLabels, HeadLabels, Goes_on, TypeInv, CallOK, At
<1> QED
  BY <1>1, <1>5, <1>7, <1>10, <1>11, <1>12

\* The new message file gets the id, and ends the list (message_slot.c:284-291, 335).
LEMMA InitNextEffect ==
  ASSUME CallInv, NEW p \in Procs, InitNext(p)
  PROVE  /\ TypeInv' /\ Alone(p) /\ CallOK(p)' /\ UNCHANGED <<loaded, devices_info, info, result>>
         /\ At(p, {"init"}) /\ Valid(call[p].temp)
         /\ Goes_on(p, "set_next_id") /\ call'[p].temp = call[p].temp
         /\ \E r \in Nodes :
              /\ r = heap[call[p].temp].next /\ heap[r] # None
              /\ heap'[r] \in MessageFile
              /\ heap'[r].next = NULL /\ heap'[r].message_file_id = call[p].id
              /\ \A k \in Nodes \ {r} : heap'[k] = heap[k]
<1> USE DEF CallInv
<1> DEFINE r == heap[call[p].temp].next
<1>1. /\ At(p, {"init"}) /\ Valid(call[p].temp) /\ Valid(r)
      /\ UNCHANGED <<loaded, devices_info, info, result>>
      /\ call' = [call EXCEPT ![p].at = "set_next_id"]
  BY DEF InitNext, Go
<1>2. heap' = [heap EXCEPT ![r] = [heap[r] EXCEPT !.message_file_id = call[p].id,
                                                  !.message_length = 0, !.next = NULL]]
  BY DEF InitNext, init_message_data, TypeInv
<1>3. heap[r] \in MessageFile /\ r \in Nodes /\ heap[r] # None
  BY <1>1, ValidType
<1>4. call[p].id \in Channels
  BY <1>1 DEF CallOK, At, IoctlLabels
<1> DEFINE new == [heap[r] EXCEPT !.message_file_id = call[p].id, !.message_length = 0, !.next = NULL]
<1>5. new \in MessageFile /\ new.next = NULL /\ new.message_file_id = call[p].id
  <2>1. new = [heap[r] EXCEPT !.message_file_id = call[p].id, !.message_length = 0, !.next = NULL]
    OBVIOUS
  <2>2. 0 \in 0..BUFFER_LENGTH
    BY BoundsAssumption
  <2>3. PICK node \in MessageFile : node = heap[r]
    BY <1>3
  <2> HIDE DEF r, new
  <2>4. new = [node EXCEPT !.message_file_id = call[p].id, !.message_length = 0, !.next = NULL]
    BY <2>1, <2>3
  <2> QED
    BY <1>4, <2>2, <2>4 DEF MessageFile
<1> HIDE DEF new, r
<1>6. heap'[r] = new /\ \A k \in Nodes \ {r} : heap'[k] = heap[k]
  BY <1>2, <1>3 DEF TypeInv, new
<1>7. heap' \in [Nodes -> MessageFile \cup {None}]
  BY <1>2, <1>3, <1>5 DEF TypeInv, new
<1>8. /\ call' \in [Procs -> SystemCall] /\ Alone(p)
      /\ Goes_on(p, "set_next_id") /\ call'[p].temp = call[p].temp
  BY <1>1, Goes DEF Labels, IoctlLabels, Goes_on, Alone
<1>9. TypeInv' /\ CallOK(p)'
  BY <1>1, <1>7, <1>8
  DEF Labels, IoctlLabels, MessageLabels, HeadLabels, Goes_on, TypeInv, CallOK, At
<1> QED
  BY <1>1, <1>3, <1>5, <1>6, <1>8, <1>9 DEF r

\* The first message file of a device is complete before it is a head (message_slot.c:342-351).
LEMMA NewListEffect ==
  ASSUME CallInv, NEW p \in Procs, NewList(p)
  PROVE  /\ TypeInv' /\ Alone(p) /\ CallOK(p)' /\ UNCHANGED <<loaded, devices_info, info>>
         /\ At(p, {"new_list"})
         /\ \/ UNCHANGED heap /\ call'[p] = User
            \/ /\ Goes_on(p, "head_id")
               /\ NewMemory(call'[p].temp) /\ heap'[call'[p].temp].next = NULL
               /\ heap'[call'[p].temp].message_file_id = call[p].id
               /\ \A k \in Nodes \ {call'[p].temp} : heap'[k] = heap[k]
<1> USE DEF CallInv
<1>1. At(p, {"new_list"}) /\ UNCHANGED <<loaded, devices_info, info>>
  BY DEF NewList
<1>2. CASE Return(p, Error("ENOMEM")) /\ UNCHANGED heap
  <2>1. Error("ENOMEM") \in Results
    BY DEF Results, Error, Codes
  <2> QED
    BY <1>1, <1>2, <2>1, Returns, UserType
    DEF TypeInv, Alone, CallOK, At, IoctlLabels, HeadLabels, MessageLabels
<1>3. ASSUME NEW n \in Unused, UNCHANGED result,
             heap' = [heap EXCEPT ![n] =
                        [message_file_id |-> call[p].id, message_length |-> 0, next |-> NULL,
                         message |-> [i \in 1..BUFFER_LENGTH |-> 0]]],
             call' = [call EXCEPT ![p].temp = n, ![p].at = "head_id"]
      PROVE  /\ TypeInv' /\ Alone(p) /\ CallOK(p)'
             /\ Goes_on(p, "head_id")
             /\ NewMemory(call'[p].temp) /\ heap'[call'[p].temp].next = NULL
             /\ heap'[call'[p].temp].message_file_id = call[p].id
             /\ \A k \in Nodes \ {call'[p].temp} : heap'[k] = heap[k]
  <2> DEFINE new == [message_file_id |-> call[p].id, message_length |-> 0, next |-> NULL,
                     message |-> [i \in 1..BUFFER_LENGTH |-> 0]]
  <2>1. call[p].id \in Channels
    BY <1>1 DEF CallOK, At, IoctlLabels
  <2>2. new \in MessageFile /\ new.next = NULL /\ new.message_file_id = call[p].id
    BY <2>1, BoundsAssumption DEF MessageFile
  <2>3. n \in Nodes /\ heap[n] = None
    BY DEF Unused
  <2>4. heap' = [heap EXCEPT ![n] = new]
    BY <1>3
  <2> HIDE DEF new
  <2>5. /\ heap' \in [Nodes -> MessageFile \cup {None}]
        /\ heap'[n] = new /\ \A k \in Nodes \ {n} : heap'[k] = heap[k]
    BY <2>2, <2>3, <2>4 DEF TypeInv
  <2>6. /\ call' \in [Procs -> SystemCall] /\ Goes_on(p, "head_id") /\ call'[p].temp = n
        /\ \A q \in Procs \ {p} : call'[q] = call[q]
    <3> DEFINE next == [call[p] EXCEPT !.temp = n, !.at = "head_id"]
    <3>1. call' = [call EXCEPT ![p] = next]
      BY <1>3 DEF TypeInv
    <3>2. /\ next \in SystemCall /\ next.at = "head_id" /\ next.temp = n
          /\ next.file = call[p].file /\ next.id = call[p].id
      <4>1. call[p] \in SystemCall /\ "head_id" \in Labels /\ n \in Nodes \cup {NULL, Wild}
        BY <2>3 DEF TypeInv, Labels, IoctlLabels
      <4>2. next = [call[p] EXCEPT !.temp = n, !.at = "head_id"]
        OBVIOUS
      <4> HIDE DEF next
      <4> QED
        BY <4>1, <4>2 DEF SystemCall
    <3> HIDE DEF next
    <3> QED
      BY <3>1, <3>2 DEF TypeInv, Goes_on
  <2>7. TypeInv' /\ CallOK(p)' /\ Alone(p)
    BY <1>1, <1>3, <2>1, <2>3, <2>5, <2>6
    DEF Goes_on, TypeInv, CallOK, At, IoctlLabels, MessageLabels, HeadLabels, Alone
  <2> QED
    BY <2>2, <2>3, <2>5, <2>6, <2>7, PointersAssumption DEF NewMemory
<1> QED
  BY <1>1, <1>2, <1>3 DEF NewList

\* An ioctl stores the id in its open file, and nothing else (message_slot.c:269-270, 352).
LEMMA SetIdEffect ==
  ASSUME CallInv, NEW p \in Procs, SetId(p)
  PROVE  /\ TypeInv' /\ Alone(p) /\ CallOK(p)' /\ UNCHANGED <<loaded, devices_info, heap, result>>
         /\ At(p, {"set_id", "set_next_id", "head_id"})
         /\ Goes_on(p, IF At(p, {"head_id"}) THEN "head_file" ELSE "set_file")
         /\ At(p, {"set_next_id"}) =>
              Valid(call[p].temp) /\ call'[p].temp = heap[call[p].temp].next
         /\ ~At(p, {"set_next_id"}) => call'[p].temp = call[p].temp
         /\ info'[call[p].file].minor = info[call[p].file].minor
         /\ info'[call[p].file].message_file_id = call[p].id
         /\ info'[call[p].file].current_message_file = info[call[p].file].current_message_file
         /\ \A f \in Files \ {call[p].file} : info'[f] = info[f]
<1> USE DEF CallInv
<1>1. /\ At(p, {"set_id", "set_next_id", "head_id"})
      /\ At(p, {"set_next_id"}) => Valid(call[p].temp)
      /\ UNCHANGED <<loaded, devices_info, heap, result>>
      /\ info' = [info EXCEPT ![call[p].file] =
                    [info[call[p].file] EXCEPT !.message_file_id = call[p].id]]
      /\ call' = [call EXCEPT ![p].temp = Assigned(p),
                              ![p].at = IF @ = "head_id" THEN "head_file" ELSE "set_file"]
  BY DEF SetId, memory, TypeInv
<1>2. call[p].file \in FilesOf[p] /\ info[call[p].file] # None /\ call[p].id \in Channels
  BY <1>1 DEF CallOK, At, IoctlLabels
<1>3. Assigned(p) \in Nodes \cup {NULL, Wild} /\ (At(p, {"head_id"}) => Assigned(p) \in Nodes)
  <2>1. CASE At(p, {"set_next_id"})
    <3>1. heap[call[p].temp] \in MessageFile
      BY <1>1, <2>1, ValidType
    <3> QED
      BY <2>1, <3>1 DEF Assigned, MessageFile, At
  <2>2. CASE ~At(p, {"set_next_id"})
    <3>1. At(p, {"head_id"}) => call[p].temp \in Nodes
      BY DEF CallOK, At, HeadLabels
    <3> QED
      BY <2>2, <3>1 DEF Assigned, TypeInv, SystemCall
  <2> QED
    BY <2>1, <2>2
<1>4. /\ call' \in [Procs -> SystemCall] /\ call'[p].temp = Assigned(p)
      /\ Goes_on(p, IF At(p, {"head_id"}) THEN "head_file" ELSE "set_file")
      /\ \A q \in Procs \ {p} : call'[q] = call[q]
  <2> DEFINE label == IF At(p, {"head_id"}) THEN "head_file" ELSE "set_file"
  <2>1. label \in Labels
    BY DEF Labels, IoctlLabels
  <2> DEFINE next == [call[p] EXCEPT !.temp = Assigned(p), !.at = label]
  <2>2. call' = [call EXCEPT ![p] = next]
    BY <1>1 DEF TypeInv, At
  <2>3. /\ next \in SystemCall /\ next.at = label /\ next.temp = Assigned(p)
        /\ next.file = call[p].file /\ next.id = call[p].id
    <3>1. call[p] \in SystemCall
      BY DEF TypeInv
    <3>2. next = [call[p] EXCEPT !.temp = Assigned(p), !.at = label]
      OBVIOUS
    <3> HIDE DEF label, next
    <3> QED
      BY <1>3, <2>1, <3>1, <3>2 DEF SystemCall
  <2> HIDE DEF label, next
  <2>4. call'[p] = next /\ call' \in [Procs -> SystemCall] /\ \A q \in Procs \ {p} : call'[q] = call[q]
    BY <2>2, <2>3 DEF TypeInv
  <2> QED
    BY <2>3, <2>4 DEF label, Goes_on
<1>5. [info[call[p].file] EXCEPT !.message_file_id = call[p].id] \in OpenFile
  BY <1>2, FilesAssumption DEF OpenFile, TypeInv
<1>6. info' \in [Files -> OpenFile \cup {None}] /\ info'[call[p].file] # None
  BY <1>1, <1>2, <1>5, FilesAssumption, NoneAssumption DEF TypeInv
<1>7. TypeInv' /\ Alone(p)
  BY <1>1, <1>2, <1>4, <1>6 DEF TypeInv, Alone
<1>8. CallOK(p)'
  BY <1>1, <1>2, <1>3, <1>4, <1>6
  DEF Goes_on, CallOK, At, IoctlLabels, MessageLabels, HeadLabels
<1>9. At(p, {"set_next_id"}) => call'[p].temp = heap[call[p].temp].next
  BY <1>4 DEF Assigned
<1>10. ~At(p, {"set_next_id"}) => call'[p].temp = call[p].temp
  BY <1>4 DEF Assigned
<1>11. /\ info'[call[p].file].minor = info[call[p].file].minor
       /\ info'[call[p].file].message_file_id = call[p].id
       /\ info'[call[p].file].current_message_file = info[call[p].file].current_message_file
       /\ \A f \in Files \ {call[p].file} : info'[f] = info[f]
  <2>1. PICK file \in OpenFile : file = info[call[p].file]
    BY <1>2, FilesAssumption DEF TypeInv
  <2> DEFINE new == [file EXCEPT !.message_file_id = call[p].id]
  <2>2. new.minor = file.minor /\ new.message_file_id = call[p].id
        /\ new.current_message_file = file.current_message_file
    BY DEF OpenFile
  <2>3. info' = [info EXCEPT ![call[p].file] = new]
    BY <1>1, <2>1
  <2> HIDE DEF new
  <2> QED
    BY <1>2, <2>1, <2>2, <2>3, FilesAssumption DEF TypeInv
<1>12. /\ UNCHANGED <<loaded, devices_info, heap, result>>
       /\ At(p, {"set_id", "set_next_id", "head_id"})
       /\ At(p, {"set_next_id"}) => Valid(call[p].temp)
  BY <1>1
<1> QED
  BY <1>4, <1>7, <1>8, <1>9, <1>10, <1>11, <1>12

\* An ioctl stores the pointer in its open file, and nothing else (message_slot.c:271, 353).
LEMMA SetFileEffect ==
  ASSUME CallInv, NEW p \in Procs, SetFile(p)
  PROVE  /\ TypeInv' /\ Alone(p) /\ CallOK(p)' /\ UNCHANGED <<loaded, devices_info, heap>>
         /\ At(p, {"set_file", "head_file"})
         /\ At(p, {"set_file"}) => call'[p] = User
         /\ At(p, {"head_file"}) => Goes_on(p, "publish") /\ call'[p].temp = call[p].temp
         /\ info'[call[p].file].minor = info[call[p].file].minor
         /\ info'[call[p].file].message_file_id = info[call[p].file].message_file_id
         /\ info'[call[p].file].current_message_file = call[p].temp
         /\ \A f \in Files \ {call[p].file} : info'[f] = info[f]
<1> USE DEF CallInv
<1>1. /\ At(p, {"set_file", "head_file"}) /\ UNCHANGED <<loaded, devices_info, heap>>
      /\ info' = [info EXCEPT ![call[p].file] =
                    [info[call[p].file] EXCEPT !.current_message_file = call[p].temp]]
  BY DEF SetFile, memory, TypeInv
<1>2. /\ call[p].file \in FilesOf[p] /\ info[call[p].file] # None /\ call[p].id \in Channels
      /\ At(p, {"head_file"}) => call[p].temp \in Nodes
  BY <1>1 DEF CallOK, At, IoctlLabels, HeadLabels
<1>3. [info[call[p].file] EXCEPT !.current_message_file = call[p].temp] \in OpenFile
  <2>1. call[p].temp \in Nodes \cup {NULL, Wild}
    BY DEF TypeInv, SystemCall
  <2>2. info[call[p].file] \in OpenFile
    BY <1>2, FilesAssumption DEF TypeInv
  <2> QED
    BY <2>1, <2>2 DEF OpenFile
<1>4. info' \in [Files -> OpenFile \cup {None}] /\ info'[call[p].file] # None
  BY <1>1, <1>2, <1>3, FilesAssumption, NoneAssumption DEF TypeInv
<1>5. /\ info'[call[p].file].minor = info[call[p].file].minor
      /\ info'[call[p].file].message_file_id = info[call[p].file].message_file_id
      /\ info'[call[p].file].current_message_file = call[p].temp
      /\ \A f \in Files \ {call[p].file} : info'[f] = info[f]
  <2>1. PICK file \in OpenFile : file = info[call[p].file]
    BY <1>2, FilesAssumption DEF TypeInv
  <2> DEFINE new == [file EXCEPT !.current_message_file = call[p].temp]
  <2>2. new.minor = file.minor /\ new.message_file_id = file.message_file_id
        /\ new.current_message_file = call[p].temp
    BY DEF OpenFile
  <2>3. info' = [info EXCEPT ![call[p].file] = new]
    BY <1>1, <2>1
  <2> HIDE DEF new
  <2> QED
    BY <1>2, <2>1, <2>2, <2>3, FilesAssumption DEF TypeInv
<1>6. UNCHANGED <<loaded, devices_info, heap>> /\ At(p, {"set_file", "head_file"})
  BY <1>1
<1>7. CASE At(p, {"set_file"})
  <2>1. OK(<<>>) \in Results
    BY DEF Results, OK, Codes
  <2>2. Return(p, OK(<<>>))
    BY <1>7 DEF SetFile
  <2>3. /\ call' \in [Procs -> SystemCall] /\ result' \in [Procs -> Results] /\ call'[p] = User
        /\ \A q \in Procs \ {p} : call'[q] = call[q] /\ result'[q] = result[q]
    BY <2>1, <2>2, Returns
  <2>4. TypeInv' /\ Alone(p) /\ CallOK(p)'
    BY <1>2, <1>4, <1>5, <1>6, <2>3, UserType
    DEF TypeInv, Alone, CallOK, At, IoctlLabels, HeadLabels, MessageLabels
  <2> QED
    BY <1>5, <1>6, <1>7, <2>3, <2>4 DEF At
<1>8. CASE At(p, {"head_file"})
  <2>1. call' = [call EXCEPT ![p].at = "publish"] /\ UNCHANGED result
    BY <1>8 DEF SetFile, Go, At
  <2>2. call' \in [Procs -> SystemCall] /\ Goes_on(p, "publish") /\ call'[p].temp = call[p].temp
        /\ \A q \in Procs \ {p} : call'[q] = call[q]
    BY <2>1, Goes DEF Labels, IoctlLabels, Goes_on
  <2>3. TypeInv' /\ Alone(p) /\ CallOK(p)'
    BY <1>2, <1>4, <1>5, <1>6, <1>8, <2>1, <2>2
    DEF TypeInv, Alone, Goes_on, CallOK, At, IoctlLabels, HeadLabels, MessageLabels
  <2> QED
    BY <1>5, <1>6, <1>8, <2>2, <2>3 DEF At
<1> QED
  BY <1>6, <1>7, <1>8 DEF At

\* The head of one device is set, and the ioctl returns (message_slot.c:354-355).
LEMMA PublishEffect ==
  ASSUME CallInv, NEW p \in Procs, Publish(p)
  PROVE  /\ TypeInv' /\ Alone(p) /\ CallOK(p)' /\ UNCHANGED <<loaded, heap, info>>
         /\ At(p, {"publish"}) /\ call'[p] = User
         /\ devices_info' = [devices_info EXCEPT ![Minor(p)] = call[p].temp]
         /\ call[p].temp \in Nodes /\ Minor(p) \in Minors
<1> USE DEF CallInv
<1>1. /\ At(p, {"publish"}) /\ UNCHANGED <<loaded, heap, info>> /\ Return(p, OK(<<>>))
      /\ devices_info' = [devices_info EXCEPT ![Minor(p)] = call[p].temp]
  BY DEF Publish
<1>2. /\ call[p].file \in Files /\ info[call[p].file] # None /\ call[p].temp \in Nodes
  BY <1>1, FilesAssumption DEF CallOK, At, HeadLabels
<1>3. Minor(p) \in Minors
  BY <1>2 DEF Minor, TypeInv, OpenFile
<1>4. OK(<<>>) \in Results
  BY DEF Results, OK, Codes
<1> QED
  BY <1>1, <1>2, <1>3, <1>4, Returns, UserType
  DEF TypeInv, Alone, CallOK, At, IoctlLabels, HeadLabels, MessageLabels
\* A killed process has no call and no files (message_slot.c:325-335).
LEMMA OopsEffect ==
  ASSUME CallInv, NEW p \in Procs, Oops(p)
  PROVE  /\ TypeInv' /\ Alone(p) /\ CallOK(p)' /\ UNCHANGED <<loaded, devices_info, heap>>
         /\ At(p, {"append"}) \/ \E pointer \in Followed(p) : ~Valid(pointer)
         /\ call'[p] = User /\ \A f \in FilesOf[p] : info'[f] = None
         /\ result'[p] = Error("oops")
<1> USE DEF CallInv
<1>1. /\ UNCHANGED <<loaded, devices_info, heap>> /\ Return(p, Error("oops"))
      /\ At(p, {"append"}) \/ \E pointer \in Followed(p) : ~Valid(pointer)
      /\ info' = [f \in Files |-> IF f \in FilesOf[p] THEN None ELSE info[f]]
  BY DEF Oops, memory
<1>2. Error("oops") \in Results
  BY DEF Results, Error, Codes
<1>3. /\ info' \in [Files -> OpenFile \cup {None}]
      /\ \A f \in FilesOf[p] : info'[f] = None
      /\ \A f \in Files \ FilesOf[p] : info'[f] = info[f]
  BY <1>1, FilesAssumption DEF TypeInv
<1> QED
  BY <1>1, <1>2, <1>3, Returns, UserType
  DEF TypeInv, Alone, CallOK, At, IoctlLabels, HeadLabels, MessageLabels

\* An ioctl begins, or refuses.
LEMMA ControlsEffect ==
  ASSUME CallInv, NEW p \in Procs, Controls(p)
  PROVE  /\ TypeInv' /\ Alone(p) /\ CallOK(p)' /\ Still
         /\ call[p].at = "user"
         /\ \/ call'[p] = User
            \/ \E f \in FilesOf[p], head \in Nodes \cup {NULL} :
                 /\ info[f] # None /\ Admitted(f, TRUE) /\ UNCHANGED result
                 /\ head = devices_info[info[f].minor]
                 /\ call'[p].at = (IF head = NULL THEN "new_list" ELSE "search")
                 /\ call'[p].file = f /\ call'[p].id \in Channels /\ call'[p].temp = head
<1> USE DEF CallInv
<1>1. PICK f \in FilesOf[p], id \in Channels \cup {0} : ioctl_dev(p, f, id)
  BY DEF Controls
<1>2. call[p].at = "user" /\ info[f] # None /\ Admitted(f, TRUE) /\ Still /\ f \in Files
  BY <1>1, FilesAssumption DEF ioctl_dev, At, memory, Still
<1>3. CASE id = 0
  <2>1. Return(p, Error("EINVAL")) /\ Error("EINVAL") \in Results
    BY <1>1, <1>3 DEF ioctl_dev, Results, Error, Codes
  <2> QED
    BY <1>2, <2>1, Returns, UserType
    DEF TypeInv, Alone, CallOK, At, IoctlLabels, HeadLabels, MessageLabels, Still
<1>4. CASE id # 0
  <2>1. info[f].minor \in Minors
    BY <1>2 DEF TypeInv, OpenFile
  <2>2. PICK head \in Nodes \cup {NULL} : head = devices_info[info[f].minor]
    BY <2>1 DEF TypeInv
  <2>3. PICK label \in {"new_list", "search"} : label = IF head = NULL THEN "new_list" ELSE "search"
    OBVIOUS
  <2>4. Enter(p, f, label, id, head, <<>>) /\ UNCHANGED result
    BY <1>1, <1>4, <2>2, <2>3 DEF ioctl_dev, Enter
  <2>5. /\ call' \in [Procs -> SystemCall]
        /\ call'[p].at = label /\ call'[p].file = f /\ call'[p].id = id /\ call'[p].temp = head
        /\ \A q \in Procs \ {p} : call'[q] = call[q]
    <3> DEFINE new == [User EXCEPT !.at = label, !.file = f, !.id = id, !.temp = head,
                                   !.buffer = <<>>]
    <3>1. label \in Labels /\ <<>> \in Seq(Nat) /\ head \in Nodes \cup {NULL, Wild}
      BY DEF Labels, IoctlLabels
    <3>2. /\ new \in SystemCall
          /\ new.at = label /\ new.file = f /\ new.id = id /\ new.temp = head
      BY <1>2, <3>1, UserType DEF SystemCall
    <3>3. call' = [call EXCEPT ![p] = new]
      BY <2>4 DEF Enter
    <3> HIDE DEF new
    <3> QED
      BY <3>2, <3>3 DEF TypeInv
  <2>6. TypeInv' /\ Alone(p)
    BY <1>2, <2>4, <2>5 DEF TypeInv, Alone, Still
  <2>7. CallOK(p)'
    BY <1>2, <1>4, <2>5 DEF CallOK, At, IoctlLabels, HeadLabels, MessageLabels, Still
  <2> QED
    BY <1>2, <1>4, <2>2, <2>3, <2>4, <2>5, <2>6, <2>7
<1> QED
  BY <1>3, <1>4

-----------------------------------------------------------------------------
(* The other steps of p: they are about messages, and open and close files. *)

\* No message file has another id or successor, and none comes or goes.
SameFiles ==
  \A n \in Nodes :
    /\ heap'[n] = None <=> heap[n] = None
    /\ heap[n] # None => /\ heap'[n].next = heap[n].next
                         /\ heap'[n].message_file_id = heap[n].message_file_id

Elsewhere(p) ==
  /\ SameFiles /\ UNCHANGED <<loaded, devices_info>>
  /\ call[p].at \notin IoctlLabels /\ call'[p].at \notin IoctlLabels
  /\ \A f \in FilesOf[p] :
       /\ OpenOK(f)'
       /\ info'[f] \in {info[f], None} \/ info'[f].message_file_id = 0
  /\ call'[p].at = "copy" =>
       \/ call[p].at = "copy" /\ call'[p].temp = call[p].temp
       \/ call[p].at = "read_length" /\ call'[p].temp = Current(p)

\* open changes an open file of its process only (message_slot.c:236-264).
LEMMA OpensEffect ==
  ASSUME CallInv, NEW p \in Procs, Opens(p), UNCHANGED exclusion
  PROVE  TypeInv' /\ Alone(p) /\ CallOK(p)' /\ Elsewhere(p)
<1> USE DEF CallInv
<1>1. PICK f \in FilesOf[p], m \in Minors : open_dev(p, f, m)
  BY DEF Opens
<1>2. /\ call[p].at = "user" /\ info[f] = None /\ UNCHANGED <<loaded, devices_info, heap>>
      /\ f \in Files /\ loaded # "out" /\ (loaded = "live" \/ "load" \notin exclusion)
  BY <1>1, FilesAssumption DEF open_dev, At, memory
<1> DEFINE new == [minor |-> m, message_file_id |-> 0, current_message_file |-> Wild]
<1>3. PICK r \in Results : Return(p, r)
  <2>1. OK(<<>>) \in Results /\ Error("ENOMEM") \in Results
    BY DEF Results, OK, Error, Codes
  <2> QED
    BY <1>1, <2>1 DEF open_dev
<1>4. info' = [info EXCEPT ![f] = new] \/ info' = info
  BY <1>1 DEF open_dev, OpenedId
<1>5. new \in OpenFile /\ new.message_file_id = 0
  BY DEF OpenFile
<1> HIDE DEF new
<1>6. /\ info' \in [Files -> OpenFile \cup {None}]
      /\ \A g \in Files \ {f} : info'[g] = info[g]
      /\ info'[f] = info[f] \/ info'[f].message_file_id = 0
  BY <1>2, <1>4, <1>5 DEF TypeInv
<1>7. /\ call' \in [Procs -> SystemCall] /\ result' \in [Procs -> Results] /\ call'[p] = User
      /\ \A q \in Procs \ {p} : call'[q] = call[q] /\ result'[q] = result[q]
  BY <1>3, Returns
<1>8. \A g \in FilesOf[p] : OpenOK(g)'
  BY <1>2 DEF OpenOK
<1>9. TypeInv' /\ CallOK(p)' /\ Alone(p)
  BY <1>2, <1>6, <1>7, UserType
  DEF TypeInv, Alone, CallOK, At, IoctlLabels, HeadLabels, MessageLabels
<1>10. Elsewhere(p)
  BY <1>2, <1>6, <1>7, <1>8, UserType, FilesAssumption DEF Elsewhere, SameFiles, IoctlLabels
<1> QED
  BY <1>9, <1>10

\* release changes an open file of its process only (message_slot.c:367-374).
LEMMA ClosesEffect ==
  ASSUME CallInv, NEW p \in Procs, Closes(p), UNCHANGED exclusion
  PROVE  TypeInv' /\ Alone(p) /\ CallOK(p)' /\ Elsewhere(p)
<1> USE DEF CallInv
<1>1. PICK f \in FilesOf[p] : release_dev(p, f)
  BY DEF Closes
<1>2. /\ call[p].at = "user" /\ UNCHANGED <<loaded, devices_info, heap, call, result>>
      /\ f \in Files /\ info' = [info EXCEPT ![f] = None]
  BY <1>1, FilesAssumption DEF release_dev, At, memory
<1>3. /\ info' \in [Files -> OpenFile \cup {None}]
      /\ info'[f] = None /\ \A g \in Files \ {f} : info'[g] = info[g]
  BY <1>2 DEF TypeInv
<1>4. TypeInv' /\ CallOK(p)' /\ Alone(p)
  BY <1>2, <1>3 DEF TypeInv, Alone, CallOK, At, IoctlLabels, HeadLabels, MessageLabels
<1>5. \A g \in FilesOf[p] : OpenOK(g)'
  BY <1>2, <1>3, FilesAssumption DEF OpenOK
<1> QED
  BY <1>2, <1>3, <1>4, <1>5, FilesAssumption DEF Elsewhere, SameFiles, IoctlLabels

\* A call that changes nothing but its own locals and its result.
LEMMA QuietEffect ==
  ASSUME CallInv, NEW p \in Procs, UNCHANGED <<loaded, devices_info, heap, info, exclusion>>,
         call[p].at \notin IoctlLabels, call'[p].at \notin IoctlLabels,
         \/ call'[p].at # "copy"
         \/ call[p].at = "copy" /\ call'[p].temp = call[p].temp
         \/ call[p].at = "read_length" /\ call'[p].temp = Current(p)
  PROVE  Elsewhere(p)
<1>1. \A f \in FilesOf[p] : OpenOK(f)'
  BY FilesAssumption DEF CallInv, OpenOK
<1> QED
  BY <1>1 DEF Elsewhere, SameFiles

\* The checks of write change nothing but the call (message_slot.c:162-215).
LEMMA WritesEffect ==
  ASSUME CallInv, NEW p \in Procs, Writes(p), UNCHANGED exclusion
  PROVE  TypeInv' /\ Alone(p) /\ CallOK(p)' /\ Elsewhere(p)
<1> USE DEF CallInv
<1>1. PICK f \in FilesOf[p], message \in Seq(Nat) : write_dev(p, f, message)
  BY DEF Writes
<1>2. call[p].at = "user" /\ info[f] # None /\ Still /\ f \in Files
  BY <1>1, FilesAssumption DEF write_dev, At, memory, Still
<1>3. CASE \E code \in {"EINVAL", "EMSGSIZE", "EIO"} : Return(p, Error(code))
  <2>1. PICK r \in Results : Return(p, r)
    <3>1. PICK code \in {"EINVAL", "EMSGSIZE", "EIO"} : Return(p, Error(code))
      BY <1>3
    <3>2. Error(code) \in Results
      BY DEF Results, Error, Codes
    <3> QED
      BY <3>1, <3>2
  <2>2. /\ call' \in [Procs -> SystemCall] /\ result' \in [Procs -> Results] /\ call'[p] = User
        /\ \A q \in Procs \ {p} : call'[q] = call[q] /\ result'[q] = result[q]
    BY <2>1, Returns
  <2>3. TypeInv' /\ CallOK(p)' /\ Alone(p)
    BY <1>2, <2>2, UserType
    DEF TypeInv, Alone, CallOK, At, IoctlLabels, HeadLabels, MessageLabels, Still
  <2> QED
    BY <1>2, <2>2, <2>3, UserType, QuietEffect DEF Still, IoctlLabels
<1>4. CASE /\ Enter(p, f, "set_length", 0, NULL, message) /\ UNCHANGED result
           /\ info[f].message_file_id # 0 /\ Len(message) # 0 /\ ~TooLong(Len(message))
  <2> DEFINE new == [User EXCEPT !.at = "set_length", !.file = f, !.id = 0, !.temp = NULL,
                                 !.buffer = message]
  <2>1. /\ new \in SystemCall
        /\ new.at = "set_length" /\ new.file = f /\ new.buffer = message
    BY <1>2, UserType DEF SystemCall, Labels, MessageLabels
  <2>2. call' = [call EXCEPT ![p] = new]
    BY <1>4 DEF Enter
  <2> HIDE DEF new
  <2>3. /\ call' \in [Procs -> SystemCall] /\ call'[p] = new
        /\ \A q \in Procs \ {p} : call'[q] = call[q]
    BY <2>1, <2>2 DEF TypeInv
  <2>4. Len(message) \in 1..BUFFER_LENGTH
    BY <1>4, BoundsAssumption DEF TooLong
  <2>5. TypeInv' /\ Alone(p)
    BY <1>2, <1>4, <2>3 DEF TypeInv, Alone, Still
  <2>6. CallOK(p)'
    BY <1>2, <1>4, <2>1, <2>3, <2>4 DEF CallOK, At, IoctlLabels, HeadLabels, MessageLabels, Still
  <2> QED
    BY <1>2, <2>1, <2>3, <2>5, <2>6, QuietEffect DEF Still, IoctlLabels
<1> QED
  BY <1>1, <1>3, <1>4 DEF write_dev

\* The checks of read change nothing but the call (message_slot.c:105-122).
LEMMA ReadsEffect ==
  ASSUME CallInv, NEW p \in Procs, Reads(p), UNCHANGED exclusion
  PROVE  TypeInv' /\ Alone(p) /\ CallOK(p)' /\ Elsewhere(p)
<1> USE DEF CallInv
<1>1. PICK f \in FilesOf[p], n \in Nat : read_dev(p, f, n)
  BY DEF Reads
<1>2. call[p].at = "user" /\ info[f] # None /\ Still /\ f \in Files
  BY <1>1, FilesAssumption DEF read_dev, At, memory, Still
<1>3. CASE info[f].message_file_id = 0
  <2>1. Return(p, Error("EINVAL")) /\ Error("EINVAL") \in Results
    BY <1>1, <1>3 DEF read_dev, Results, Error, Codes
  <2>2. /\ call' \in [Procs -> SystemCall] /\ result' \in [Procs -> Results] /\ call'[p] = User
        /\ \A q \in Procs \ {p} : call'[q] = call[q] /\ result'[q] = result[q]
    BY <2>1, Returns
  <2>3. TypeInv' /\ CallOK(p)' /\ Alone(p)
    BY <1>2, <2>2, UserType
    DEF TypeInv, Alone, CallOK, At, IoctlLabels, HeadLabels, MessageLabels, Still
  <2> QED
    BY <1>2, <2>2, <2>3, UserType, QuietEffect DEF Still, IoctlLabels
<1>4. CASE info[f].message_file_id # 0
  <2> DEFINE new == [User EXCEPT !.at = "read_length", !.file = f, !.size = n]
  <2>1. new \in SystemCall /\ new.at = "read_length" /\ new.file = f
    BY <1>2, UserType DEF SystemCall, Labels, MessageLabels
  <2>2. call' = [call EXCEPT ![p] = new] /\ UNCHANGED result
    BY <1>1, <1>4 DEF read_dev
  <2> HIDE DEF new
  <2>3. /\ call' \in [Procs -> SystemCall] /\ call'[p] = new
        /\ \A q \in Procs \ {p} : call'[q] = call[q]
    BY <2>1, <2>2 DEF TypeInv
  <2>4. TypeInv' /\ Alone(p)
    BY <1>2, <2>2, <2>3 DEF TypeInv, Alone, Still
  <2>5. CallOK(p)'
    BY <1>2, <1>4, <2>1, <2>3 DEF CallOK, At, IoctlLabels, HeadLabels, MessageLabels, Still
  <2> QED
    BY <1>2, <2>1, <2>3, <2>4, <2>5, QuietEffect DEF Still, IoctlLabels
<1> QED
  BY <1>3, <1>4

\* write stores a length that fits, and no link (message_slot.c:217-221).
LEMMA SetLengthEffect ==
  ASSUME CallInv, NEW p \in Procs, SetLength(p), UNCHANGED exclusion
  PROVE  TypeInv' /\ Alone(p) /\ CallOK(p)' /\ Elsewhere(p)
<1> USE DEF CallInv
<1>1. /\ At(p, {"set_length"}) /\ Valid(Current(p)) /\ UNCHANGED <<loaded, devices_info, info, result>>
      /\ call' = [call EXCEPT ![p].at = "store", ![p].i = 1]
  BY DEF SetLength
<1>2. PICK n \in Nodes : n = Current(p) /\ heap[n] # None /\ heap[n] \in MessageFile
  BY <1>1, ValidType
<1>3. PICK len \in 1..BUFFER_LENGTH : len = Len(call[p].buffer)
  BY <1>1 DEF CallOK, At
<1> DEFINE node == [heap[n] EXCEPT !.message_length = len]
           new == [call[p] EXCEPT !.at = "store", !.i = 1]
<1>4. heap' = [heap EXCEPT ![n] = node]
  BY <1>2, <1>3 DEF SetLength, NewLength, TypeInv
<1>5. /\ node \in MessageFile /\ node.next = heap[n].next
      /\ node.message_file_id = heap[n].message_file_id
  BY <1>2, BoundsAssumption DEF MessageFile
<1>6. call' = [call EXCEPT ![p] = new]
  BY <1>1 DEF TypeInv
<1>7. /\ new \in SystemCall /\ new.at = "store" /\ new.i = 1 /\ new.file = call[p].file
      /\ new.buffer = call[p].buffer
  <2>1. call[p] \in SystemCall /\ "store" \in Labels
    BY DEF TypeInv, Labels, MessageLabels
  <2> QED
    BY <2>1 DEF SystemCall
<1> HIDE DEF node, new
<1>8. /\ heap' \in [Nodes -> MessageFile \cup {None}] /\ heap'[n] = node
      /\ \A k \in Nodes \ {n} : heap'[k] = heap[k]
  BY <1>4, <1>5 DEF TypeInv
<1>9. call' \in [Procs -> SystemCall] /\ call'[p] = new /\ \A q \in Procs \ {p} : call'[q] = call[q]
  BY <1>6, <1>7 DEF TypeInv
<1>10. TypeInv' /\ Alone(p)
  BY <1>1, <1>8, <1>9 DEF TypeInv, Alone
<1>11. CallOK(p)'
  BY <1>1, <1>3, <1>7, <1>9 DEF CallOK, At, IoctlLabels, HeadLabels, MessageLabels
<1>12. SameFiles
  BY <1>2, <1>5, <1>8, NoneAssumption DEF SameFiles
<1>13. \A f \in FilesOf[p] : OpenOK(f)'
  BY <1>1, FilesAssumption DEF OpenOK
<1> QED
  BY <1>1, <1>7, <1>9, <1>10, <1>11, <1>12, <1>13 DEF Elsewhere, At, IoctlLabels

\* write stores a byte, and no link (message_slot.c:221-231).
LEMMA StoreByteEffect ==
  ASSUME CallInv, NEW p \in Procs, StoreByte(p), UNCHANGED exclusion
  PROVE  TypeInv' /\ Alone(p) /\ CallOK(p)' /\ Elsewhere(p)
<1> USE DEF CallInv
<1>1. At(p, {"store"}) /\ Valid(Current(p)) /\ UNCHANGED <<loaded, devices_info, info>>
  BY DEF StoreByte
<1>2. PICK n \in Nodes : n = Current(p) /\ heap[n] # None /\ heap[n] \in MessageFile
  BY <1>1, ValidType
<1>3. PICK i \in 1..Len(call[p].buffer) : i = call[p].i
  BY <1>1 DEF CallOK, At
<1>4. /\ call[p].buffer \in Seq(Nat) /\ Len(call[p].buffer) \in 1..BUFFER_LENGTH
      /\ i \in 1..BUFFER_LENGTH
  <2>1. call[p].buffer \in Seq(Nat) /\ Len(call[p].buffer) \in 1..BUFFER_LENGTH
    BY <1>1 DEF CallOK, At, TypeInv, SystemCall
  <2> QED
    BY <2>1, BoundsAssumption
<1>5. PICK byte \in Nat : byte = call[p].buffer[i]
  BY <1>4
<1> DEFINE node == [heap[n] EXCEPT !.message[i] = byte]
           new == [call[p] EXCEPT !.i = i + 1]
<1>6. heap' = [heap EXCEPT ![n] = node]
  BY <1>2, <1>3, <1>5 DEF StoreByte, TypeInv
<1>7. /\ node \in MessageFile /\ node.next = heap[n].next
      /\ node.message_file_id = heap[n].message_file_id
  BY <1>2, <1>4, BoundsAssumption DEF MessageFile
<1> HIDE DEF node
<1>8. /\ heap' \in [Nodes -> MessageFile \cup {None}] /\ heap'[n] = node
      /\ \A k \in Nodes \ {n} : heap'[k] = heap[k]
  BY <1>6, <1>7 DEF TypeInv
<1>9. SameFiles
  BY <1>2, <1>7, <1>8, NoneAssumption DEF SameFiles
<1>10. \A f \in FilesOf[p] : OpenOK(f)'
  BY <1>1, FilesAssumption DEF OpenOK
<1>11. CASE i = Len(call[p].buffer)
  <2>1. OK(call[p].buffer) \in Results
    BY <1>4 DEF Results, OK, Codes
  <2>2. PICK r \in Results : Return(p, r)
    BY <1>3, <1>11, <2>1 DEF StoreByte
  <2>3. /\ call' \in [Procs -> SystemCall] /\ result' \in [Procs -> Results] /\ call'[p] = User
        /\ \A q \in Procs \ {p} : call'[q] = call[q] /\ result'[q] = result[q]
    BY <2>2, Returns
  <2>4. TypeInv' /\ CallOK(p)' /\ Alone(p)
    BY <1>1, <1>8, <2>3, UserType
    DEF TypeInv, Alone, CallOK, At, IoctlLabels, HeadLabels, MessageLabels
  <2> QED
    BY <1>1, <1>9, <1>10, <2>3, <2>4, UserType DEF Elsewhere, At, IoctlLabels
<1>12. CASE i # Len(call[p].buffer)
  <2>1. call' = [call EXCEPT ![p] = new] /\ UNCHANGED result
    BY <1>3, <1>12 DEF StoreByte, TypeInv
  <2>2. /\ new \in SystemCall /\ new.at = call[p].at /\ new.i = i + 1 /\ new.file = call[p].file
        /\ new.buffer = call[p].buffer
    <3>1. call[p] \in SystemCall /\ i + 1 \in Nat
      BY DEF TypeInv
    <3> QED
      BY <3>1 DEF SystemCall
  <2> HIDE DEF new
  <2>3. /\ call' \in [Procs -> SystemCall] /\ call'[p] = new
        /\ \A q \in Procs \ {p} : call'[q] = call[q]
    BY <2>1, <2>2 DEF TypeInv
  <2>4. i + 1 \in 1..Len(call[p].buffer)
    BY <1>4, <1>12
  <2>5. TypeInv' /\ Alone(p)
    BY <1>1, <1>8, <2>1, <2>3 DEF TypeInv, Alone
  <2>6. CallOK(p)'
    BY <1>1, <2>2, <2>3, <2>4 DEF CallOK, At, IoctlLabels, HeadLabels, MessageLabels
  <2> QED
    BY <1>1, <1>9, <1>10, <2>2, <2>3, <2>5, <2>6 DEF Elsewhere, At, IoctlLabels
<1> QED
  BY <1>11, <1>12

\* read takes a length that fits (message_slot.c:124-140).
LEMMA ReadLengthEffect ==
  ASSUME CallInv, NEW p \in Procs, ReadLength(p), UNCHANGED exclusion
  PROVE  TypeInv' /\ Alone(p) /\ CallOK(p)' /\ Elsewhere(p)
<1> USE DEF CallInv
<1>1. At(p, {"read_length"}) /\ Valid(Current(p)) /\ Still
  BY DEF ReadLength, memory, Still
<1>2. PICK n \in Nodes : n = Current(p) /\ heap[n] \in MessageFile
  BY <1>1, ValidType
<1>3. PICK length \in 0..BUFFER_LENGTH : length = heap[Current(p)].message_length
  BY <1>2 DEF MessageFile
<1>4. CASE length = 0 \/ length > call[p].size
  <2>1. Return(p, Error("EWOULDBLOCK")) /\ Error("EWOULDBLOCK") \in Results
    BY <1>3, <1>4 DEF ReadLength, Results, Error, Codes
  <2>2. /\ call' \in [Procs -> SystemCall] /\ result' \in [Procs -> Results] /\ call'[p] = User
        /\ \A q \in Procs \ {p} : call'[q] = call[q] /\ result'[q] = result[q]
    BY <2>1, Returns
  <2>3. TypeInv' /\ CallOK(p)' /\ Alone(p)
    BY <1>1, <2>2, UserType
    DEF TypeInv, Alone, CallOK, At, IoctlLabels, HeadLabels, MessageLabels, Still
  <2> QED
    BY <1>1, <2>2, <2>3, UserType, QuietEffect DEF Still, At, IoctlLabels
<1>5. CASE ~(length = 0 \/ length > call[p].size)
  <2> DEFINE new == [call[p] EXCEPT !.at = "copy", !.size = length, !.i = 1, !.temp = n]
  <2>1. call' = [call EXCEPT ![p] = new] /\ UNCHANGED result
    BY <1>2, <1>3, <1>5 DEF ReadLength, TypeInv
  <2>2. /\ new \in SystemCall /\ new.at = "copy" /\ new.size = length /\ new.i = 1
        /\ new.temp = n /\ new.file = call[p].file
    <3>1. call[p] \in SystemCall /\ "copy" \in Labels /\ length \in Nat
      BY BoundsAssumption DEF TypeInv, Labels, MessageLabels
    <3> QED
      BY <3>1 DEF SystemCall
  <2> HIDE DEF new
  <2>3. /\ call' \in [Procs -> SystemCall] /\ call'[p] = new
        /\ \A q \in Procs \ {p} : call'[q] = call[q]
    BY <2>1, <2>2 DEF TypeInv
  <2>4. 1 \in 1..length /\ length \in 1..BUFFER_LENGTH
    BY <1>5, BoundsAssumption
  <2>5. TypeInv' /\ Alone(p)
    BY <1>1, <2>1, <2>3 DEF TypeInv, Alone, Still
  <2>6. CallOK(p)'
    BY <1>1, <2>2, <2>3, <2>4 DEF CallOK, At, IoctlLabels, HeadLabels, MessageLabels, Still
  <2> QED
    BY <1>1, <1>2, <2>2, <2>3, <2>5, <2>6, QuietEffect DEF Still, At, IoctlLabels
<1> QED
  BY <1>4, <1>5

\* read copies a byte from inside the message (message_slot.c:142-157).
LEMMA CopyByteEffect ==
  ASSUME CallInv, NEW p \in Procs, CopyByte(p), UNCHANGED exclusion
  PROVE  TypeInv' /\ Alone(p) /\ CallOK(p)' /\ Elsewhere(p)
<1> USE DEF CallInv
<1>1. At(p, {"copy"}) /\ Valid(call[p].temp) /\ Still
  BY DEF CopyByte, memory, Still
<1>2. PICK n \in Nodes : n = call[p].temp /\ heap[n] \in MessageFile
  BY <1>1, ValidType
<1>3. /\ call[p] \in SystemCall /\ call[p].i \in Nat /\ call[p].size \in 1..BUFFER_LENGTH
      /\ call[p].i \in 1..call[p].size /\ call[p].buffer \in Seq(Nat)
  BY <1>1 DEF CallOK, At, TypeInv, SystemCall
<1>4. PICK i \in 1..BUFFER_LENGTH : i = call[p].i
  BY <1>3, BoundsAssumption
<1>5. PICK byte \in Nat : byte = heap[n].message[i]
  BY <1>2 DEF MessageFile
<1>6. PICK copied \in Seq(Nat) : copied = Append(call[p].buffer, byte)
  <2>1. Append(call[p].buffer, byte) \in Seq(Nat)
    BY <1>3, AppendProperties
  <2> QED
    BY <2>1
<1>7. CASE call[p].i = call[p].size
  <2>1. OK(copied) \in Results /\ Error("EIO") \in Results
    BY DEF Results, OK, Error, Codes
  <2>2. PICK r \in Results : Return(p, r)
    BY <1>2, <1>4, <1>5, <1>6, <1>7, <2>1 DEF CopyByte
  <2>3. /\ call' \in [Procs -> SystemCall] /\ result' \in [Procs -> Results] /\ call'[p] = User
        /\ \A q \in Procs \ {p} : call'[q] = call[q] /\ result'[q] = result[q]
    BY <2>2, Returns
  <2>4. TypeInv' /\ CallOK(p)' /\ Alone(p)
    BY <1>1, <2>3, UserType
    DEF TypeInv, Alone, CallOK, At, IoctlLabels, HeadLabels, MessageLabels, Still
  <2> QED
    BY <1>1, <2>3, <2>4, UserType, QuietEffect DEF Still, At, IoctlLabels
<1>8. CASE call[p].i # call[p].size
  <2> DEFINE new == [call[p] EXCEPT !.buffer = copied, !.i = i + 1]
  <2>1. call' = [call EXCEPT ![p] = new] /\ UNCHANGED result
    BY <1>2, <1>4, <1>5, <1>6, <1>8 DEF CopyByte, TypeInv
  <2>2. /\ new \in SystemCall /\ new.at = call[p].at /\ new.i = i + 1 /\ new.file = call[p].file
        /\ new.size = call[p].size /\ new.temp = call[p].temp
    <3>1. i + 1 \in Nat
      BY <1>4
    <3> QED
      BY <1>3, <3>1 DEF SystemCall
  <2> HIDE DEF new
  <2>3. /\ call' \in [Procs -> SystemCall] /\ call'[p] = new
        /\ \A q \in Procs \ {p} : call'[q] = call[q]
    BY <2>1, <2>2 DEF TypeInv
  <2>4. i + 1 \in 1..call[p].size
    BY <1>3, <1>4, <1>8, BoundsAssumption
  <2>5. TypeInv' /\ Alone(p)
    BY <1>1, <2>1, <2>3 DEF TypeInv, Alone, Still
  <2>6. CallOK(p)'
    BY <1>1, <1>3, <2>2, <2>3, <2>4
    DEF CallOK, At, IoctlLabels, HeadLabels, MessageLabels, Still
  <2> QED
    BY <1>1, <2>2, <2>3, <2>5, <2>6, QuietEffect DEF Still, At, IoctlLabels
<1> QED
  BY <1>7, <1>8

-----------------------------------------------------------------------------
(* insmod and rmmod.                                                       *)

\* rmmod frees what the lists reach while nobody is in a call; insmod makes them empty
\* (message_slot.c:396-452).
LEMMA SuperuserEffect ==
  ASSUME CallInv, Superuser, UNCHANGED exclusion
  PROVE  /\ TypeInv' /\ UNCHANGED <<info, call, result>>
         /\ \/ /\ loaded = "live" /\ loaded' = "out" /\ UNCHANGED devices_info
               /\ \A p \in Procs : call[p].at = "user"
               /\ \A f \in Files : info[f] = None
               /\ \A n \in Nodes : heap'[n] = IF n \in Freed THEN None ELSE heap[n]
            \/ /\ \/ loaded = "out" /\ loaded' = "loading"
                  \/ loaded = "loading" /\ loaded' = "live"
               /\ UNCHANGED heap /\ \A m \in Minors : devices_info'[m] = NULL
<1> USE DEF CallInv
<1>1. CASE cleanup
  <2>1. /\ loaded = "live" /\ loaded' = "out" /\ UNCHANGED <<devices_info, info, call, result>>
        /\ \A f \in Files : info[f] = None
        /\ heap' = [n \in Nodes |-> IF n \in Freed THEN None ELSE heap[n]]
    BY <1>1 DEF cleanup
  <2>2. /\ heap' \in [Nodes -> MessageFile \cup {None}]
        /\ \A n \in Nodes : heap'[n] = IF n \in Freed THEN None ELSE heap[n]
    BY <2>1 DEF TypeInv
  <2>3. \A p \in Procs : call[p].at = "user"
    BY <2>1, FilesAssumption DEF CallOK, At
  <2> QED
    BY <2>1, <2>2, <2>3 DEF TypeInv
<1>2. CASE Register \/ initiallize
  <2>1. /\ UNCHANGED <<heap, info, call, result>> /\ devices_info' = [m \in Minors |-> NULL]
        /\ \/ loaded = "out" /\ loaded' = "loading"
           \/ loaded = "loading" /\ loaded' = "live"
    BY <1>2 DEF Register, initiallize
  <2> QED
    BY <2>1 DEF TypeInv
<1> QED
  BY <1>1, <1>2 DEF Superuser

-----------------------------------------------------------------------------
(* The invariant of the system calls.                                      *)

\* A step of a process that is about messages, or opens or closes a file.
Transfers(p) ==
  Opens(p) \/ Closes(p) \/ Writes(p) \/ Reads(p) \/ SetLength(p) \/ StoreByte(p)
  \/ ReadLength(p) \/ CopyByte(p)

\* What opens, closes, reads or writes changes no link and enters no ioctl.
LEMMA TransfersEffect ==
  ASSUME CallInv, NEW p \in Procs, Transfers(p), UNCHANGED exclusion
  PROVE  TypeInv' /\ Alone(p) /\ CallOK(p)' /\ Elsewhere(p)
  BY OpensEffect, ClosesEffect, WritesEffect, ReadsEffect, SetLengthEffect, StoreByteEffect,
     ReadLengthEffect, CopyByteEffect DEF Transfers

\* The steps of an ioctl.
IoctlStep(p) ==
  Controls(p) \/ Search(p) \/ AddNext(p) \/ InitNext(p) \/ NewList(p) \/ SetId(p) \/ SetFile(p)
  \/ Publish(p)

\* Every step is one of a process, of the superuser, or leaves the module alone.
LEMMA ProcessCases ==
  ASSUME [Next]_vars
  PROVE  /\ \/ \E p \in Procs : Transfers(p) \/ IoctlStep(p) \/ Oops(p)
            \/ Superuser
            \/ UNCHANGED slot
         /\ UNCHANGED exclusion
<1>1. ASSUME NEW p \in Procs,
             Opens(p) \/ Writes(p) \/ Reads(p) \/ Closes(p) \/ Controls(p) \/ KernelStep(p)
      PROVE  Transfers(p) \/ IoctlStep(p) \/ Oops(p)
  BY <1>1 DEF Transfers, IoctlStep, KernelStep
<1> QED
  BY <1>1, StepCases

\* An ioctl opens no file.
KeepsOpen(p) ==
  UNCHANGED loaded /\ \A f \in FilesOf[p] : info'[f] # None => info[f] # None

\* A step of an ioctl, or a kill, opens no file and loads no module.
LEMMA IoctlEffect ==
  ASSUME CallInv, NEW p \in Procs, IoctlStep(p) \/ Oops(p), UNCHANGED exclusion
  PROVE  TypeInv' /\ Alone(p) /\ CallOK(p)' /\ KeepsOpen(p)
<1> USE DEF KeepsOpen
<1>1. CASE SetId(p)
  <2>1. /\ TypeInv' /\ Alone(p) /\ CallOK(p)' /\ UNCHANGED loaded
        /\ At(p, {"set_id", "set_next_id", "head_id"})
        /\ \A f \in Files \ {call[p].file} : info'[f] = info[f]
    BY <1>1, SetIdEffect
  <2>2. info[call[p].file] # None
    BY <2>1 DEF CallInv, CallOK, At
  <2> QED
    BY <2>1, <2>2, FilesAssumption DEF CallInv, TypeInv
<1>2. CASE SetFile(p)
  <2>1. /\ TypeInv' /\ Alone(p) /\ CallOK(p)' /\ UNCHANGED loaded /\ At(p, {"set_file", "head_file"})
        /\ \A f \in Files \ {call[p].file} : info'[f] = info[f]
    BY <1>2, SetFileEffect
  <2>2. info[call[p].file] # None
    BY <2>1 DEF CallInv, CallOK, At
  <2> QED
    BY <2>1, <2>2, FilesAssumption DEF CallInv, TypeInv
<1>3. CASE Oops(p)
  BY <1>3, OopsEffect
<1>4. CASE Controls(p)
  BY <1>4, ControlsEffect DEF Still
<1>5. CASE Search(p)
  BY <1>5, SearchEffect DEF Still
<1>6. CASE AddNext(p) \/ InitNext(p) \/ NewList(p) \/ Publish(p)
  BY <1>6, AddNextEffect, InitNextEffect, NewListEffect, PublishEffect
<1> QED
  BY <1>1, <1>2, <1>3, <1>4, <1>5, <1>6 DEF IoctlStep

\* CallInv is inductive (message_slot.c:105-374).
LEMMA CallStep ==
  ASSUME CallInv, [Next]_vars
  PROVE  CallInv'
<1> USE DEF CallInv
<1>1. UNCHANGED exclusion
  BY ProcessCases
<1>2. ASSUME NEW p \in Procs, Transfers(p) \/ IoctlStep(p) \/ Oops(p)
      PROVE  CallInv'
  <2>1. /\ TypeInv' /\ Alone(p) /\ CallOK(p)' /\ UNCHANGED loaded
        /\ \A f \in FilesOf[p] : OpenOK(f)'
    <3>1. CASE Transfers(p)
      BY <1>1, <3>1, TransfersEffect DEF Elsewhere
    <3>2. CASE IoctlStep(p) \/ Oops(p)
      <4>1. TypeInv' /\ Alone(p) /\ CallOK(p)' /\ KeepsOpen(p)
        BY <1>1, <3>2, IoctlEffect
      <4>2. \A f \in FilesOf[p] : OpenOK(f)'
        BY <1>1, <4>1, FilesAssumption DEF KeepsOpen, OpenOK
      <4> QED
        BY <4>1, <4>2 DEF KeepsOpen
    <3> QED
      BY <1>2, <3>1, <3>2
  <2>2. ASSUME NEW q \in Procs \ {p} PROVE CallOK(q)'
    <3>1. CallOK(q) /\ call'[q] = call[q]
      BY <2>1 DEF Alone
    <3>2. ~At(q, {"user"}) => /\ call[q].file \in FilesOf[q]
                              /\ info'[call[q].file] = info[call[q].file]
      BY <2>1, <3>1, FilesAssumption DEF Alone, CallOK
    <3> QED
      BY <3>1, <3>2 DEF CallOK, At, IoctlLabels, HeadLabels, MessageLabels
  <2>3. ASSUME NEW f \in Files \ FilesOf[p] PROVE OpenOK(f)'
    BY <1>1, <2>1 DEF Alone, OpenOK
  <2> QED
    BY <1>1, <2>1, <2>2, <2>3
<1>3. CASE Superuser
  <2>1. TypeInv' /\ UNCHANGED <<info, call, result>>
    BY <1>1, <1>3, SuperuserEffect
  <2>2. \A f \in Files : OpenOK(f)'
    BY <1>1, <1>3, <2>1, SuperuserEffect DEF OpenOK
  <2>3. \A p \in Procs : CallOK(p)'
    BY <2>1 DEF CallOK, At
  <2> QED
    BY <1>1, <2>1, <2>2, <2>3
<1>4. CASE UNCHANGED slot
  BY <1>4 DEF slot, TypeInv, CallOK, OpenOK, At
<1> QED
  BY <1>2, <1>3, <1>4, ProcessCases

\* No process is in a call at the start.
LEMMA CallInit == Init => CallInv
<1> SUFFICES ASSUME Init PROVE CallInv
  OBVIOUS
<1>1. OK(<<>>) \in Results
  BY DEF Results, OK, Codes
<1>2. TypeInv
  BY <1>1, UserType DEF Init, SlotInit, TypeInv
<1>3. \A p \in Procs : CallOK(p)
  BY UserType DEF Init, SlotInit, CallOK, At, IoctlLabels, HeadLabels, MessageLabels
<1> QED
  BY <1>2, <1>3 DEF Init, SlotInit, CallInv, OpenOK

\* While a call runs its file stays open and the module loaded, and what it has checked
\* stays true: the id, the length of the message, the index of its loop
\* (message_slot.c:105-374).
THEOREM CallInvariant == Spec => []CallInv
  BY CallInit, CallStep, PTL DEF Spec

MainOK == main \in [Procs -> {"open", "ioctl", "transfer", "close"}]

\* Each program is where it was or one call further (message_sender.c:92-114).
LEMMA MainStep ==
  ASSUME MainOK, [Next]_vars
  PROVE  MainOK'
<1> USE DEF MainOK, Then
<1>1. ASSUME NEW p \in Procs, NEW f \in FilesOf[p], Run(p, f) PROVE MainOK'
  BY <1>1 DEF Run, open_file, ioctl_file, Transfer, Exit
<1>2. ASSUME NEW p \in Procs, NEW f \in FilesOf[p], Call(p, f) PROVE MainOK'
  BY <1>2 DEF Call
<1>3. ASSUME NEW p \in Procs, Kernel(p) PROVE MainOK'
  BY <1>3 DEF Kernel
<1> QED
  BY <1>1, <1>2, <1>3 DEF Next, vars

\* Everything has its type: a call that runs is about an open file, a message
\* that is written fits, a message file has a valid length and id.
THEOREM TypeCorrect == Spec => []TypeOK
<1>1. Init => MainOK
  BY DEF Init, MainOK
<1>2. MainOK /\ [Next]_vars => MainOK'
  BY MainStep
<1>3. CallInv /\ MainOK => TypeOK
  <2> SUFFICES ASSUME CallInv, MainOK PROVE TypeOK
    OBVIOUS
  <2>1. \A n \in Nodes \ Unused : heap[n] \in MessageFile
    BY DEF CallInv, TypeInv, Unused
  <2>2. \A f \in Files : info[f] # None => info[f] \in OpenFile
    BY DEF CallInv, TypeInv
  <2>3. ASSUME NEW p \in Procs
        PROVE  /\ call[p].at \in {"user"} \cup IoctlLabels \cup MessageLabels
               /\ call[p].at # "user" => call[p].file \in Files
               /\ result[p].code \in Codes
    BY FilesAssumption DEF CallInv, TypeInv, CallOK, At, SystemCall, Results, Labels
  <2> QED
    BY <2>1, <2>2, <2>3 DEF CallInv, TypeInv, TypeOK, MainOK
<1> QED
  BY <1>1, <1>2, <1>3, CallInvariant, PTL DEF Spec

-----------------------------------------------------------------------------
(* The inductive invariant: the lists and the ioctls, when the callers keep *)
(* the ioctls of one device apart.                                         *)

TailLabels == {"search", "append", "init", "set_next_id", "set_id", "set_file"}

\* The message files ahead of an ioctl; insmod may have made it lose its list.
Walks(p) == At(p, TailLabels \cup HeadLabels)
Reach(p) == LinkedFrom(call[p].temp, heap)

AloneInv ==
  \A p, q \in Procs : p # q /\ At(p, IoctlLabels) /\ At(q, IoctlLabels) => Minor(p) # Minor(q)

Whole(S) == \A n \in S : Valid(n) /\ (Raw(n) \/ heap[n].next # Wild)

\* One end, one predecessor for each message file, one message file for an id.
ListOK(S) ==
  /\ Whole(S)
  /\ S # {} => \E n \in S : heap[n].next \notin Nodes
  /\ \A n, k \in S :
       /\ heap[n].next \notin Nodes /\ heap[k].next \notin Nodes => n = k
       /\ heap[n].next = heap[k].next => n = k
       /\ n # k /\ ~Raw(n) /\ ~Raw(k) => heap[n].message_file_id # heap[k].message_file_id

ShapeInv ==
  loaded # "out" =>
    /\ \A m \in Minors : ListOK(Linked(m))
    /\ \A m, k \in Minors : m # k => Linked(m) \cap Linked(k) = {}

\* What an ioctl reaches is its own.
ApartOK(p) ==
  Walks(p) =>
    /\ call[p].temp \in Nodes /\ Whole(Reach(p))
    /\ \A m \in Minors \ {Minor(p)} : Reach(p) \cap Linked(m) = {}
    /\ \A q \in Procs \ {p} : Walks(q) => Reach(p) \cap Reach(q) = {}

Holds(n, p) == Valid(n) /\ heap[n].message_file_id = call[p].id
OtherIds(p, S) == \A n \in S : heap[n].message_file_id # call[p].id

\* Where an ioctl is in its list: the id is not behind it, then nowhere, then in
\* the message file it found or added.
WalkOK(p) ==
  /\ At(p, {"search"}) => OtherIds(p, Linked(Minor(p)) \ Reach(p))
  /\ At(p, {"append"}) => heap[call[p].temp].next \notin Nodes /\ OtherIds(p, Linked(Minor(p)))
  /\ At(p, {"init"}) =>
       /\ Valid(heap[call[p].temp].next)
       /\ heap[heap[call[p].temp].next].next \notin Nodes
       /\ OtherIds(p, Linked(Minor(p)) \ {heap[call[p].temp].next})
  /\ At(p, {"set_next_id"}) => Holds(heap[call[p].temp].next, p)
  /\ At(p, {"set_id", "set_file"} \cup HeadLabels) => Holds(call[p].temp, p)
  /\ At(p, HeadLabels) => heap[call[p].temp].next = NULL
  /\ At(p, {"new_list"} \cup HeadLabels) => devices_info[Minor(p)] = NULL
  /\ At(p, {"set_file", "head_file", "publish"}) => info[call[p].file].message_file_id = call[p].id
  /\ At(p, {"publish"}) => Current(p) = call[p].temp

ListInv ==
  /\ AloneInv
  /\ ShapeInv
  /\ \A p \in Procs : ApartOK(p) /\ WalkOK(p)

-----------------------------------------------------------------------------
(* The frame of a step.                                                    *)

\* A step of p does no more to a message file than write its message.
Kept(k) ==
  /\ heap'[k] = None <=> heap[k] = None
  /\ heap[k] # None => /\ heap'[k].next = heap[k].next
                       /\ heap'[k].message_file_id = heap[k].message_file_id

\* The message file p is about to set up.
InitOf(p, k) == At(p, {"init"}) /\ heap[call[p].temp].next = k

\* A step of p, on a device M if on any, changes the message files in C, which
\* are among A, its own, and the lists of the devices in D.
Frame(p, M, A, C, D) ==
  /\ Alone(p) /\ CallOK(p)' /\ TypeInv'
  /\ C \subseteq A /\ D \subseteq {M}
  /\ \A q \in Procs \ {p} : Walks(q) => A \cap Reach(q) = {}
  /\ \A m \in Minors \ {M} : A \cap Linked(m) = {}
  /\ \A q \in Procs \ {p} : At(q, IoctlLabels) => Minor(q) \notin D
  /\ \A m \in Minors \ D : devices_info'[m] = devices_info[m] /\ C \cap Linked(m) = {}
  /\ \A k \in Nodes \ C : Kept(k) /\ ~InitOf(p, k) /\ ~InitOf(p, k)'

\* A step of p leaves what another call looks at as it was.
LEMMA OtherCalls ==
  ASSUME CallInv, NEW p \in Procs, Alone(p), NEW q \in Procs \ {p}
  PROVE  /\ call'[q] = call[q]
         /\ call[q].at # "user" => /\ info'[call[q].file] = info[call[q].file]
                                   /\ Minor(q)' = Minor(q) /\ Current(q)' = Current(q)
                                   /\ Minor(q) \in Minors
<1>1. call'[q] = call[q] /\ CallOK(q)
  BY DEF Alone, CallInv
<1>2. ASSUME call[q].at # "user"
      PROVE  /\ info'[call[q].file] = info[call[q].file] /\ info[call[q].file] \in OpenFile
  <2>1. call[q].file \in Files \ FilesOf[p] /\ info[call[q].file] # None
    BY <1>1, <1>2, FilesAssumption DEF CallOK, At
  <2> QED
    BY <2>1 DEF Alone, CallInv, TypeInv
<1> QED
  BY <1>1, <1>2 DEF Minor, Current, OpenFile

\* What an ioctl reaches has its own pointer, and is closed under next.
LEMMA ReachOwn ==
  ASSUME NEW p, call[p].temp \in Nodes
  PROVE  call[p].temp \in Reach(p) /\ Reach(p) \in SUBSET Nodes /\ Closed(Reach(p), heap)
  BY LinkedClosed DEF Reach

\* A list has its head, and is closed under next.
LEMMA LinkedOwn ==
  ASSUME NEW m
  PROVE  /\ Linked(m) \in SUBSET Nodes /\ Closed(Linked(m), heap)
         /\ devices_info[m] \in Nodes => devices_info[m] \in Linked(m)
  BY LinkedClosed DEF Linked

\* What the others rely on, and what they reach, is as it was.
LEMMA FrameOthers ==
  ASSUME CallInv, ListInv, NEW p \in Procs, NEW M, NEW A, NEW C, NEW D, Frame(p, M, A, C, D),
         NEW q \in Procs \ {p}, Walks(q)
  PROVE  /\ Walks(q)' /\ call'[q] = call[q] /\ Minor(q)' = Minor(q) /\ Minor(q) \in Minors
         /\ Reach(q)' = Reach(q)
         /\ Reach(q) \cap C = {} /\ call[q].temp \in Reach(q) /\ Reach(q) \in SUBSET Nodes
<1>1. /\ call'[q] = call[q] /\ Minor(q)' = Minor(q) /\ Walks(q)' /\ Minor(q) \in Minors
  BY OtherCalls DEF Frame, Walks, At, TailLabels, HeadLabels
<1>2. call[q].temp \in Nodes /\ Reach(q) \cap C = {}
  BY DEF ListInv, ApartOK, Frame
<1>3. call[q].temp \in Reach(q) /\ Reach(q) \in SUBSET Nodes
  BY <1>2, ReachOwn
<1>4. \A n \in Reach(q) : SameLink(n, heap, heap')
  BY <1>2, <1>3 DEF Frame, Kept, SameLink
<1>5. Reach(q)' = LinkedFrom(call[q].temp, heap')
  BY <1>1 DEF Reach
<1> QED
  BY <1>1, <1>2, <1>3, <1>4, <1>5, LinkedSame DEF Reach

\* Inside the frame no message file becomes raw or is set up.
LEMMA FrameRaw ==
  ASSUME CallInv, ListInv, NEW p \in Procs, NEW M, NEW A, NEW C, NEW D, Frame(p, M, A, C, D)
  PROVE  /\ \A q \in Procs \ {p} : \A k \in Nodes : InitOf(q, k)' <=> InitOf(q, k)
         /\ \A k \in Nodes \ C : Raw(k)' <=> Raw(k)
<1>1. ASSUME NEW q \in Procs \ {p}, NEW k \in Nodes
      PROVE  InitOf(q, k)' <=> InitOf(q, k)
  <2>1. call'[q] = call[q]
    BY DEF Frame, Alone
  <2>2. ASSUME At(q, {"init"})
        PROVE  heap'[call[q].temp].next = heap[call[q].temp].next
    <3>1. Walks(q)
      BY <2>2 DEF Walks, At, TailLabels
    <3>2. call[q].temp \in Nodes \ C /\ Valid(call[q].temp)
      BY <3>1, FrameOthers DEF ListInv, ApartOK, Whole
    <3> QED
      BY <3>2, ValidType DEF Frame, Kept
  <2> QED
    BY <2>1, <2>2 DEF InitOf, At
<1>2. ASSUME NEW k \in Nodes \ C
      PROVE  Raw(k)' <=> Raw(k)
  <2>1. ~InitOf(p, k) /\ ~InitOf(p, k)'
    BY DEF Frame
  <2>2. Raw(k) <=> \E q \in Procs : InitOf(q, k)
    BY DEF Raw, InitOf
  <2>3. Raw(k)' <=> \E q \in Procs : InitOf(q, k)'
    BY DEF Raw, InitOf
  <2> QED
    BY <1>1, <2>1, <2>2, <2>3
<1> QED
  BY <1>1, <1>2

\* What the step does not change stays whole.
LEMMA FrameWhole ==
  ASSUME CallInv, ListInv, NEW p \in Procs, NEW M, NEW A, NEW C, NEW D, Frame(p, M, A, C, D),
         NEW S \in SUBSET (Nodes \ C), Whole(S)
  PROVE  Whole(S)'
<1>1. ASSUME NEW n \in S
      PROVE  Valid(n)' /\ (Raw(n)' \/ heap'[n].next # Wild)
  <2>1. n \in Nodes /\ heap[n] # None /\ (Raw(n) \/ heap[n].next # Wild)
    BY ValidType DEF Whole
  <2>2. Kept(n) /\ (Raw(n)' <=> Raw(n))
    BY FrameRaw DEF Frame
  <2> QED
    BY <2>1, <2>2 DEF Kept, Valid, Unused
<1> QED
  BY <1>1 DEF Whole

\* What the step does not change stays a list.
LEMMA FrameListOK ==
  ASSUME CallInv, ListInv, NEW p \in Procs, NEW M, NEW A, NEW C, NEW D, Frame(p, M, A, C, D),
         NEW S \in SUBSET (Nodes \ C), ListOK(S)
  PROVE  ListOK(S)'
<1>1. \A n \in S : Kept(n) /\ heap[n] # None
  BY ValidType DEF Frame, ListOK, Whole
<1>2. Whole(S)'
  BY FrameWhole DEF ListOK
<1>3. \A n \in S : Raw(n)' <=> Raw(n)
  BY FrameRaw
<1> QED
  BY <1>1, <1>2, <1>3 DEF ListOK, Kept

\* The lists of the other devices are as they were.
LEMMA FrameLists ==
  ASSUME CallInv, ListInv, NEW p \in Procs, NEW M, NEW A, NEW C, NEW D, Frame(p, M, A, C, D),
         NEW m \in Minors \ D, loaded # "out"
  PROVE  Linked(m)' = Linked(m) /\ ListOK(Linked(m))'
<1>1. PICK S \in SUBSET Nodes : S = Linked(m)
  BY LinkedOwn
<1>2. ListOK(S) /\ S \cap C = {}
  BY <1>1 DEF ListInv, ShapeInv, Frame
<1>3. \A n \in S : Kept(n) /\ heap[n] # None
  BY <1>1, <1>2, ValidType DEF Frame, ListOK, Whole
<1>4. Linked(m)' = S
  <2>1. Linked(m)' = LinkedFrom(devices_info[m], heap')
    BY DEF Linked, Frame
  <2>2. \A n \in LinkedFrom(devices_info[m], heap) : SameLink(n, heap, heap')
    BY <1>1, <1>3 DEF Linked, Kept, SameLink
  <2> QED
    BY <1>1, <2>1, <2>2, LinkedSame DEF Linked
<1>5. ListOK(S)'
  BY <1>2, FrameListOK
<1> QED
  BY <1>1, <1>4, <1>5 DEF ListOK

\* What another ioctl relies on still holds.
LEMMA FrameWalk ==
  ASSUME CallInv, ListInv, NEW p \in Procs, NEW M, NEW A, NEW C, NEW D, Frame(p, M, A, C, D),
         NEW q \in Procs \ {p}, loaded # "out"
  PROVE  WalkOK(q)'
<1>1. call'[q] = call[q] /\ WalkOK(q)
  BY OtherCalls DEF ListInv, Frame
<1>2. CASE At(q, {"new_list"})
  <2>1. Minor(q)' = Minor(q) /\ Minor(q) \in Minors \ D
    BY <1>2, OtherCalls DEF Frame, At, IoctlLabels
  <2> QED
    BY <1>1, <1>2, <2>1 DEF WalkOK, At, HeadLabels, Frame
<1>3. CASE Walks(q)
  <2>1. /\ Minor(q)' = Minor(q) /\ Minor(q) \in Minors \ D /\ Current(q)' = Current(q)
        /\ info'[call[q].file] = info[call[q].file]
    BY <1>3, OtherCalls DEF Frame, At, Walks, TailLabels, HeadLabels, IoctlLabels
  <2>2. PICK m \in Minors \ D : m = Minor(q) /\ m = Minor(q)'
    BY <2>1
  <2>3. PICK list \in SUBSET (Nodes \ C) : list = Linked(Minor(q)) /\ list = Linked(Minor(q))'
    <3>1. Linked(m)' = Linked(m) /\ Linked(m) \in SUBSET (Nodes \ C)
      BY ZenonT(60), FrameLists, LinkedOwn DEF Frame
    <3>2. Linked(Minor(q))' = Linked(m)'
      BY <2>2 DEF Linked
    <3> QED
      BY <2>2, <3>1, <3>2
  <2>4. \A n \in list : Kept(n) /\ heap[n] # None
    <3>1. Whole(Linked(m))
      BY DEF ListInv, ShapeInv, ListOK
    <3> QED
      BY <2>2, <2>3, <3>1, ValidType DEF Whole, Frame
  <2>5. PICK R \in SUBSET (Nodes \ C) : R = Reach(q) /\ R = Reach(q)'
    BY <1>3, FrameOthers
  <2>6. PICK t \in R : t = call[q].temp
    BY <1>3, <2>5, FrameOthers
  <2>7. /\ \A n \in R : Kept(n) /\ heap[n] # None
        /\ \A n \in R : heap[n].next \in Nodes => heap[n].next \in R
    <3>1. Whole(Reach(q)) /\ Closed(Reach(q), heap)
      BY <1>3, <2>6, ReachOwn DEF ListInv, ApartOK
    <3> QED
      BY <2>5, <3>1, ValidType DEF Whole, Frame, Closed
  <2>8. heap'[t].next = heap[t].next /\ heap'[t].message_file_id = heap[t].message_file_id /\ Valid(t)'
    BY <2>6, <2>7 DEF Kept, Valid, Unused
  <2>9. ASSUME Valid(heap[t].next)
        PROVE  /\ Valid(heap[t].next)' /\ heap'[heap[t].next].next = heap[heap[t].next].next
               /\ heap'[heap[t].next].message_file_id = heap[heap[t].next].message_file_id
    BY <2>6, <2>7, <2>9 DEF Kept, Valid, Unused
  <2>10. \A n \in list : heap'[n].message_file_id = heap[n].message_file_id
    BY <2>4 DEF Kept
  <2>11. At(q, {"search"}) => OtherIds(q, list \ R)'
    BY <1>1, <2>3, <2>5, <2>10 DEF WalkOK, OtherIds
  <2>12. At(q, {"append"}) => heap'[t].next \notin Nodes /\ OtherIds(q, list)'
    BY <1>1, <2>3, <2>6, <2>8, <2>10 DEF WalkOK, OtherIds
  <2>13. At(q, {"init"}) => /\ Valid(heap[t].next)' /\ heap'[heap[t].next].next \notin Nodes
                            /\ OtherIds(q, list \ {heap[t].next})'
    BY <1>1, <2>3, <2>6, <2>8, <2>9, <2>10 DEF WalkOK, OtherIds
  <2>14. At(q, {"set_next_id"}) => Holds(heap[t].next, q)'
    BY <1>1, <2>6, <2>8, <2>9 DEF WalkOK, Holds
  <2>15. At(q, {"set_id", "set_file"} \cup HeadLabels) => Holds(t, q)'
    BY <1>1, <2>6, <2>8 DEF WalkOK, Holds
  <2>16. At(q, HeadLabels) => heap'[t].next = NULL /\ devices_info'[m] = NULL
    BY <1>1, <2>2, <2>6, <2>8 DEF WalkOK, Frame, At
  <2>17. /\ At(q, {"set_file", "head_file", "publish"}) =>
              info'[call[q].file].message_file_id = call[q].id
         /\ At(q, {"publish"}) => Current(q)' = t
    BY <1>1, <2>1, <2>6 DEF WalkOK
  <2> QED
    BY <1>1, <1>3, <2>2, <2>3, <2>5, <2>6, <2>8, <2>11, <2>12, <2>13, <2>14, <2>15, <2>16, <2>17
    DEF WalkOK, OtherIds, Holds, At, Walks, TailLabels, HeadLabels
<1>4. CASE ~Walks(q) /\ ~At(q, {"new_list"})
  BY <1>1, <1>4 DEF WalkOK, Walks, At, TailLabels, HeadLabels
<1> QED
  BY <1>2, <1>3, <1>4

\* What is left to show about p itself.
Own(p, M, A, D) ==
  /\ At(p, IoctlLabels)' =>
       Minor(p)' = M /\ \A q \in Procs \ {p} : At(q, IoctlLabels) => Minor(q) # M
  /\ Walks(p)' => call'[p].temp \in Nodes /\ Reach(p)' \subseteq A /\ Whole(Reach(p))'
  /\ \A m \in D : Linked(m)' \subseteq A /\ ListOK(Linked(m))'
  /\ WalkOK(p)'

\* A step inside its frame keeps ListInv if it keeps its own part of it.
LEMMA FrameStep ==
  ASSUME CallInv, ListInv, NEW p \in Procs, NEW M, NEW A, NEW C, NEW D, Frame(p, M, A, C, D),
         Own(p, M, A, D), loaded # "out"
  PROVE  ListInv'
<1>1. AloneInv'
  <2> SUFFICES ASSUME NEW q \in Procs, NEW r \in Procs, q # r,
                      At(q, IoctlLabels)', At(r, IoctlLabels)'
               PROVE  Minor(q)' # Minor(r)'
    BY DEF AloneInv
  <2>1. ASSUME NEW o \in Procs \ {p}, At(o, IoctlLabels)'
        PROVE  At(o, IoctlLabels) /\ Minor(o)' = Minor(o)
    <3>1. call'[o] = call[o]
      BY DEF Frame, Alone
    <3>2. At(o, IoctlLabels) /\ call[o].at # "user"
      BY <2>1, <3>1 DEF At, IoctlLabels
    <3> QED
      BY <3>2, OtherCalls DEF Frame
  <2>2. CASE q # p /\ r # p
    BY <2>1, <2>2 DEF ListInv, AloneInv
  <2>3. CASE q = p
    BY <2>1, <2>3 DEF Own
  <2>4. CASE r = p
    BY <2>1, <2>4 DEF Own
  <2> QED
    BY <2>2, <2>3, <2>4
<1>2. /\ \A m \in Minors \ D : Linked(m)' = Linked(m) /\ ListOK(Linked(m))'
      /\ \A m \in D : m = M /\ Linked(m)' \subseteq A /\ ListOK(Linked(m))'
      /\ \A m \in Minors \ {M} : m \notin D /\ A \cap Linked(m) = {}
  <2>1. \A m \in Minors \ D : Linked(m)' = Linked(m) /\ ListOK(Linked(m))'
    BY FrameLists
  <2> QED
    BY <2>1 DEF Frame, Own
<1>3. ShapeInv'
  <2>1. ASSUME NEW m \in Minors, NEW k \in Minors, m # k
        PROVE  Linked(m)' \cap Linked(k)' = {}
    <3>1. Linked(m) \cap Linked(k) = {}
      BY <2>1 DEF ListInv, ShapeInv
    <3> QED
      BY <1>2, <2>1, <3>1
  <2> QED
    BY <1>2, <2>1 DEF ShapeInv
<1>4. ASSUME NEW q \in Procs \ {p}, Walks(q)'
      PROVE  /\ Walks(q) /\ Reach(q)' = Reach(q) /\ Minor(q)' = Minor(q)
             /\ Reach(q) \in SUBSET (Nodes \ C) /\ A \cap Reach(q) = {}
             /\ call'[q].temp \in Nodes
  <2>1. Walks(q)
    BY <1>4 DEF Walks, At, Frame, Alone
  <2>2. /\ Reach(q)' = Reach(q) /\ Minor(q)' = Minor(q) /\ call'[q] = call[q]
        /\ Reach(q) \in SUBSET Nodes /\ Reach(q) \cap C = {}
    BY <2>1, FrameOthers
  <2>3. call[q].temp \in Nodes
    BY <2>1 DEF ListInv, ApartOK
  <2>4. A \cap Reach(q) = {}
    BY <2>1 DEF Frame
  <2> QED
    BY <2>1, <2>2, <2>3, <2>4
<1>5. ASSUME NEW q \in Procs \ {p}
      PROVE  ApartOK(q)'
  <2> SUFFICES ASSUME Walks(q)'
               PROVE  /\ call'[q].temp \in Nodes /\ Whole(Reach(q))'
                      /\ \A m \in Minors \ {Minor(q)'} : Reach(q)' \cap Linked(m)' = {}
                      /\ \A r \in Procs \ {q} : Walks(r)' => Reach(q)' \cap Reach(r)' = {}
    BY DEF ApartOK
  <2>1. ApartOK(q) /\ Walks(q)
    BY <1>4 DEF ListInv
  <2>2. Whole(Reach(q))'
    <3>1. PICK S \in SUBSET (Nodes \ C) : S = Reach(q) /\ S = Reach(q)'
      BY <1>4
    <3>2. Whole(S)
      BY <2>1, <3>1 DEF ApartOK, Whole
    <3>3. Whole(S)'
      BY <3>2, FrameWhole
    <3> QED
      BY <3>1, <3>3 DEF Whole
  <2>3. ASSUME NEW m \in Minors \ {Minor(q)'} PROVE Reach(q)' \cap Linked(m)' = {}
    BY <1>2, <1>4, <2>1 DEF ApartOK
  <2>4. ASSUME NEW r \in Procs \ {q}, Walks(r)' PROVE Reach(q)' \cap Reach(r)' = {}
    <3>1. CASE r = p
      BY <1>4, <2>4, <3>1 DEF Own
    <3>2. CASE r # p
      BY <1>4, <2>1, <2>4, <3>2 DEF ApartOK
    <3> QED
      BY <3>1, <3>2
  <2> QED
    BY <1>4, <2>2, <2>3, <2>4
<1>6. ApartOK(p)'
  <2> SUFFICES ASSUME Walks(p)'
               PROVE  /\ call'[p].temp \in Nodes /\ Whole(Reach(p))'
                      /\ \A m \in Minors \ {Minor(p)'} : Reach(p)' \cap Linked(m)' = {}
                      /\ \A r \in Procs \ {p} : Walks(r)' => Reach(p)' \cap Reach(r)' = {}
    BY DEF ApartOK
  <2>1. Minor(p)' = M /\ call'[p].temp \in Nodes /\ Reach(p)' \subseteq A /\ Whole(Reach(p))'
    BY DEF Own, Walks, At, TailLabels, HeadLabels, IoctlLabels
  <2>2. \A m \in Minors \ {M} : Linked(m)' = Linked(m) /\ A \cap Linked(m) = {}
    BY <1>2
  <2> QED
    BY <1>4, <2>1, <2>2
<1>7. ASSUME NEW q \in Procs PROVE WalkOK(q)'
  BY FrameWalk DEF Own
<1> QED
  BY <1>1, <1>3, <1>5, <1>6, <1>7 DEF ListInv

-----------------------------------------------------------------------------
(* The steps keep the invariant of the lists.                              *)

\* A step that changes no link has a frame without changes.
LEMMA QuietFrame ==
  ASSUME NEW p \in Procs, TypeInv', Alone(p), CallOK(p)', SameFiles, UNCHANGED devices_info,
         ~At(p, {"init"}), ~At(p, {"init"})', NEW M, NEW A,
         \A q \in Procs \ {p} : Walks(q) => A \cap Reach(q) = {},
         \A m \in Minors \ {M} : A \cap Linked(m) = {}
  PROVE  Frame(p, M, A, {}, {})
  BY DEF Frame, SameFiles, Kept, InitOf

\* p is in no ioctl any more.
LEMMA LeaveStep ==
  ASSUME CallInv, ListInv, loaded # "out",
         NEW p \in Procs, TypeInv', Alone(p), CallOK(p)', SameFiles, UNCHANGED devices_info,
         ~At(p, {"init"}), ~At(p, IoctlLabels)'
  PROVE  ListInv'
<1>1. Frame(p, 0, {}, {}, {})
  <2>1. ~At(p, {"init"})'
    BY DEF At, IoctlLabels
  <2>2. /\ \A q \in Procs \ {p} : Walks(q) => {} \cap Reach(q) = {}
        /\ \A m \in Minors \ {0} : {} \cap Linked(m) = {}
    OBVIOUS
  <2> QED
    BY <2>1, <2>2, QuietFrame
<1>2. ~Walks(p)' /\ WalkOK(p)'
  BY DEF Walks, At, TailLabels, HeadLabels, IoctlLabels, WalkOK
<1>3. Own(p, 0, {}, {})
  BY <1>2 DEF Own
<1> QED
  BY <1>1, <1>3, FrameStep

\* What p reaches now stays whole, if it was within what the step leaves alone.
LEMMA SelfWhole ==
  ASSUME CallInv, ListInv, NEW p \in Procs, NEW M, NEW A \in SUBSET Nodes, NEW C, NEW D,
         Frame(p, M, A, C, D), A \cap C = {}, Whole(A), Reach(p)' \subseteq A
  PROVE  Whole(Reach(p))'
<1>1. Whole(A)'
  BY FrameWhole
<1> QED
  BY <1>1 DEF Whole

\* p goes on, on what it reaches.
LEMMA WalkOn ==
  ASSUME CallInv, ListInv, loaded # "out",
         NEW p \in Procs, TypeInv', Alone(p), CallOK(p)', SameFiles, UNCHANGED devices_info,
         ~At(p, {"init"}), ~At(p, {"init"})',
         Walks(p), Walks(p)', call'[p].temp \in Reach(p), Minor(p)' = Minor(p), WalkOK(p)'
  PROVE  ListInv'
<1>1. /\ call[p].temp \in Nodes /\ Whole(Reach(p))
      /\ \A m \in Minors \ {Minor(p)} : Reach(p) \cap Linked(m) = {}
      /\ \A q \in Procs \ {p} : Walks(q) => Reach(p) \cap Reach(q) = {}
  BY DEF ListInv, ApartOK
<1>2. PICK A \in SUBSET Nodes : A = Reach(p) /\ Closed(A, heap)
  <2>1. Reach(p) \in SUBSET Nodes /\ Closed(Reach(p), heap)
    BY <1>1, ReachOwn
  <2> QED
    BY <2>1 DEF Closed
<1>3. PICK M : M = Minor(p)
  OBVIOUS
<1>4. Frame(p, M, A, {}, {})
  BY <1>1, <1>2, <1>3, QuietFrame
<1>5. Reach(p)' \subseteq A
  <2>1. Closed(A, heap')
    BY <1>2 DEF Closed, SameFiles
  <2>2. LinkedFrom(call'[p].temp, heap') \subseteq A
    BY <1>2, <2>1, LinkedLeast
  <2> QED
    BY <2>2 DEF Reach
<1>6. Whole(A)
  BY <1>1, <1>2 DEF Whole
<1>7. Whole(Reach(p))'
  BY <1>4, <1>5, <1>6, SelfWhole
<1>8. \A q \in Procs \ {p} : At(q, IoctlLabels) => Minor(q) # M
  BY <1>3 DEF ListInv, AloneInv, Walks, At, TailLabels, HeadLabels, IoctlLabels
<1>9. Own(p, M, A, {})
  BY <1>2, <1>3, <1>5, <1>7, <1>8 DEF Own
<1> QED
  BY <1>4, <1>9, FrameStep

\* A step that leaves the memory alone leaves the links alone.
LEMMA SameHeap ==
  ASSUME UNCHANGED heap
  PROVE  SameFiles
  BY DEF SameFiles

\* The loop of ioctl_dev keeps ListInv (message_slot.c:312-324).
LEMMA SearchList ==
  ASSUME CallInv, ListInv, loaded # "out", NEW p \in Procs, Search(p)
  PROVE  ListInv'
<1>1. /\ TypeInv' /\ Alone(p) /\ CallOK(p)' /\ UNCHANGED <<devices_info, heap, info>>
      /\ At(p, {"search"}) /\ Valid(call[p].temp)
      /\ \/ /\ heap[call[p].temp].message_file_id = call[p].id
            /\ Goes_on(p, "set_id") /\ call'[p].temp = call[p].temp
         \/ /\ heap[call[p].temp].message_file_id # call[p].id
            /\ heap[call[p].temp].next = NULL
            /\ Goes_on(p, "append") /\ call'[p].temp = call[p].temp
         \/ /\ heap[call[p].temp].message_file_id # call[p].id
            /\ heap[call[p].temp].next # NULL
            /\ Goes_on(p, "search") /\ call'[p].temp = heap[call[p].temp].next
  BY SearchEffect DEF Still
<1>2. PICK t \in Nodes : t = call[p].temp /\ heap[t] \in MessageFile /\ heap[t] # None
  BY <1>1, ValidType DEF CallInv
<1>3. /\ call[p].temp \in Reach(p) /\ Closed(Reach(p), heap) /\ Whole(Reach(p)) /\ Walks(p)
      /\ WalkOK(p) /\ \A q \in Procs \ {p} : Walks(q) => Reach(p) \cap Reach(q) = {}
  BY <1>1, <1>2, ReachOwn DEF ListInv, ApartOK, Walks, At, TailLabels
<1>4. Reach(p) = {t} \cup LinkedFrom(heap[t].next, heap)
  BY <1>2, LinkedNext DEF Reach
<1>5. ~Raw(t)
  <2> SUFFICES ASSUME NEW q \in Procs, At(q, {"init"}), heap[call[q].temp].next = t
               PROVE  FALSE
    BY DEF Raw
  <2>1. q # p /\ Walks(q) /\ call[q].temp \in Nodes /\ Whole(Reach(q))
    BY <1>1 DEF ListInv, ApartOK, Walks, At, TailLabels
  <2>2. call[q].temp \in Reach(q) /\ Closed(Reach(q), heap)
    BY <2>1, ReachOwn
  <2>3. t \in Reach(q)
    BY <2>1, <2>2, ValidType DEF Whole, Closed
  <2> QED
    BY <1>2, <1>3, <2>1, <2>3
<1>6. heap[t].next \in Nodes \cup {NULL}
  BY <1>2, <1>3, <1>5 DEF Whole, MessageFile
<1>7. Minor(p)' = Minor(p) /\ Linked(Minor(p))' = Linked(Minor(p))
  BY <1>1 DEF Minor, Goes_on, Linked
<1>8. OtherIds(p, Linked(Minor(p)) \ Reach(p))
  BY <1>1, <1>3 DEF WalkOK
<1>9. Walks(p)' /\ ~At(p, {"init"}) /\ ~At(p, {"init"})'
  BY <1>1 DEF Goes_on, Walks, At, TailLabels
<1>10. call'[p].temp \in Reach(p)
  <2>1. heap[t].next \in Nodes => heap[t].next \in Reach(p)
    BY <1>2, <1>3 DEF Closed
  <2> QED
    BY <1>1, <1>2, <1>3, <1>6, <2>1
<1>11. WalkOK(p)'
  <2>1. CASE call'[p].at = "set_id"
    <3>1. Holds(t, p)' /\ call'[p].temp = t
      BY <1>1, <1>2, <2>1 DEF Goes_on, Holds, Valid, Unused
    <3> QED
      BY <2>1, <3>1 DEF WalkOK, At, HeadLabels, Holds
  <2>2. CASE call'[p].at = "append"
    <3>1. heap[t].next = NULL /\ heap[t].message_file_id # call[p].id
      BY <1>1, <1>2, <2>2 DEF Goes_on
    <3>2. Reach(p) = {t}
      BY <1>4, <3>1, LinkedNone, PointersAssumption
    <3>3. OtherIds(p, Linked(Minor(p)))
      BY <1>8, <3>1, <3>2 DEF OtherIds
    <3>4. OtherIds(p, Linked(Minor(p)))' /\ heap'[call'[p].temp].next \notin Nodes
      BY <1>1, <1>2, <1>7, <2>2, <3>1, <3>3, PointersAssumption DEF OtherIds, Goes_on
    <3> QED
      BY <2>2, <3>4 DEF WalkOK, At, HeadLabels
  <2>3. CASE call'[p].at = "search"
    <3>1. call'[p].temp = heap[t].next /\ heap[t].message_file_id # call[p].id
      BY <1>1, <1>2, <2>3 DEF Goes_on
    <3>2. Reach(p)' = LinkedFrom(heap[t].next, heap)
      BY <1>1, <3>1 DEF Reach
    <3>3. OtherIds(p, Linked(Minor(p)) \ Reach(p))'
      BY <1>1, <1>4, <1>7, <1>8, <3>1, <3>2 DEF OtherIds, Goes_on
    <3> QED
      BY <2>3, <3>3 DEF WalkOK, At, HeadLabels
  <2> QED
    BY <1>1, <2>1, <2>2, <2>3 DEF Goes_on
<1> QED
  BY <1>1, <1>3, <1>7, <1>9, <1>10, <1>11, SameHeap, WalkOn

\* The file an ioctl is about.
LEMMA FileOf ==
  ASSUME CallInv, NEW p \in Procs, ~At(p, {"user"})
  PROVE  call[p].file \in FilesOf[p] /\ call[p].file \in Files /\ info[call[p].file] \in OpenFile
  BY FilesAssumption DEF CallInv, CallOK, TypeInv

\* Storing the id keeps ListInv (message_slot.c:269-270, 352).
LEMMA SetIdList ==
  ASSUME CallInv, ListInv, loaded # "out", NEW p \in Procs, SetId(p)
  PROVE  ListInv'
<1>1. /\ TypeInv' /\ Alone(p) /\ CallOK(p)' /\ UNCHANGED <<devices_info, heap>>
      /\ At(p, {"set_id", "set_next_id", "head_id"})
      /\ Goes_on(p, IF At(p, {"head_id"}) THEN "head_file" ELSE "set_file")
      /\ At(p, {"set_next_id"}) => call'[p].temp = heap[call[p].temp].next
      /\ ~At(p, {"set_next_id"}) => call'[p].temp = call[p].temp
  BY SetIdEffect
<1>3. /\ info'[call[p].file].minor = info[call[p].file].minor
      /\ info'[call[p].file].message_file_id = call[p].id
  BY SetIdEffect
<1>4. Minor(p)' = Minor(p)
  BY <1>1, <1>3 DEF Minor, Goes_on
<1>5. WalkOK(p) /\ Walks(p) /\ call[p].temp \in Nodes
  BY <1>1 DEF ListInv, ApartOK, Walks, At, TailLabels, HeadLabels
<1>6. call[p].temp \in Reach(p) /\ Closed(Reach(p), heap) /\ Whole(Reach(p))
  BY <1>5, ReachOwn DEF ListInv, ApartOK
<1>7. Holds(call'[p].temp, p)
  BY <1>1, <1>5 DEF WalkOK, At, HeadLabels
<1>8. call'[p].temp \in Reach(p)
  <2>1. CASE At(p, {"set_next_id"})
    <3>1. heap[call[p].temp].next \in Nodes /\ heap[call[p].temp] # None
      BY <1>1, <1>6, <1>7, <2>1, ValidType DEF Holds, Whole
    <3> QED
      BY <1>1, <1>6, <2>1, <3>1 DEF Closed
  <2>2. CASE ~At(p, {"set_next_id"})
    BY <1>1, <1>6, <2>2
  <2> QED
    BY <2>1, <2>2
<1>9. PICK t \in Nodes : t = call'[p].temp /\ Valid(t)' /\ heap'[t].message_file_id = call'[p].id
  <2>1. /\ Valid(call'[p].temp) /\ heap[call'[p].temp].message_file_id = call[p].id
        /\ call'[p].id = call[p].id
    BY <1>1, <1>7 DEF Holds, Goes_on
  <2>2. PICK t \in Nodes : t = call'[p].temp
    BY <2>1 DEF Valid
  <2>3. Valid(t)'
    BY <1>1, <2>1, <2>2 DEF Valid, Unused
  <2> QED
    BY <1>1, <2>1, <2>2, <2>3
<1>10. WalkOK(p)'
  <2>1. info'[call'[p].file].message_file_id = call'[p].id
    BY <1>1, <1>3 DEF Goes_on
  <2>2. Holds(call[p].temp, p)'
    BY <1>9 DEF Holds
  <2>3. CASE At(p, {"head_id"})
    <3>1. heap'[call'[p].temp].next = NULL /\ devices_info'[Minor(p)'] = NULL
      BY <1>1, <1>4, <1>5, <2>3 DEF WalkOK, At, HeadLabels
    <3>2. call'[p].at = "head_file"
      BY <1>1, <2>3 DEF Goes_on
    <3> QED
      BY <2>1, <2>2, <3>1, <3>2 DEF WalkOK, At, HeadLabels
  <2>4. CASE ~At(p, {"head_id"})
    <3>1. call'[p].at = "set_file"
      BY <1>1, <2>4 DEF Goes_on
    <3> QED
      BY <2>1, <2>2, <3>1 DEF WalkOK, At, HeadLabels
  <2> QED
    BY <2>3, <2>4
<1>11. Walks(p)' /\ ~At(p, {"init"}) /\ ~At(p, {"init"})'
  BY <1>1 DEF Goes_on, Walks, At, TailLabels, HeadLabels
<1> QED
  BY <1>1, <1>4, <1>5, <1>8, <1>10, <1>11, SameHeap, WalkOn

\* Storing the pointer keeps ListInv (message_slot.c:271, 353).
LEMMA SetFileList ==
  ASSUME CallInv, ListInv, loaded # "out", NEW p \in Procs, SetFile(p)
  PROVE  ListInv'
<1>1. /\ TypeInv' /\ Alone(p) /\ CallOK(p)' /\ UNCHANGED <<devices_info, heap>>
      /\ At(p, {"set_file", "head_file"})
      /\ At(p, {"set_file"}) => call'[p] = User
      /\ At(p, {"head_file"}) => Goes_on(p, "publish") /\ call'[p].temp = call[p].temp
  BY SetFileEffect
<1>2. CASE At(p, {"set_file"})
  <2>1. ~At(p, {"init"}) /\ ~At(p, IoctlLabels)'
    BY <1>1, <1>2, UserType DEF At, IoctlLabels
  <2> QED
    BY <1>1, <2>1, SameHeap, LeaveStep
<1>3. CASE At(p, {"head_file"})
  <2>2. /\ info'[call[p].file].minor = info[call[p].file].minor
        /\ info'[call[p].file].message_file_id = info[call[p].file].message_file_id
        /\ info'[call[p].file].current_message_file = call[p].temp
    BY SetFileEffect
  <2>3. Minor(p)' = Minor(p) /\ Current(p)' = call[p].temp
    BY <1>1, <1>3, <2>2 DEF Minor, Current, Goes_on
  <2>4. WalkOK(p) /\ Walks(p) /\ call[p].temp \in Nodes
    BY <1>3 DEF ListInv, ApartOK, Walks, At, TailLabels, HeadLabels
  <2>5. call'[p].temp \in Reach(p)
    BY <1>1, <1>3, <2>4, ReachOwn
  <2>6. /\ Holds(call[p].temp, p) /\ heap[call[p].temp].next = NULL
        /\ devices_info[Minor(p)] = NULL /\ info[call[p].file].message_file_id = call[p].id
    BY <1>3, <2>4 DEF WalkOK, At, HeadLabels
  <2>7. call'[p].at = "publish" /\ call'[p].id = call[p].id /\ call'[p].temp = call[p].temp
        /\ call'[p].file = call[p].file
    BY <1>1, <1>3 DEF Goes_on
  <2>8. /\ Holds(call[p].temp, p)' /\ heap'[call'[p].temp].next = NULL
        /\ devices_info'[Minor(p)'] = NULL
        /\ info'[call'[p].file].message_file_id = call'[p].id /\ Current(p)' = call'[p].temp
    <3>1. PICK t \in Nodes : t = call[p].temp
      BY <2>4
    <3>2. Valid(t)' /\ heap'[t].message_file_id = call'[p].id
      BY <1>1, <2>6, <2>7, <3>1 DEF Holds, Valid, Unused
    <3>3. Holds(call[p].temp, p)'
      BY <2>7, <3>1, <3>2 DEF Holds
    <3> QED
      BY <1>1, <2>2, <2>3, <2>6, <2>7, <3>3
  <2>9. WalkOK(p)'
    BY <2>7, <2>8 DEF WalkOK, At, HeadLabels
  <2>10. Walks(p)' /\ ~At(p, {"init"}) /\ ~At(p, {"init"})'
    BY <1>1, <1>3 DEF Goes_on, Walks, At, TailLabels, HeadLabels
  <2> QED
    BY <1>1, <2>3, <2>4, <2>5, <2>9, <2>10, SameHeap, WalkOn
<1> QED
  BY <1>1, <1>2, <1>3 DEF At

\* Reads, writes, opens and closes keep ListInv.
LEMMA TransfersList ==
  ASSUME CallInv, ListInv, loaded # "out", NEW p \in Procs, Transfers(p), UNCHANGED exclusion
  PROVE  ListInv'
<1>1. TypeInv' /\ Alone(p) /\ CallOK(p)' /\ Elsewhere(p)
  BY TransfersEffect
<1>2. ~At(p, {"init"}) /\ ~At(p, IoctlLabels)' /\ SameFiles /\ UNCHANGED devices_info
  BY <1>1 DEF Elsewhere, At, IoctlLabels
<1> QED
  BY <1>1, <1>2, LeaveStep

\* An ioctl that is in the list follows no bad pointer.
LEMMA FollowedValid ==
  ASSUME CallInv, ListInv, NEW p \in Procs, At(p, IoctlLabels)
  PROVE  \A pointer \in Followed(p) : Valid(pointer)
<1>1. CASE At(p, {"search", "append", "init", "set_next_id"})
  <2>1. Walks(p) /\ WalkOK(p)
    BY <1>1 DEF ListInv, Walks, At, TailLabels
  <2>2. call[p].temp \in Nodes /\ Whole(Reach(p))
    BY <2>1 DEF ListInv, ApartOK
  <2>3. Valid(call[p].temp)
    BY <2>2, ReachOwn DEF Whole
  <2>4. At(p, {"init"}) => Valid(heap[call[p].temp].next)
    BY <2>1 DEF WalkOK
  <2> QED
    BY <1>1, <2>3, <2>4 DEF Followed, At
<1>2. CASE ~At(p, {"search", "append", "init", "set_next_id"})
  BY <1>2 DEF Followed, At, IoctlLabels
<1> QED
  BY <1>1, <1>2

\* A kill keeps ListInv: it happens to an ioctl only before it has linked anything.
LEMMA OopsList ==
  ASSUME CallInv, ListInv, loaded # "out", NEW p \in Procs, Oops(p)
  PROVE  ListInv'
<1>1. /\ TypeInv' /\ Alone(p) /\ CallOK(p)' /\ UNCHANGED <<devices_info, heap>>
      /\ At(p, {"append"}) \/ \E pointer \in Followed(p) : ~Valid(pointer)
      /\ call'[p] = User
  BY OopsEffect
<1>2. ~At(p, {"init"})
  BY <1>1, FollowedValid DEF At, IoctlLabels
<1>3. ~At(p, IoctlLabels)'
  BY <1>1, UserType DEF At, IoctlLabels
<1> QED
  BY <1>1, <1>2, <1>3, SameHeap, LeaveStep

\* An ioctl that begins keeps ListInv: it is the only one on its device (message_slot.c:295-314).
LEMMA ControlsList ==
  ASSUME CallInv, ListInv, loaded # "out", "device" \in exclusion, NEW p \in Procs, Controls(p)
  PROVE  ListInv'
<1>1. /\ TypeInv' /\ Alone(p) /\ CallOK(p)' /\ UNCHANGED <<devices_info, heap, info>>
      /\ call[p].at = "user" /\ ~At(p, {"init"})
  BY ControlsEffect DEF Still, At
<1>2. CASE call'[p] = User
  <2>1. ~At(p, IoctlLabels)'
    BY <1>2, UserType DEF At, IoctlLabels
  <2> QED
    BY <1>1, <2>1, SameHeap, LeaveStep
<1>3. ASSUME NEW f \in FilesOf[p], NEW head \in Nodes \cup {NULL},
             info[f] # None, Admitted(f, TRUE), head = devices_info[info[f].minor],
             call'[p].at = (IF head = NULL THEN "new_list" ELSE "search"),
             call'[p].file = f, call'[p].temp = head
      PROVE  ListInv'
  <2>1. PICK M \in Minors : M = info[f].minor
    BY <1>3, FilesAssumption DEF CallInv, TypeInv, OpenFile
  <2>2. Minor(p)' = M /\ devices_info[M] = head
    BY <1>1, <1>3, <2>1 DEF Minor
  <2>3. \A q \in Procs \ {p} : At(q, IoctlLabels) => Minor(q) # M
    BY <1>3, <2>1 DEF Admitted, At, IoctlLabels
  <2>4. Linked(M) \in SUBSET Nodes /\ (head \in Nodes => head \in Linked(M)) /\ Whole(Linked(M))
    BY <2>2, LinkedOwn DEF ListInv, ShapeInv, ListOK
  <2>5. PICK A \in SUBSET Nodes : A = Linked(M)
    BY <2>4
  <2>6. \A q \in Procs \ {p} : Walks(q) => A \cap Reach(q) = {}
    <3> SUFFICES ASSUME NEW q \in Procs \ {p}, Walks(q) PROVE A \cap Reach(q) = {}
      OBVIOUS
    <3>1. At(q, IoctlLabels)
      BY DEF Walks, At, TailLabels, HeadLabels, IoctlLabels
    <3> QED
      BY <2>3, <2>5, <3>1 DEF ListInv, ApartOK
  <2>7. \A m \in Minors \ {M} : A \cap Linked(m) = {}
    BY <2>5 DEF ListInv, ShapeInv
  <2>8. ~At(p, {"init"})'
    BY <1>3 DEF At
  <2>9. Frame(p, M, A, {}, {})
    BY <1>1, <2>6, <2>7, <2>8, SameHeap, QuietFrame
  <2>10. CASE head = NULL
    <3>1. ~Walks(p)'
      BY <1>3, <2>10 DEF Walks, At, TailLabels, HeadLabels
    <3>2. WalkOK(p)'
      BY <1>1, <1>3, <2>2, <2>10 DEF WalkOK, At, HeadLabels
    <3>3. Own(p, M, A, {})
      BY <2>2, <2>3, <3>1, <3>2 DEF Own
    <3> QED
      BY <2>9, <3>3, FrameStep
  <2>11. CASE head # NULL
    <3>1. Reach(p)' = A
      BY <1>1, <1>3, <2>2, <2>5 DEF Reach, Linked
    <3>2. Whole(A)
      BY <2>4, <2>5 DEF Whole
    <3>3. Whole(Reach(p))'
      BY <2>9, <3>1, <3>2, SelfWhole
    <3>4. Linked(Minor(p))' = A
      BY <1>1, <2>2, <2>5 DEF Linked
    <3>5. WalkOK(p)'
      BY <1>3, <2>11, <3>1, <3>4 DEF WalkOK, At, HeadLabels, OtherIds
    <3>6. Own(p, M, A, {})
      BY <1>3, <2>2, <2>3, <2>11, <3>1, <3>3, <3>5 DEF Own
    <3> QED
      BY <2>9, <3>6, FrameStep
  <2> QED
    BY <2>10, <2>11
<1> QED
  BY <1>2, <1>3, ControlsEffect

\* Memory that is allocated now is in no list.
LEMMA FreshApart ==
  ASSUME CallInv, ListInv, loaded # "out", NEW n, heap[n] = None
  PROVE  /\ \A m \in Minors : n \notin Linked(m)
         /\ \A q \in Procs : Walks(q) => n \notin Reach(q)
  BY ValidType DEF ListInv, ShapeInv, ListOK, ApartOK, Whole

\* kmalloc for the first message file keeps ListInv (message_slot.c:342-351).
LEMMA NewListList ==
  ASSUME CallInv, ListInv, loaded # "out", NEW p \in Procs, NewList(p)
  PROVE  ListInv'
<1>1. /\ TypeInv' /\ Alone(p) /\ CallOK(p)' /\ UNCHANGED <<devices_info, info>>
      /\ At(p, {"new_list"})
  BY NewListEffect
<1>2. CASE UNCHANGED heap /\ call'[p] = User
  <2>1. ~At(p, {"init"}) /\ ~At(p, IoctlLabels)'
    BY <1>1, <1>2, UserType DEF At, IoctlLabels
  <2> QED
    BY <1>1, <1>2, <2>1, SameHeap, LeaveStep
<1>3. CASE /\ Goes_on(p, "head_id")
           /\ NewMemory(call'[p].temp) /\ heap'[call'[p].temp].next = NULL
           /\ heap'[call'[p].temp].message_file_id = call[p].id
           /\ \A k \in Nodes \ {call'[p].temp} : heap'[k] = heap[k]
  <2>1. PICK n \in Nodes : n = call'[p].temp
    BY <1>3 DEF NewMemory
  <2>2. /\ heap[n] = None /\ heap'[n] \in MessageFile /\ heap'[n].next = NULL /\ heap'[n] # None
        /\ heap'[n].message_file_id = call'[p].id /\ \A k \in Nodes \ {n} : heap'[k] = heap[k]
    BY <1>3, <2>1, NoneAssumption DEF NewMemory, Goes_on
  <2>3. PICK M : M = Minor(p) /\ M = Minor(p)'
    BY <1>1, <1>3 DEF Minor, Goes_on
  <2>4. \A q \in Procs \ {p} : At(q, IoctlLabels) => Minor(q) # M
    BY <1>1, <2>3 DEF ListInv, AloneInv, At, IoctlLabels
  <2>5. Frame(p, M, {n}, {n}, {})
    <3>1. \A k \in Nodes \ {n} : Kept(k) /\ ~InitOf(p, k) /\ ~InitOf(p, k)'
      BY <1>1, <1>3, <2>2 DEF Kept, InitOf, At, Goes_on
    <3> QED
      BY <1>1, <2>2, <3>1, FreshApart DEF Frame
  <2>6. Reach(p)' = {n}
    <3>1. LinkedFrom(n, heap') = {n} \cup LinkedFrom(heap'[n].next, heap')
      BY <2>2, LinkedNext
    <3> QED
      BY <2>1, <2>2, <3>1, LinkedNone, PointersAssumption DEF Reach
  <2>7. Whole(Reach(p))'
    BY <2>2, <2>6, PointersAssumption DEF Whole, Valid, Unused
  <2>8. devices_info'[Minor(p)'] = NULL
    BY <1>1, <2>3 DEF ListInv, WalkOK, At, HeadLabels
  <2>9. Holds(call[p].temp, p)'
    BY <2>1, <2>2 DEF Holds, Valid, Unused
  <2>10. WalkOK(p)'
    BY <1>3, <2>1, <2>2, <2>8, <2>9 DEF WalkOK, At, HeadLabels, Goes_on
  <2>11. Own(p, M, {n}, {})
    BY <2>1, <2>3, <2>4, <2>6, <2>7, <2>10 DEF Own
  <2> QED
    BY <2>5, <2>11, FrameStep
<1> QED
  BY <1>2, <1>3, NewListEffect

\* Setting the head keeps ListInv: the list was empty (message_slot.c:354).
LEMMA PublishList ==
  ASSUME CallInv, ListInv, loaded # "out", NEW p \in Procs, Publish(p)
  PROVE  ListInv'
<1>1. /\ TypeInv' /\ Alone(p) /\ CallOK(p)' /\ UNCHANGED heap
      /\ At(p, {"publish"}) /\ call'[p] = User
      /\ devices_info' = [devices_info EXCEPT ![Minor(p)] = call[p].temp]
      /\ call[p].temp \in Nodes /\ Minor(p) \in Minors
  BY PublishEffect
<1>2. PICK M \in Minors : M = Minor(p)
  BY <1>1
<1>3. PICK t \in Nodes : t = call[p].temp
  BY <1>1
<1>4. /\ devices_info'[M] = t /\ \A m \in Minors \ {M} : devices_info'[m] = devices_info[m]
  BY <1>1, <1>2, <1>3 DEF CallInv, TypeInv
<1>5. Walks(p) /\ WalkOK(p) /\ ApartOK(p) /\ t \in Reach(p)
  BY <1>1, <1>3, ReachOwn DEF Walks, At, HeadLabels, ListInv
<1>6. heap[t] # None /\ heap[t].next = NULL
  BY <1>1, <1>3, <1>5, ValidType DEF WalkOK, At, HeadLabels, Holds
<1>7. \A q \in Procs \ {p} : At(q, IoctlLabels) => Minor(q) # M
  BY <1>1, <1>2 DEF ListInv, AloneInv, At, IoctlLabels
<1>8. ~At(p, IoctlLabels)' /\ ~Walks(p)' /\ ~At(p, {"init"}) /\ ~At(p, {"init"})' /\ WalkOK(p)'
  BY <1>1, UserType DEF At, IoctlLabels, Walks, TailLabels, HeadLabels, WalkOK
<1>9. Frame(p, M, {t}, {}, {M})
  <2>1. \A k \in Nodes : Kept(k) /\ ~InitOf(p, k) /\ ~InitOf(p, k)'
    BY <1>1, <1>8 DEF Kept, InitOf
  <2>2. \A q \in Procs \ {p} : Walks(q) => {t} \cap Reach(q) = {}
    BY <1>5 DEF ApartOK
  <2>3. \A m \in Minors \ {M} : {t} \cap Linked(m) = {}
    BY <1>2, <1>5 DEF ApartOK
  <2> QED
    BY <1>1, <1>4, <1>7, <2>1, <2>2, <2>3 DEF Frame
<1>10. Linked(M)' = {t}
  <2>1. LinkedFrom(t, heap) = {t} \cup LinkedFrom(heap[t].next, heap)
    BY <1>6, LinkedNext
  <2> QED
    BY <1>1, <1>4, <1>6, <2>1, LinkedNone, PointersAssumption DEF Linked
<1>11. ListOK(Linked(M))'
  <2>1. Whole(Linked(M))'
    BY <1>1, <1>6, <1>10, PointersAssumption DEF Whole, Valid, Unused
  <2> QED
    BY <1>1, <1>6, <1>10, <2>1, PointersAssumption DEF ListOK
<1>12. Own(p, M, {t}, {M})
  BY <1>8, <1>10, <1>11 DEF Own
<1> QED
  BY <1>9, <1>12, FrameStep

\* The ioctls of the others are far from the list of p and from what it reaches.
LEMMA OwnApart ==
  ASSUME CallInv, ListInv, loaded # "out", NEW p \in Procs, Walks(p)
  PROVE  /\ Minor(p) \in Minors
         /\ \A q \in Procs \ {p} : At(q, IoctlLabels) => Minor(q) # Minor(p)
         /\ \A q \in Procs \ {p} : Walks(q) =>
              (Reach(p) \cup Linked(Minor(p))) \cap Reach(q) = {}
         /\ \A m \in Minors \ {Minor(p)} :
              (Reach(p) \cup Linked(Minor(p))) \cap Linked(m) = {}
<1>1. At(p, IoctlLabels) /\ ~At(p, {"user"})
  BY DEF Walks, At, TailLabels, HeadLabels, IoctlLabels
<1>2. Minor(p) \in Minors
  BY <1>1, FileOf DEF Minor, OpenFile
<1>3. \A q \in Procs \ {p} : At(q, IoctlLabels) => Minor(q) # Minor(p)
  BY <1>1 DEF ListInv, AloneInv
<1>4. ASSUME NEW q \in Procs \ {p}, Walks(q)
      PROVE  (Reach(p) \cup Linked(Minor(p))) \cap Reach(q) = {}
  <2>1. At(q, IoctlLabels)
    BY <1>4 DEF Walks, At, TailLabels, HeadLabels, IoctlLabels
  <2>2. Reach(p) \cap Reach(q) = {}
    BY <1>4 DEF ListInv, ApartOK
  <2>3. Linked(Minor(p)) \cap Reach(q) = {}
    BY <1>2, <1>3, <1>4, <2>1 DEF ListInv, ApartOK
  <2> QED
    BY <2>2, <2>3
<1>5. ASSUME NEW m \in Minors \ {Minor(p)}
      PROVE  (Reach(p) \cup Linked(Minor(p))) \cap Linked(m) = {}
  <2>1. Reach(p) \cap Linked(m) = {}
    BY <1>5 DEF ListInv, ApartOK
  <2>2. Linked(Minor(p)) \cap Linked(m) = {}
    BY <1>2, <1>5 DEF ListInv, ShapeInv
  <2> QED
    BY <2>1, <2>2
<1> QED
  BY <1>2, <1>3, <1>4, <1>5

\* Setting up the last message file keeps ListInv: no other has its id (message_slot.c:335).
LEMMA InitNextList ==
  ASSUME CallInv, ListInv, loaded # "out", NEW p \in Procs, InitNext(p)
  PROVE  ListInv'
<1>1. /\ TypeInv' /\ Alone(p) /\ CallOK(p)' /\ UNCHANGED <<devices_info, info>>
      /\ At(p, {"init"}) /\ Valid(call[p].temp)
      /\ Goes_on(p, "set_next_id") /\ call'[p].temp = call[p].temp
  BY InitNextEffect
<1>2. PICK r \in Nodes :
        /\ r = heap[call[p].temp].next /\ heap[r] # None
        /\ heap'[r] \in MessageFile
        /\ heap'[r].next = NULL /\ heap'[r].message_file_id = call[p].id
        /\ \A k \in Nodes \ {r} : heap'[k] = heap[k]
  BY InitNextEffect
<1>3. PICK t \in Nodes : t = call[p].temp /\ heap[t] # None
  BY <1>1, ValidType
<1>4. Walks(p) /\ WalkOK(p) /\ Whole(Reach(p)) /\ t \in Reach(p) /\ Closed(Reach(p), heap)
      /\ Reach(p) \in SUBSET Nodes
  BY <1>1, <1>3, ReachOwn DEF Walks, At, TailLabels, ListInv, ApartOK
<1>5. /\ heap[r].next \notin Nodes /\ OtherIds(p, Linked(Minor(p)) \ {r}) /\ r \in Reach(p)
  BY <1>1, <1>2, <1>3, <1>4 DEF WalkOK, Closed
<1>6. PICK M \in Minors : M = Minor(p) /\ M = Minor(p)'
  BY <1>1, <1>4, OwnApart DEF Minor, Goes_on
<1>7. PICK L \in SUBSET Nodes : L = Linked(M) /\ ListOK(L)
  BY LinkedOwn DEF ListInv, ShapeInv, ListOK
<1>8. PICK R \in SUBSET Nodes : R = Reach(p) /\ Whole(R)
  <2>1. PICK R \in SUBSET Nodes : R = Reach(p)
    BY <1>4
  <2> QED
    BY <1>4, <2>1 DEF Whole
<1> DEFINE A == R \cup L
<1>9. /\ \A q \in Procs \ {p} : At(q, IoctlLabels) => Minor(q) # M
      /\ \A q \in Procs \ {p} : Walks(q) => A \cap Reach(q) = {}
      /\ \A m \in Minors \ {M} : A \cap Linked(m) = {}
  <2>1. A = Reach(p) \cup Linked(Minor(p))
    BY <1>6, <1>7, <1>8
  <2> HIDE DEF A
  <2> QED
    BY <1>4, <1>6, <2>1, OwnApart
<1>10. \A k \in Nodes \ {r} : Kept(k)
  BY <1>2 DEF Kept
<1>11. Frame(p, M, A, {r}, {M})
  <2>1. \A k \in Nodes \ {r} : Kept(k) /\ ~InitOf(p, k) /\ ~InitOf(p, k)'
    BY <1>1, <1>2, <1>10 DEF InitOf, At, Goes_on
  <2>2. \A m \in Minors \ {M} : devices_info'[m] = devices_info[m] /\ {r} \cap Linked(m) = {}
    BY <1>1, <1>5, <1>8, <1>9
  <2> QED
    BY <1>1, <1>5, <1>8, <1>9, <2>1, <2>2 DEF Frame
<1>12. \A n \in Nodes : SameLink(n, heap, heap')
  BY <1>2, <1>5, NoneAssumption, PointersAssumption DEF SameLink
<1>13. Linked(M)' = L /\ Reach(p)' = R
  BY <1>1, <1>7, <1>8, <1>12, LinkedSame DEF Linked, Reach
<1>14. \A k \in Nodes \ {r} : Raw(k)' <=> Raw(k)
  BY <1>11, FrameRaw
<1>15. ASSUME NEW S \in SUBSET Nodes, Whole(S)
       PROVE  Whole(S)'
  <2> SUFFICES ASSUME NEW n \in S PROVE Valid(n)' /\ (Raw(n)' \/ heap'[n].next # Wild)
    BY DEF Whole
  <2>1. CASE n = r
    BY <1>2, <2>1, NoneAssumption, PointersAssumption DEF Valid, Unused
  <2>2. CASE n # r
    <3>1. Valid(n) /\ (Raw(n) \/ heap[n].next # Wild)
      BY <1>15 DEF Whole
    <3> QED
      BY <1>2, <1>14, <2>2, <3>1 DEF Valid, Unused
  <2> QED
    BY <2>1, <2>2
<1>16. ListOK(L)'
  <2>1. Whole(L)'
    BY <1>7, <1>15 DEF ListOK
  <2>2. /\ L # {} => \E n \in L : heap'[n].next \notin Nodes
        /\ \A n, k \in L : heap'[n].next \notin Nodes /\ heap'[k].next \notin Nodes => n = k
    BY <1>2, <1>5, <1>7, PointersAssumption DEF ListOK
  <2>3. ASSUME NEW n \in L, NEW k \in L, heap'[n].next = heap'[k].next PROVE n = k
    BY <1>2, <1>7, <2>2, <2>3, PointersAssumption DEF ListOK
  <2>4. ASSUME NEW n \in L, NEW k \in L, n # k, ~Raw(n)', ~Raw(k)'
        PROVE  heap'[n].message_file_id # heap'[k].message_file_id
    <3>1. \A x \in L \ {r} : heap[x].message_file_id # call[p].id
      BY <1>5, <1>6, <1>7 DEF OtherIds
    <3>2. CASE n = r \/ k = r
      BY <1>2, <2>4, <3>1, <3>2
    <3>3. CASE n # r /\ k # r
      BY <1>2, <1>7, <1>14, <2>4, <3>3 DEF ListOK
    <3> QED
      BY <3>2, <3>3
  <2> QED
    BY <2>1, <2>2, <2>3, <2>4 DEF ListOK
<1>17. WalkOK(p)'
  <2>1. t # r
    BY <1>2, <1>3, <1>5
  <2>2. heap'[call'[p].temp].next = r /\ call'[p].id = call[p].id /\ call'[p].at = "set_next_id"
    BY <1>1, <1>2, <1>3, <2>1 DEF Goes_on
  <2>3. Valid(r)' /\ heap'[r].message_file_id = call'[p].id
    BY <1>2, <2>2, NoneAssumption DEF Valid, Unused
  <2>4. Holds(heap[call[p].temp].next, p)'
    BY <2>2, <2>3 DEF Holds
  <2> QED
    BY <2>2, <2>4 DEF WalkOK, At, HeadLabels
<1>18. Own(p, M, A, {M})
  <2>1. Whole(Reach(p))'
    BY <1>8, <1>13, <1>15 DEF Whole
  <2>2. ListOK(Linked(M))'
    BY <1>13, <1>16 DEF ListOK
  <2> QED
    BY <1>1, <1>3, <1>6, <1>9, <1>13, <1>17, <2>1, <2>2 DEF Own
<1> QED
  BY <1>11, <1>18, FrameStep

\* Linking new memory keeps ListInv: nobody else can reach it (message_slot.c:325).
LEMMA AddNextList ==
  ASSUME CallInv, ListInv, loaded # "out", NEW p \in Procs, AddNext(p)
  PROVE  ListInv'
<1>1. /\ TypeInv' /\ Alone(p) /\ CallOK(p)' /\ UNCHANGED <<devices_info, info>>
      /\ At(p, {"append"}) /\ Valid(call[p].temp)
      /\ Goes_on(p, "init") /\ call'[p].temp = call[p].temp
  BY AddNextEffect
<1>2. PICK t \in Nodes : t = call[p].temp /\ heap[t] \in MessageFile /\ heap[t] # None
  BY <1>1, ValidType DEF CallInv
<1>3. PICK n \in Nodes : NewMemory(n) /\ heap'[t] = [heap[t] EXCEPT !.next = n]
                         /\ \A k \in Nodes \ {n, t} : heap'[k] = heap[k]
  BY <1>2, AddNextEffect
<1>4. /\ heap[n] = None /\ heap'[n] # None /\ heap'[n].next \notin Nodes /\ n # t
  BY <1>2, <1>3, NoneAssumption DEF NewMemory
<1>5. /\ heap'[t].next = n /\ heap'[t].message_file_id = heap[t].message_file_id /\ heap'[t] # None
  <2>1. PICK node \in MessageFile : node = heap[t]
    BY <1>2
  <2> DEFINE new == [node EXCEPT !.next = n]
  <2>2. new \in MessageFile /\ new.next = n /\ new.message_file_id = node.message_file_id
    BY DEF MessageFile
  <2>3. heap'[t] = new
    BY <1>3, <2>1
  <2> HIDE DEF new
  <2> QED
    BY <2>1, <2>2, <2>3, NoneAssumption
<1>6. \A k \in Nodes \ {n, t} : heap'[k] = heap[k]
  BY <1>3
<1>7. Walks(p) /\ WalkOK(p) /\ Whole(Reach(p)) /\ t \in Reach(p) /\ Reach(p) \in SUBSET Nodes
  BY <1>1, <1>2, ReachOwn DEF Walks, At, TailLabels, ListInv, ApartOK
<1>8. heap[t].next \notin Nodes /\ OtherIds(p, Linked(Minor(p)))
  BY <1>1, <1>2, <1>7 DEF WalkOK
<1>9. PICK M \in Minors : M = Minor(p) /\ M = Minor(p)'
  BY <1>1, <1>7, OwnApart DEF Minor, Goes_on
<1>10. PICK L \in SUBSET Nodes : L = Linked(M) /\ ListOK(L) /\ Closed(L, heap)
  <2>1. PICK L \in SUBSET Nodes : L = Linked(M)
    BY LinkedOwn
  <2>2. ListOK(Linked(M)) /\ Closed(Linked(M), heap)
    BY LinkedOwn DEF ListInv, ShapeInv
  <2> QED
    BY <2>1, <2>2 DEF ListOK, Closed
<1>11. PICK R \in SUBSET Nodes : R = Reach(p) /\ Whole(R)
  <2>1. PICK R \in SUBSET Nodes : R = Reach(p)
    BY <1>7
  <2> QED
    BY <1>7, <2>1 DEF Whole
<1>12. n \notin L /\ n \notin R
  BY <1>4, <1>7, <1>10, <1>11, FreshApart
<1> DEFINE A == R \cup L \cup {n}
<1>13. /\ \A q \in Procs \ {p} : At(q, IoctlLabels) => Minor(q) # M
       /\ \A q \in Procs \ {p} : Walks(q) => A \cap Reach(q) = {}
       /\ \A m \in Minors \ {M} : A \cap Linked(m) = {}
  <2>1. R \cup L = Reach(p) \cup Linked(Minor(p))
    BY <1>9, <1>10, <1>11
  <2>2. /\ \A m \in Minors : n \notin Linked(m)
        /\ \A q \in Procs : Walks(q) => n \notin Reach(q)
    BY <1>4, FreshApart
  <2>3. /\ \A q \in Procs \ {p} : At(q, IoctlLabels) => Minor(q) # M
        /\ \A q \in Procs \ {p} : Walks(q) => (R \cup L) \cap Reach(q) = {}
        /\ \A m \in Minors \ {M} : (R \cup L) \cap Linked(m) = {}
    BY <1>7, <1>9, <2>1, OwnApart
  <2> QED
    BY <2>2, <2>3
<1>14. Frame(p, M, A, {n, t}, {M})
  <2>1. \A k \in Nodes \ {n, t} : Kept(k) /\ ~InitOf(p, k) /\ ~InitOf(p, k)'
    BY <1>1, <1>2, <1>5, <1>6 DEF Kept, InitOf, At
  <2>2. {n, t} \subseteq A
    BY <1>7, <1>11
  <2>3. \A m \in Minors \ {M} : devices_info'[m] = devices_info[m] /\ {n, t} \cap Linked(m) = {}
    BY <1>1, <1>13, <2>2
  <2> QED
    BY <1>1, <1>13, <2>1, <2>2, <2>3 DEF Frame
<1>15. \A k \in Nodes \ {n, t} : Raw(k)' <=> Raw(k)
  BY <1>14, FrameRaw
<1>16. Raw(n)'
  BY <1>1, <1>2, <1>5 DEF Raw, At, Goes_on
<1>17. ASSUME NEW S \in SUBSET Nodes, Whole(S)
       PROVE  Whole(S \cup {n})'
  <2> SUFFICES ASSUME NEW k \in S \cup {n} PROVE Valid(k)' /\ (Raw(k)' \/ heap'[k].next # Wild)
    BY DEF Whole
  <2>1. CASE k = n
    BY <1>4, <1>16, <2>1 DEF Valid, Unused
  <2>2. CASE k = t
    BY <1>5, <2>2, PointersAssumption DEF Valid, Unused
  <2>3. CASE k # n /\ k # t
    <3>1. Valid(k) /\ (Raw(k) \/ heap[k].next # Wild)
      BY <1>17, <2>3 DEF Whole
    <3> QED
      BY <1>6, <1>15, <2>3, <3>1 DEF Valid, Unused
  <2> QED
    BY <2>1, <2>2, <2>3
<1>18. \A k \in Nodes \ {t, n} : SameLink(k, heap, heap')
  BY <1>6 DEF SameLink
<1>19. Linked(M)' = L \cup (IF t \in L THEN {n} ELSE {})
  <2>1. PICK head : head = devices_info[M] /\ head = devices_info'[M]
    BY <1>1
  <2>2. L = LinkedFrom(head, heap) /\ Linked(M)' = LinkedFrom(head, heap')
    BY <1>10, <2>1 DEF Linked
  <2>3. \A k \in LinkedFrom(head, heap) : heap[k] # None
    BY <1>10, <2>2, ValidType DEF ListOK, Whole
  <2> QED
    BY <1>2, <1>4, <1>5, <1>8, <1>18, <2>2, <2>3, LinkedGrows
<1>20. Reach(p)' = R \cup {n}
  <2>1. PICK head : head = t
    OBVIOUS
  <2>2. R = LinkedFrom(head, heap) /\ Reach(p)' = LinkedFrom(head, heap')
    BY <1>1, <1>2, <1>11, <2>1 DEF Reach
  <2>3. \A k \in LinkedFrom(head, heap) : heap[k] # None
    BY <1>11, <2>2, ValidType DEF Whole
  <2>4. t \in R
    BY <1>7, <1>11
  <2>5. Reach(p)' = R \cup (IF t \in R THEN {n} ELSE {})
    BY <1>2, <1>4, <1>5, <1>8, <1>18, <2>2, <2>3, LinkedGrows
  <2> QED
    BY <2>4, <2>5
<1>21. ListOK(Linked(M))'
  <2>1. CASE t \notin L
    <3>1. ListOK(L)'
      BY <1>10, <1>12, <1>14, <2>1, FrameListOK
    <3> QED
      BY <1>19, <2>1, <3>1 DEF ListOK
  <2>2. CASE t \in L
    <3>1. Whole(L \cup {n})'
      BY <1>10, <1>17 DEF ListOK
    <3>2. \A k \in L \ {t} : heap'[k] = heap[k] /\ heap[k].next \in Nodes
      BY <1>6, <1>8, <1>10, <1>12, <2>2 DEF ListOK
    <3>3. \A k \in L \ {t} : heap[k].next # n
      BY <1>10, <1>12, <3>2, ValidType DEF ListOK, Whole, Closed
    <3>4. ASSUME NEW x \in L \cup {n}, NEW y \in L \cup {n}
          PROVE  /\ heap'[x].next \notin Nodes /\ heap'[y].next \notin Nodes => x = y
                 /\ heap'[x].next = heap'[y].next => x = y
      BY <1>4, <1>5, <1>10, <3>2, <3>3 DEF ListOK
    <3>5. ASSUME NEW x \in L \cup {n}, NEW y \in L \cup {n}, x # y, ~Raw(x)', ~Raw(y)'
          PROVE  heap'[x].message_file_id # heap'[y].message_file_id
      <4>1. x \in L /\ y \in L
        BY <1>16, <3>5
      <4>2. ~Raw(t)' => ~Raw(t)
        <5> SUFFICES ASSUME NEW q \in Procs, At(q, {"init"}), heap[call[q].temp].next = t
                     PROVE  Raw(t)'
          BY DEF Raw
        <5>1. q # p
          BY <1>1 DEF At
        <5>2. InitOf(q, t)'
          BY <1>14, <5>1, FrameRaw DEF InitOf
        <5> QED
          BY <5>2 DEF Raw, InitOf
      <4>3. ~Raw(x) /\ ~Raw(y)
        BY <1>12, <1>15, <3>5, <4>1, <4>2
      <4> QED
        BY <1>5, <1>10, <3>2, <3>5, <4>1, <4>3 DEF ListOK
    <3>6. \E x \in L \cup {n} : heap'[x].next \notin Nodes
      BY <1>4
    <3> QED
      BY <1>19, <2>2, <3>1, <3>4, <3>5, <3>6 DEF ListOK
  <2> QED
    BY <2>1, <2>2
<1>22. WalkOK(p)'
  <2>1. call'[p].at = "init" /\ heap'[call'[p].temp].next = n /\ call'[p].id = call[p].id
    BY <1>1, <1>2, <1>5 DEF Goes_on
  <2>2. Valid(n)'
    BY <1>4 DEF Valid, Unused
  <2>3. OtherIds(p, Linked(Minor(p)) \ {heap[call[p].temp].next})'
    <3>1. \A k \in L : heap[k].message_file_id # call[p].id
      BY <1>8, <1>9, <1>10 DEF OtherIds
    <3>2. \A k \in L : heap'[k].message_file_id = heap[k].message_file_id
      BY <1>5, <1>6, <1>12
    <3>3. Linked(Minor(p))' = Linked(M)'
      BY <1>9 DEF Linked
    <3> QED
      BY <1>19, <2>1, <3>1, <3>2, <3>3 DEF OtherIds
  <2> QED
    BY <1>4, <2>1, <2>2, <2>3 DEF WalkOK, At, HeadLabels
<1>23. Own(p, M, A, {M})
  <2>1. Whole(Reach(p))'
    BY <1>11, <1>17, <1>20 DEF Whole
  <2>2. Linked(M)' \subseteq A /\ Reach(p)' \subseteq A
    BY <1>19, <1>20
  <2> QED
    BY <1>1, <1>2, <1>9, <1>13, <1>21, <1>22, <2>1, <2>2 DEF Own
<1> QED
  BY <1>14, <1>23, FrameStep

\* A process whose files are closed can only open one.
LEMMA Acts ==
  ASSUME CallInv, NEW p \in Procs, Transfers(p) \/ IoctlStep(p) \/ Oops(p)
  PROVE  Opens(p) \/ \E f \in FilesOf[p] : info[f] # None
<1>1. CASE ~At(p, {"user"})
  BY <1>1 DEF CallInv, CallOK
<1>2. CASE At(p, {"user"})
  <2>1. ~Oops(p)
    BY <1>2 DEF Oops, Followed, At
  <2> QED
    BY <1>2, <2>1
    DEF Transfers, IoctlStep, At, Opens, Closes, Writes, Reads, Controls, release_dev, write_dev,
        read_dev, ioctl_dev, SetLength, StoreByte, ReadLength, CopyByte, Search, AddNext, InitNext,
        NewList, SetId, SetFile, Publish
<1> QED
  BY <1>1, <1>2

\* Only a loaded module is called.
LEMMA Loaded ==
  ASSUME CallInv, NEW p \in Procs, Transfers(p) \/ IoctlStep(p) \/ Oops(p)
  PROVE  loaded # "out"
<1>1. CASE Opens(p)
  BY <1>1 DEF Opens, open_dev
<1>2. CASE \E f \in FilesOf[p] : info[f] # None
  BY <1>2, FilesAssumption DEF CallInv, OpenOK
<1> QED
  BY <1>1, <1>2, Acts

\* A step of a process keeps ListInv, if the ioctls of one device are kept apart.
LEMMA ProcessList ==
  ASSUME CallInv, ListInv, "device" \in exclusion, UNCHANGED exclusion,
         NEW p \in Procs, Transfers(p) \/ IoctlStep(p) \/ Oops(p)
  PROVE  ListInv'
<1>1. loaded # "out"
  BY Loaded
<1>2. CASE IoctlStep(p)
  BY <1>1, <1>2, ControlsList, SearchList, AddNextList, InitNextList, NewListList, SetIdList,
     SetFileList, PublishList DEF IoctlStep
<1> QED
  BY <1>1, <1>2, TransfersList, OopsList

\* rmmod and insmod keep ListInv, also when insmod makes an ioctl lose its list
\* (message_slot.c:396-452).
LEMMA SuperuserList ==
  ASSUME CallInv, ListInv, Superuser, UNCHANGED exclusion
  PROVE  ListInv'
<1>1. UNCHANGED <<info, call>>
  BY SuperuserEffect
<1>2. \A p \in Procs : /\ At(p, IoctlLabels)' <=> At(p, IoctlLabels)
                       /\ Minor(p)' = Minor(p)
  BY <1>1 DEF At, Minor
<1>3. AloneInv'
  BY <1>2 DEF ListInv, AloneInv
<1>4. CASE loaded' = "out" /\ \A p \in Procs : call[p].at = "user"
  <2>1. ShapeInv'
    BY <1>4 DEF ShapeInv
  <2>2. \A p \in Procs : ApartOK(p)' /\ WalkOK(p)'
    BY <1>1, <1>4 DEF ApartOK, WalkOK, Walks, At, TailLabels, HeadLabels
  <2> QED
    BY <1>3, <2>1, <2>2 DEF ListInv
<1>5. CASE UNCHANGED heap /\ \A m \in Minors : devices_info'[m] = NULL
  <2>1. \A m \in Minors : Linked(m)' = {}
    BY <1>5, LinkedNone, PointersAssumption DEF Linked
  <2>2. ShapeInv'
    BY <2>1 DEF ShapeInv, ListOK, Whole
  <2>3. ASSUME NEW p \in Procs PROVE ApartOK(p)'
    <3>1. /\ Reach(p)' = Reach(p) /\ (Walks(p)' <=> Walks(p))
          /\ \A q \in Procs : Reach(q)' = Reach(q) /\ (Walks(q)' <=> Walks(q))
      BY <1>1, <1>5 DEF Reach, Walks, At
    <3>2. Whole(Reach(p)) => Whole(Reach(p))'
      BY <1>1, <1>5, <3>1 DEF Whole, Valid, Unused, Raw, At
    <3> QED
      BY <1>1, <2>1, <3>1, <3>2 DEF ListInv, ApartOK
  <2>4. ASSUME NEW p \in Procs PROVE WalkOK(p)'
    <3>1. WalkOK(p) /\ ~At(p, {"user"}) => Minor(p) \in Minors
      BY FileOf DEF ListInv, Minor, OpenFile
    <3>2. At(p, {"new_list"} \cup HeadLabels) =>
             devices_info'[Minor(p)'] = NULL /\ Linked(Minor(p))' = {}
      BY <1>2, <1>5, <2>1, <3>1, LinkedNone, PointersAssumption
      DEF At, HeadLabels, Linked, ListInv
    <3>3. At(p, {"search", "append", "init"}) => Linked(Minor(p))' = {}
      BY <1>2, <1>5, <2>1, <3>1, LinkedNone, PointersAssumption DEF At, Linked, ListInv
    <3>4. At(p, {"search"}) => OtherIds(p, Linked(Minor(p)) \ Reach(p))'
      BY <3>3 DEF OtherIds, At
    <3>5. At(p, {"append"}) => OtherIds(p, Linked(Minor(p)))'
      BY <3>3 DEF OtherIds, At
    <3>6. At(p, {"init"}) => OtherIds(p, Linked(Minor(p)) \ {heap[call[p].temp].next})'
      BY <3>3 DEF OtherIds, At
    <3>7. Current(p)' = Current(p)
      BY <1>1 DEF Current
    <3> QED
      BY <1>1, <1>5, <3>1, <3>2, <3>4, <3>5, <3>6, <3>7
      DEF ListInv, WalkOK, Holds, Valid, Unused, At
  <2> QED
    BY <1>3, <2>2, <2>3, <2>4 DEF ListInv
<1> QED
  BY <1>4, <1>5, SuperuserEffect

\* While the ioctls of one device are kept apart.
DeviceInv == "device" \in exclusion => ListInv

\* ListInv is inductive.
LEMMA DeviceStep ==
  ASSUME CallInv, DeviceInv, [Next]_vars
  PROVE  DeviceInv'
<1> SUFFICES ASSUME "device" \in exclusion' PROVE ListInv'
  BY DEF DeviceInv
<1>1. UNCHANGED exclusion /\ "device" \in exclusion /\ ListInv
  BY ProcessCases DEF DeviceInv
<1>2. CASE UNCHANGED slot
  <2>1. UNCHANGED <<loaded, devices_info, heap, info, call>>
    BY <1>2 DEF slot
  <2>2. \A m \in Minors : Linked(m)' = Linked(m)
    BY <2>1 DEF Linked
  <2>3. /\ \A p \in Procs : Reach(p)' = Reach(p) /\ Minor(p)' = Minor(p) /\ Current(p)' = Current(p)
        /\ \A p \in Procs : Linked(Minor(p))' = Linked(Minor(p))
        /\ \A n : Raw(n)' <=> Raw(n)
    BY <2>1 DEF Reach, Minor, Current, Linked, Raw, At
  <2>4. AloneInv' /\ ShapeInv'
    BY <1>1, <2>1, <2>2, <2>3
    DEF ListInv, AloneInv, ShapeInv, ListOK, Whole, Valid, Unused, At
  <2>5. \A p \in Procs : ApartOK(p)'
    BY <1>1, <2>1, <2>2, <2>3 DEF ListInv, ApartOK, Walks, Whole, Valid, Unused, At
  <2>6. \A p \in Procs : WalkOK(p)'
    BY <1>1, <2>1, <2>2, <2>3
    DEF ListInv, WalkOK, OtherIds, Holds, Valid, Unused, At
  <2> QED
    BY <2>4, <2>5, <2>6 DEF ListInv
<1> QED
  BY <1>1, <1>2, ProcessCases, ProcessList, SuperuserList

\* The lists are empty at the start.
LEMMA DeviceInit == Init => DeviceInv
<1> SUFFICES ASSUME Init PROVE ListInv
  BY DEF DeviceInv
<1>1. \A p \in Procs : call[p].at = "user"
  BY UserType DEF Init, SlotInit
<1>2. \A m \in Minors : Linked(m) = {}
  BY LinkedNone, PointersAssumption DEF Init, SlotInit, Linked
<1>3. AloneInv /\ \A p \in Procs : ApartOK(p) /\ WalkOK(p)
  BY <1>1 DEF AloneInv, ApartOK, WalkOK, Walks, At, TailLabels, HeadLabels, IoctlLabels
<1>4. ShapeInv
  BY <1>2 DEF ShapeInv, ListOK, Whole
<1> QED
  BY <1>3, <1>4 DEF ListInv

\* If the ioctls of one device are kept apart, the lists and what the ioctls reach are
\* disjoint and sound, and an ioctl has passed nothing with its own id
\* (message_slot.c:276-355).
THEOREM ListInvariant == Spec => []DeviceInv
  BY DeviceInit, DeviceStep, CallInvariant, PTL DEF Spec

\* The lists of the devices share nothing, end, and have one message file for an
\* id, while the ioctls of one device are kept apart.
THEOREM ListsCorrect == Spec => []ListsWellFormed
<1>1. CallInv /\ DeviceInv => ListsWellFormed
  <2> SUFFICES ASSUME CallInv, ListInv, "device" \in exclusion, loaded # "out", NEW m \in Minors
               PROVE  /\ \A n \in Linked(m) : Valid(n) /\ (Raw(n) \/ heap[n].next # Wild)
                      /\ Linked(m) # {} => \E n \in Linked(m) : heap[n].next \notin Nodes
                      /\ \A n, k \in Linked(m) : n # k /\ ~Raw(n) /\ ~Raw(k) =>
                           /\ heap[n].message_file_id # heap[k].message_file_id
                           /\ heap[n].next # heap[k].next
                      /\ \A k \in Minors \ {m} : Linked(m) \cap Linked(k) = {}
    BY DEF DeviceInv, ListsWellFormed
  <2>1. ListOK(Linked(m)) /\ \A k \in Minors \ {m} : Linked(m) \cap Linked(k) = {}
    BY DEF ListInv, ShapeInv
  <2> QED
    BY <2>1 DEF ListOK, Whole
<1> QED
  BY <1>1, CallInvariant, ListInvariant, PTL
=============================================================================
