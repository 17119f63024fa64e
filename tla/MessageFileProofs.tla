------------------------- MODULE MessageFileProofs -------------------------
(***************************************************************************)
(* Theorems about where the pointers of open files and of system calls     *)
(* lead, and about the memory of the module.                               *)
(***************************************************************************)
EXTENDS MessageProofs

-----------------------------------------------------------------------------
(* The message files that open files and calls point to.                   *)

\* An open file with a channel that is not between the two stores of an ioctl.
Settled(f) ==
  /\ info[f] # None /\ info[f].message_file_id # 0
  /\ \A p \in Procs : At(p, {"set_file", "head_file", "publish"}) => call[p].file # f

InfoInv ==
  /\ \A f \in Files : Settled(f) =>
       Valid(info[f].current_message_file) /\ ~Raw(info[f].current_message_file)
  /\ \A p \in Procs : At(p, {"copy"}) => Valid(call[p].temp)

\* A step of a process.
Step(p) == Transfers(p) \/ IoctlStep(p) \/ Oops(p)

\* A step of p keeps the types, what its call relies on, and the others (message_slot.c:105-374).
LEMMA StepEffect ==
  ASSUME CallInv, NEW p \in Procs, Step(p), UNCHANGED exclusion
  PROVE  TypeInv' /\ Alone(p) /\ CallOK(p)' /\ UNCHANGED loaded
  BY TransfersEffect, IoctlEffect DEF Step, Elsewhere, KeepsOpen

\* What a step of p changes in a message file.
LEMMA Changes ==
  ASSUME CallInv, ListInv, NEW p \in Procs, Step(p), UNCHANGED exclusion
  PROVE  /\ \A k \in Nodes : heap[k] # None =>
              /\ heap'[k] # None
              /\ heap'[k].next = heap[k].next \/ (Walks(p) /\ k \in Reach(p))
              /\ heap'[k].message_file_id = heap[k].message_file_id \/ InitOf(p, k)
         /\ \A k \in Nodes : InitOf(p, k)' => heap[k] = None
<1>1. CASE Transfers(p)
  <2>1. SameFiles /\ ~At(p, {"init"})'
    BY <1>1, TransfersEffect DEF Elsewhere, At, IoctlLabels
  <2> QED
    BY <2>1 DEF SameFiles, InitOf
<1>2. CASE UNCHANGED heap /\ call'[p].at # "init"
  BY <1>2 DEF InitOf, At
<1>3. CASE Controls(p)
  <2>1. UNCHANGED heap /\ call'[p].at # "init"
    BY <1>3, ControlsEffect, UserType DEF Still
  <2> QED
    BY <2>1, <1>2
<1>4. CASE Search(p)
  <2>1. UNCHANGED heap /\ call'[p].at # "init"
    BY <1>4, SearchEffect DEF Still, Goes_on
  <2> QED
    BY <2>1, <1>2
<1>5. CASE SetId(p)
  <2>1. UNCHANGED heap /\ Goes_on(p, IF At(p, {"head_id"}) THEN "head_file" ELSE "set_file")
    BY <1>5, SetIdEffect
  <2> QED
    BY <2>1, <1>2 DEF Goes_on
<1>6. CASE SetFile(p)
  <2>1. UNCHANGED heap /\ call'[p].at # "init"
    BY <1>6, SetFileEffect, UserType DEF Goes_on, At
  <2> QED
    BY <2>1, <1>2
<1>7. CASE Publish(p) \/ Oops(p)
  <2>1. UNCHANGED heap /\ call'[p].at # "init"
    BY <1>7, PublishEffect, OopsEffect, UserType
  <2> QED
    BY <2>1, <1>2
<1>8. CASE NewList(p)
  <2>1. CASE UNCHANGED heap /\ call'[p] = User
    BY <2>1, <1>2, UserType
  <2>2. CASE /\ Goes_on(p, "head_id") /\ NewMemory(call'[p].temp)
             /\ \A k \in Nodes \ {call'[p].temp} : heap'[k] = heap[k]
    <3>1. \A k \in Nodes : heap[k] # None => heap'[k] = heap[k]
      BY <2>2 DEF NewMemory
    <3>2. call'[p].at # "init"
      BY <2>2 DEF Goes_on
    <3> QED
      BY <3>1, <3>2 DEF InitOf, At
  <2> QED
    BY <1>8, <2>1, <2>2, NewListEffect
<1>9. CASE AddNext(p)
  <2>1. PICK t \in Nodes : t = call[p].temp /\ heap[t] \in MessageFile /\ heap[t] # None
                           /\ call'[p].temp = t /\ At(p, {"append"})
    BY <1>9, AddNextEffect, ValidType DEF CallInv
  <2>2. PICK n \in Nodes : NewMemory(n) /\ heap'[t] = [heap[t] EXCEPT !.next = n]
                           /\ \A k \in Nodes \ {n, t} : heap'[k] = heap[k]
    BY <1>9, <2>1, AddNextEffect
  <2>3. heap'[t].next = n /\ heap'[t].message_file_id = heap[t].message_file_id /\ heap'[t] # None
    <3>1. PICK node \in MessageFile : node = heap[t]
      BY <2>1
    <3> DEFINE new == [node EXCEPT !.next = n]
    <3>2. new \in MessageFile /\ new.next = n /\ new.message_file_id = node.message_file_id
      BY DEF MessageFile
    <3>3. heap'[t] = new
      BY <2>2, <3>1
    <3> HIDE DEF new
    <3> QED
      BY <3>1, <3>2, <3>3, NoneAssumption
  <2>4. Walks(p) /\ t \in Reach(p)
    BY <2>1, ReachOwn DEF Walks, At, TailLabels
  <2>5. /\ \A k \in Nodes : heap[k] # None => k = t \/ heap'[k] = heap[k]
        /\ heap[n] = None
    BY <2>2 DEF NewMemory
  <2>6. \A k \in Nodes : InitOf(p, k)' => k = n
    BY <2>1, <2>3 DEF InitOf
  <2> QED
    BY <2>3, <2>4, <2>5, <2>6
<1>10. CASE InitNext(p)
  <2>1. PICK r \in Nodes : /\ r = heap[call[p].temp].next /\ heap'[r] \in MessageFile
                           /\ \A k \in Nodes \ {r} : heap'[k] = heap[k]
    BY <1>10, InitNextEffect
  <2>2. Valid(call[p].temp) /\ At(p, {"init"}) /\ call'[p].at # "init"
    BY <1>10, InitNextEffect DEF Goes_on
  <2>3. Walks(p) /\ r \in Reach(p) /\ InitOf(p, r)
    BY <2>1, <2>2, ReachOwn, ValidType DEF Walks, At, TailLabels, InitOf, Closed
  <2> QED
    BY <2>1, <2>2, <2>3, NoneAssumption DEF InitOf, At
<1> QED
  BY <1>1, <1>3, <1>4, <1>5, <1>6, <1>7, <1>8, <1>9, <1>10 DEF Step, IoctlStep

\* A message file that is set up stays, with its id.
LEMMA Stays ==
  ASSUME CallInv, ListInv, NEW p \in Procs, Step(p), UNCHANGED exclusion, NEW n, Valid(n)
  PROVE  Valid(n)' /\ (~Raw(n) => /\ ~Raw(n)'
                                  /\ heap'[n].message_file_id = heap[n].message_file_id)
<1>1. n \in Nodes /\ heap[n] # None
  BY ValidType
<1>2. Valid(n)'
  BY <1>1, Changes DEF Valid, Unused
<1>3. ASSUME ~Raw(n) PROVE heap'[n].message_file_id = heap[n].message_file_id
  BY <1>1, <1>3, Changes DEF Raw, InitOf
<1>4. ASSUME ~Raw(n), NEW q \in Procs, InitOf(q, n)' PROVE FALSE
  <2>1. q # p
    BY <1>1, <1>4, Changes
  <2>2. call'[q] = call[q]
    BY <2>1, StepEffect DEF Alone
  <2>3. Walks(q) /\ At(q, {"init"})
    BY <1>4, <2>2 DEF InitOf, At, Walks, TailLabels
  <2>4. PICK t \in Nodes : t = call[q].temp /\ heap[t] # None /\ t \in Reach(q)
    BY <2>3, ReachOwn, ValidType DEF ListInv, ApartOK, Whole
  <2>5. heap'[t].next = n /\ heap[t].next # n
    BY <1>4, <2>2, <2>3, <2>4 DEF InitOf, Raw
  <2>6. Walks(p) /\ t \in Reach(p)
    BY <2>4, <2>5, Changes
  <2> QED
    BY <2>1, <2>3, <2>4, <2>6 DEF ListInv, ApartOK
<1> QED
  BY <1>2, <1>3, <1>4 DEF Raw, InitOf

\* A file is settled because it was, or because an ioctl ends.
LEMMA Settles ==
  ASSUME CallInv, ListInv, NEW p \in Procs, Step(p), UNCHANGED exclusion,
         NEW f \in Files, Settled(f)'
  PROVE  \/ Settled(f) /\ info'[f] = info[f]
         \/ /\ f = call[p].file /\ At(p, {"set_file", "publish"})
            /\ info'[f].current_message_file = call[p].temp /\ info'[f].message_file_id = call[p].id
            /\ info'[f].minor = Minor(p)
<1> DEFINE Between == {"set_file", "head_file", "publish"}
<1>1. /\ info'[f] # None /\ info'[f].message_file_id # 0
      /\ \A q \in Procs : call'[q].at \in Between => call'[q].file # f
  BY DEF Settled, At
<1>2. \A q \in Procs \ {p} : call[q].at \in Between => call[q].file # f
  BY <1>1, StepEffect DEF Alone
<1>3. \A q \in Procs : call[q].at \in Between => call[q].file \in FilesOf[q]
  BY DEF CallInv, CallOK, At
<1>4. ASSUME info'[f] = info[f], ~(call[p].at \in Between /\ call[p].file = f)
      PROVE  Settled(f)
  BY <1>1, <1>2, <1>4 DEF Settled, At
<1>5. CASE f \notin FilesOf[p]
  <2>1. info'[f] = info[f]
    BY <1>5, StepEffect DEF Alone
  <2> QED
    BY <1>3, <1>4, <1>5, <2>1
<1>6. CASE Transfers(p)
  <2>1. call[p].at \notin Between /\ (f \in FilesOf[p] => info'[f] = info[f])
    BY <1>1, <1>6, TransfersEffect DEF Elsewhere, IoctlLabels
  <2> QED
    BY <1>4, <1>5, <2>1
<1>7. CASE Oops(p)
  BY <1>1, <1>5, <1>7, OopsEffect
<1>8. CASE UNCHANGED info /\ call[p].at \notin Between
  BY <1>4, <1>8
<1>9. CASE Controls(p) \/ Search(p) \/ AddNext(p) \/ InitNext(p) \/ NewList(p)
  <2>1. UNCHANGED info /\ call[p].at \notin Between
    BY <1>9, ControlsEffect, SearchEffect, AddNextEffect, InitNextEffect, NewListEffect DEF Still, At
  <2> QED
    BY <1>8, <2>1
<1>10. CASE SetId(p)
  <2>1. /\ call'[p].at \in Between /\ call'[p].file = call[p].file
        /\ \A g \in Files \ {call[p].file} : info'[g] = info[g]
        /\ call[p].at \notin Between
    BY <1>10, SetIdEffect DEF Goes_on, At
  <2> QED
    BY <1>1, <1>4, <2>1
<1>11. CASE SetFile(p)
  <2>1. /\ At(p, {"set_file", "head_file"})
        /\ info'[call[p].file].minor = info[call[p].file].minor
        /\ info'[call[p].file].message_file_id = info[call[p].file].message_file_id
        /\ info'[call[p].file].current_message_file = call[p].temp
        /\ \A g \in Files \ {call[p].file} : info'[g] = info[g]
        /\ At(p, {"head_file"}) => call'[p].at \in Between /\ call'[p].file = call[p].file
    BY <1>11, SetFileEffect DEF Goes_on
  <2>2. At(p, {"set_file"}) => info[call[p].file].message_file_id = call[p].id
    BY DEF ListInv, WalkOK, At
  <2>3. CASE f = call[p].file
    <3>1. At(p, {"set_file"})
      BY <1>1, <2>1, <2>3 DEF At
    <3> QED
      BY <2>1, <2>2, <2>3, <3>1 DEF Minor, At
  <2>4. CASE f # call[p].file
    BY <1>4, <2>1, <2>4
  <2> QED
    BY <2>3, <2>4
<1>12. CASE Publish(p)
  <2>1. UNCHANGED info /\ At(p, {"publish"})
    BY <1>12, PublishEffect
  <2>2. info[call[p].file].message_file_id = call[p].id /\ Current(p) = call[p].temp
    BY <2>1 DEF ListInv, WalkOK, At
  <2> QED
    BY <1>4, <2>1, <2>2 DEF Minor, Current, At
<1> QED
  BY <1>6, <1>7, <1>9, <1>10, <1>11, <1>12 DEF Step, IoctlStep

\* The message file an ioctl ends with.
LEMMA Found ==
  ASSUME CallInv, ListInv, NEW p \in Procs, At(p, {"set_file", "publish"})
  PROVE  /\ Valid(call[p].temp) /\ ~Raw(call[p].temp)
         /\ heap[call[p].temp].message_file_id = call[p].id
<1>1. Walks(p) /\ Holds(call[p].temp, p) /\ call[p].temp \in Reach(p)
  BY ReachOwn DEF ListInv, ApartOK, WalkOK, Walks, At, TailLabels, HeadLabels
<1>2. ASSUME NEW q \in Procs, InitOf(q, call[p].temp) PROVE FALSE
  <2>1. q # p /\ Walks(q)
    BY <1>2 DEF InitOf, At, Walks, TailLabels
  <2>2. call[q].temp \in Nodes /\ call[q].temp \in Reach(q) /\ Closed(Reach(q), heap) /\ Whole(Reach(q))
    BY <2>1, ReachOwn DEF ListInv, ApartOK
  <2>3. call[p].temp \in Reach(q)
    BY <1>1, <1>2, <2>2, ValidType DEF InitOf, Closed, Whole, Holds
  <2> QED
    BY <1>1, <2>1, <2>3 DEF ListInv, ApartOK
<1> QED
  BY <1>1, <1>2 DEF Raw, InitOf, Holds

\* The file of a read or a write is settled.
LEMMA MessageSettled ==
  ASSUME CallInv, NEW p \in Procs, At(p, MessageLabels)
  PROVE  call[p].file \in Files /\ Settled(call[p].file)
<1>1. /\ call[p].file \in FilesOf[p] /\ call[p].file \in Files /\ info[call[p].file] # None
      /\ info[call[p].file].message_file_id # 0
  BY FilesAssumption DEF CallInv, CallOK, At, MessageLabels
<1>2. ASSUME NEW q \in Procs, At(q, {"set_file", "head_file", "publish"})
      PROVE  call[q].file # call[p].file
  <2>1. call[q].file \in FilesOf[q] /\ q # p
    BY <1>2 DEF CallInv, CallOK, At, MessageLabels
  <2> QED
    BY <1>1, <2>1, FilesAssumption
<1> QED
  BY <1>1, <1>2 DEF Settled

\* An ioctl or a kill does not lead into the loop of read (message_slot.c:142-157).
LEMMA NoCopy ==
  ASSUME CallInv, NEW p \in Procs, IoctlStep(p) \/ Oops(p)
  PROVE  call'[p].at # "copy"
<1>1. CASE SetId(p)
  <2>1. Goes_on(p, IF At(p, {"head_id"}) THEN "head_file" ELSE "set_file")
    BY <1>1, SetIdEffect
  <2> QED
    BY <2>1 DEF Goes_on
<1>2. CASE Controls(p)
  BY <1>2, ControlsEffect, UserType
<1>3. CASE Search(p)
  BY <1>3, SearchEffect DEF Goes_on
<1>4. CASE NewList(p)
  BY <1>4, NewListEffect, UserType DEF Goes_on
<1>5. CASE SetFile(p)
  BY <1>5, SetFileEffect, UserType DEF Goes_on, At
<1> QED
  BY <1>1, <1>2, <1>3, <1>4, <1>5, AddNextEffect, InitNextEffect, PublishEffect, OopsEffect, UserType
  DEF IoctlStep, Goes_on

\* A step of p leaves every settled pointer good (message_slot.c:266-274).
LEMMA InfoProcess ==
  ASSUME CallInv, ListInv, InfoInv, NEW p \in Procs, Step(p), UNCHANGED exclusion
  PROVE  InfoInv'
<1>1. ASSUME NEW f \in Files, Settled(f)'
      PROVE  Valid(info[f].current_message_file)' /\ ~Raw(info[f].current_message_file)'
  <2>1. PICK n : n = info'[f].current_message_file
    OBVIOUS
  <2>2. Valid(n) /\ ~Raw(n)
    BY <1>1, <2>1, Settles, Found DEF InfoInv, Valid, Raw
  <2>3. Valid(n)' /\ ~Raw(n)'
    BY <2>2, Stays
  <2> QED
    BY <2>1, <2>3 DEF Valid, Raw
<1>2. ASSUME NEW q \in Procs, At(q, {"copy"})'
      PROVE  Valid(call[q].temp)'
  <2>1. PICK n : n = call'[q].temp
    OBVIOUS
  <2>2. Valid(n)
    <3>1. CASE q # p
      BY <1>2, <2>1, <3>1, StepEffect DEF Alone, At, InfoInv, Valid
    <3>2. CASE q = p
      <4>1. Transfers(p)
        BY <1>2, <3>2, NoCopy DEF Step, At
      <4>2. \/ call[p].at = "copy" /\ call'[p].temp = call[p].temp
            \/ call[p].at = "read_length" /\ call'[p].temp = Current(p)
        BY <1>2, <3>2, <4>1, TransfersEffect DEF Elsewhere, At
      <4>3. call[p].at = "read_length" => Valid(Current(p))
        BY MessageSettled DEF At, MessageLabels, InfoInv, Current
      <4>4. call[p].at = "copy" => Valid(call[p].temp)
        BY DEF InfoInv, At
      <4> QED
        BY <2>1, <3>2, <4>2, <4>3, <4>4 DEF Valid
    <3> QED
      BY <3>1, <3>2
  <2>3. Valid(n)'
    BY <2>2, Stays
  <2> QED
    BY <2>1, <2>3 DEF Valid
<1> QED
  BY <1>1, <1>2 DEF InfoInv

\* What does not touch the files, the memory and the calls keeps InfoInv.
LEMMA InfoSame ==
  ASSUME InfoInv, UNCHANGED <<heap, info, call>>
  PROVE  InfoInv'
<1>1. \A f \in Files : Settled(f)' <=> Settled(f)
  BY DEF Settled, At
<1>2. \A n : (Valid(n)' <=> Valid(n)) /\ (Raw(n)' <=> Raw(n))
  BY DEF Valid, Unused, Raw, At
<1> QED
  BY <1>1, <1>2 DEF InfoInv, Valid, Unused, Raw, At

\* rmmod finds no open file, and insmod frees nothing (message_slot.c:396-452).
LEMMA InfoSuperuser ==
  ASSUME CallInv, InfoInv, Superuser, UNCHANGED exclusion
  PROVE  InfoInv'
<1>1. UNCHANGED <<info, call>>
  BY SuperuserEffect
<1>2. CASE UNCHANGED heap
  BY <1>1, <1>2, InfoSame
<1>3. CASE /\ \A p \in Procs : call[p].at = "user"
           /\ \A f \in Files : info[f] = None
  BY <1>1, <1>3 DEF InfoInv, Settled, At
<1> QED
  BY <1>2, <1>3, SuperuserEffect

\* No message file that is reached through an open file is freed or still raw,
\* while the ioctls of one device are kept apart.
InfoOK == "device" \in exclusion => InfoInv

\* InfoInv is inductive, given the lists (message_slot.c:266-274).
LEMMA InfoStep ==
  ASSUME CallInv, DeviceInv, InfoOK, [Next]_vars
  PROVE  InfoOK'
<1> SUFFICES ASSUME "device" \in exclusion' PROVE InfoInv'
  BY DEF InfoOK
<1>1. UNCHANGED exclusion /\ ListInv /\ InfoInv
  BY ProcessCases DEF DeviceInv, InfoOK
<1>2. CASE UNCHANGED slot
  BY <1>1, <1>2, InfoSame DEF slot
<1> QED
  BY <1>1, <1>2, ProcessCases, InfoProcess, InfoSuperuser DEF Step

\* No file is open at the start.
LEMMA InfoInit == Init => InfoOK
<1> SUFFICES ASSUME Init PROVE InfoInv
  BY DEF InfoOK
<1>1. /\ \A p \in Procs : call[p].at = "user"
      /\ \A f \in Files : info[f] = None
  BY UserType DEF Init, SlotInit
<1> QED
  BY <1>1 DEF InfoInv, Settled, At

\* An open file with a channel, and no ioctl between its two stores, points to memory
\* that is allocated and set up; so does the copy of the pointer that read makes
\* (message_slot.c:124-157, 266-274).
THEOREM InfoInvariant == Spec => []InfoOK
  BY InfoInit, InfoStep, CallInvariant, ListInvariant, PTL DEF Spec

-----------------------------------------------------------------------------
(* Bad pointers.                                                           *)

\* A process that was killed has no open file: its last result says so only
\* until it calls again.
KilledInv ==
  \A p \in Procs : result[p] = Error("oops") => \A f \in FilesOf[p] : info[f] = None

\* Only a kill has the result of a kill.
LEMMA ErrorCodes ==
  /\ \A data : OK(data) # Error("oops")
  /\ \A code \in Codes \ {"oops"} : Error(code) # Error("oops")
  BY DEF OK, Error

\* Return sets the result of its process.
LEMMA ReturnResult ==
  ASSUME CallInv, NEW p \in Procs, NEW r, Return(p, r)
  PROVE  result'[p] = r
  BY DEF CallInv, TypeInv, Return

\* No call returns the result of a kill (message_slot.c:105-374).
LEMMA CallResult ==
  ASSUME CallInv, NEW p \in Procs, Transfers(p) \/ IoctlStep(p)
  PROVE  result'[p] = result[p] \/ result'[p] # Error("oops")
<1>1. ASSUME NEW code \in Codes \ {"oops"}, Return(p, Error(code))
      PROVE  result'[p] # Error("oops")
  BY <1>1, ReturnResult, ErrorCodes
<1>2. ASSUME NEW data, Return(p, OK(data))
      PROVE  result'[p] # Error("oops")
  BY <1>2, ReturnResult, ErrorCodes
<1>3. {"EINVAL", "EWOULDBLOCK", "EMSGSIZE", "EIO", "ENOMEM"} \subseteq Codes \ {"oops"}
  BY DEF Codes
<1>4. CASE Opens(p)
  BY <1>1, <1>2, <1>3, <1>4 DEF Opens, open_dev
<1>5. CASE Closes(p)
  BY <1>5 DEF Closes, release_dev
<1>6. CASE Writes(p)
  BY <1>1, <1>3, <1>6 DEF Writes, write_dev
<1>7. CASE Reads(p)
  BY <1>1, <1>3, <1>7 DEF Reads, read_dev
<1>8. CASE SetLength(p)
  BY <1>8 DEF SetLength
<1>9. CASE StoreByte(p)
  <2>1. PICK data : data = call[p].buffer
    OBVIOUS
  <2>2. Return(p, OK(data)) \/ UNCHANGED result
    BY <1>9, <2>1 DEF StoreByte, Return, OK
  <2> QED
    BY <1>2, <2>2
<1>10. CASE ReadLength(p)
  BY <1>1, <1>3, <1>10 DEF ReadLength
<1>11. CASE CopyByte(p)
  <2>1. PICK data : data = Append(call[p].buffer, heap[call[p].temp].message[call[p].i])
    OBVIOUS
  <2>2. Return(p, OK(data)) \/ Return(p, Error("EIO")) \/ UNCHANGED result
    BY <1>11, <2>1 DEF CopyByte, Return, OK
  <2> QED
    BY <1>1, <1>2, <1>3, <2>2
<1>12. CASE Controls(p)
  BY <1>1, <1>3, <1>12 DEF Controls, ioctl_dev
<1>13. CASE Search(p) \/ AddNext(p) \/ InitNext(p) \/ SetId(p)
  BY <1>13, SearchEffect, AddNextEffect, InitNextEffect, SetIdEffect
<1>14. CASE NewList(p)
  BY <1>1, <1>3, <1>14 DEF NewList
<1>15. CASE SetFile(p)
  BY <1>2, <1>15 DEF SetFile, Go
<1>16. CASE Publish(p)
  BY <1>2, <1>16 DEF Publish
<1> QED
  BY <1>4, <1>5, <1>6, <1>7, <1>8, <1>9, <1>10, <1>11, <1>12, <1>13, <1>14, <1>15, <1>16
  DEF Transfers, IoctlStep
\* A step of p keeps KilledInv: a killed process cannot go on with its files.
LEMMA KilledProcess ==
  ASSUME CallInv, KilledInv, NEW p \in Procs, Step(p), UNCHANGED exclusion
  PROVE  KilledInv'
<1> SUFFICES ASSUME NEW q \in Procs, result'[q] = Error("oops"), NEW f \in FilesOf[q]
             PROVE  info'[f] = None
  BY DEF KilledInv
<1>1. CASE q # p
  BY <1>1, StepEffect, FilesAssumption DEF Alone, KilledInv
<1>2. CASE q = p /\ Oops(p)
  BY <1>2, OopsEffect
<1>3. CASE q = p /\ ~Oops(p)
  <2>1. result[p] = Error("oops") /\ \A g \in FilesOf[p] : info[g] = None
    BY <1>3, CallResult DEF Step, KilledInv
  <2>2. Opens(p)
    BY <2>1, Acts DEF Step
  <2>3. PICK r \in {OK(<<>>), Error("ENOMEM")} : Return(p, r)
    BY <2>2 DEF Opens, open_dev
  <2>4. result'[p] # Error("oops")
    BY <2>3, ReturnResult, ErrorCodes DEF Codes
  <2> QED
    BY <1>3, <2>4
<1> QED
  BY <1>1, <1>2, <1>3

\* KilledInv is inductive.
LEMMA KilledStep ==
  ASSUME CallInv, KilledInv, [Next]_vars
  PROVE  KilledInv'
<1>1. UNCHANGED exclusion
  BY ProcessCases
<1>2. CASE UNCHANGED slot
  BY <1>2 DEF slot, KilledInv
<1>3. CASE Superuser
  BY <1>1, <1>3, SuperuserEffect DEF KilledInv
<1> QED
  BY <1>1, <1>2, <1>3, ProcessCases, KilledProcess DEF Step

\* Whoever was killed has no open file left until it opens one again
\* (message_slot.c:325-335, 367-374).
THEOREM KilledInvariant == Spec => []KilledInv
<1>1. Init => KilledInv
  BY ErrorCodes DEF Init, SlotInit, KilledInv
<1> QED
  BY <1>1, KilledStep, CallInvariant, PTL DEF Spec

\* Whoever is killed now, in a call, had no memory in the middle of a list: every other
\* pointer it could follow is good (message_slot.c:325-335).
LEMMA OopsStep ==
  ASSUME CallInv, DeviceInv, InfoOK, KilledInv, [Next]_vars,
         "device" \in exclusion, NEW p \in Procs, result'[p] = Error("oops"), ~At(p, {"user"})
  PROVE  At(p, {"append"}) /\ OutOfMemory
<1>1. result[p] # Error("oops")
  <2>1. call[p].file \in FilesOf[p] /\ info[call[p].file] # None
    BY DEF CallInv, CallOK
  <2> QED
    BY <2>1 DEF KilledInv
<1>2. Oops(p)
  <2>1. UNCHANGED exclusion /\ result'[p] # result[p]
    BY <1>1, ProcessCases
  <2>2. ~UNCHANGED slot /\ ~Superuser
    BY <2>1, SuperuserEffect DEF slot
  <2>3. PICK q \in Procs : Step(q)
    BY <2>2, ProcessCases DEF Step
  <2>4. q = p
    BY <2>1, <2>3, StepEffect DEF Alone
  <2> QED
    BY <2>1, <2>3, <2>4, CallResult DEF Step
<1>3. \A pointer \in Followed(p) : Valid(pointer)
  <2>1. CASE At(p, IoctlLabels)
    BY <2>1, FollowedValid DEF DeviceInv
  <2>2. CASE At(p, MessageLabels)
    <3>1. InfoInv /\ Settled(call[p].file) /\ call[p].file \in Files
      BY <2>2, MessageSettled DEF InfoOK
    <3>2. Valid(Current(p)) /\ (At(p, {"copy"}) => Valid(call[p].temp))
      BY <3>1 DEF InfoInv, Current
    <3> QED
      BY <2>2, <3>2 DEF Followed, At, MessageLabels
  <2> QED
    BY <2>1, <2>2 DEF CallInv, TypeInv, SystemCall, Labels, At
<1> QED
  BY <1>2, <1>3 DEF Oops

\* No call follows a bad pointer, while the ioctls of one device are kept apart,
\* but the one that finds no memory in the middle of a list.
THEOREM PointersCorrect == Spec => OopsOnlyOutOfMemory
<1>1. ASSUME CallInv, DeviceInv, InfoOK, KilledInv, [Next]_vars
      PROVE  ["device" \in exclusion => \A p \in Procs :
                result'[p] = Error("oops") /\ ~At(p, {"user"}) => At(p, {"append"}) /\ OutOfMemory]_vars
  BY <1>1, OopsStep
<1> QED
  BY <1>1, CallInvariant, ListInvariant, InfoInvariant, KilledInvariant, PTL
  DEF Spec, OopsOnlyOutOfMemory
-----------------------------------------------------------------------------
(* The inductive invariant: nothing is outside the lists, when nobody opens *)
(* a device before insmod has returned.                                    *)

\* An ioctl that looks through a list is in the list of its device.
TailIn(p) == At(p, TailLabels) => call[p].temp \in Linked(Minor(p))

\* An open file points into the list of its device, to its id.
FileIn(f) ==
  Settled(f) => /\ info[f].current_message_file \in Linked(info[f].minor)
                /\ heap[info[f].current_message_file].message_file_id = info[f].message_file_id

\* A message file is in a list, or at the head of one that is not published.
Owned(n) ==
  \/ \E m \in Minors : n \in Linked(m)
  \/ \E p \in Procs : At(p, HeadLabels) /\ call[p].temp = n

MemberInv ==
  /\ \A p \in Procs : TailIn(p)
  /\ \A f \in Files : FileIn(f)
  /\ \A n \in Nodes : heap[n] # None => loaded = "live" /\ Owned(n)

\* No step of a process unlinks a message file.
LEMMA LinksStay ==
  ASSUME CallInv, ListInv, NEW p \in Procs, Step(p), UNCHANGED exclusion
  PROVE  /\ \A k \in Nodes : heap[k] # None /\ heap[k].next \in Nodes =>
              heap'[k] # None /\ heap'[k].next = heap[k].next
         /\ \A m \in Minors : devices_info[m] \in Nodes => devices_info'[m] = devices_info[m]
<1>1. CASE Transfers(p)
  BY <1>1, TransfersEffect DEF Elsewhere, SameFiles
<1>2. CASE Controls(p) \/ Search(p) \/ SetId(p) \/ SetFile(p) \/ Oops(p)
  BY <1>2, ControlsEffect, SearchEffect, SetIdEffect, SetFileEffect, OopsEffect DEF Still
<1>3. CASE AddNext(p)
  <2>1. At(p, {"append"}) /\ heap[call[p].temp].next \notin Nodes
    BY <1>3, AddNextEffect DEF ListInv, WalkOK, At
  <2>2. PICK n \in Nodes : heap[n] = None /\ \A k \in Nodes \ {n, call[p].temp} : heap'[k] = heap[k]
    BY <1>3, AddNextEffect DEF NewMemory
  <2> QED
    BY <1>3, <2>1, <2>2, AddNextEffect
<1>4. CASE InitNext(p)
  <2>1. PICK r \in Nodes : r = heap[call[p].temp].next /\ \A k \in Nodes \ {r} : heap'[k] = heap[k]
    BY <1>4, InitNextEffect
  <2>2. heap[r].next \notin Nodes
    BY <1>4, <2>1, InitNextEffect DEF ListInv, WalkOK
  <2> QED
    BY <1>4, <2>1, <2>2, InitNextEffect
<1>5. CASE NewList(p)
  BY <1>5, NewListEffect DEF NewMemory
<1>6. CASE Publish(p)
  <2>1. At(p, {"publish"}) /\ UNCHANGED heap /\ devices_info[Minor(p)] = NULL
        /\ \A m \in Minors \ {Minor(p)} : devices_info'[m] = devices_info[m]
    BY <1>6, PublishEffect DEF CallInv, TypeInv, ListInv, WalkOK, At, HeadLabels
  <2> QED
    BY <2>1, PointersAssumption
<1> QED
  BY <1>1, <1>2, <1>3, <1>4, <1>5, <1>6 DEF Step, IoctlStep

\* No step of a process takes a message file out of a list (message_slot.c:312-355).
LEMMA ListsKeep ==
  ASSUME CallInv, ListInv, NEW p \in Procs, Step(p), UNCHANGED exclusion, NEW m \in Minors
  PROVE  Linked(m) \subseteq Linked(m)'
<1>1. PICK S : S = Linked(m)'
  OBVIOUS
<1>2. /\ \A n \in S : heap'[n] # None /\ heap'[n].next \in Nodes => heap'[n].next \in S
      /\ devices_info'[m] \in Nodes => devices_info'[m] \in S
      /\ S \in SUBSET Nodes
  BY <1>1, LinkedClosed DEF Linked, Closed
<1>3. Closed(S, heap) /\ (devices_info[m] \in Nodes => devices_info[m] \in S)
  BY <1>2, LinksStay DEF Closed
<1> QED
  BY <1>1, <1>3, LinkedLeast DEF Linked

\* What a process does under the provision, it does to a live module.
LEMMA Live ==
  ASSUME CallInv, "load" \in exclusion, NEW p \in Procs, Step(p)
  PROVE  loaded = "live"
<1>1. CASE Opens(p)
  BY <1>1 DEF Opens, open_dev
<1>2. ASSUME NEW f \in FilesOf[p], info[f] # None PROVE loaded = "live"
  BY <1>2, FilesAssumption DEF CallInv, OpenOK
<1> QED
  BY <1>1, <1>2, Acts DEF Step

-----------------------------------------------------------------------------
(* A step of a process.                                                    *)

\* The others stay where they are.
LEMMA OthersIn ==
  ASSUME CallInv, ListInv, MemberInv, NEW p \in Procs, Step(p), UNCHANGED exclusion,
         NEW q \in Procs \ {p}
  PROVE  TailIn(q)'
<1> SUFFICES ASSUME At(q, TailLabels)' PROVE (call[q].temp \in Linked(Minor(q)))'
  BY DEF TailIn
<1>1. call'[q] = call[q] /\ Minor(q)' = Minor(q) /\ Minor(q) \in Minors /\ At(q, TailLabels)
  BY StepEffect, OtherCalls DEF At, TailLabels, Alone
<1>2. PICK m \in Minors : m = Minor(q)
  BY <1>1
<1>3. call[q].temp \in Linked(m)
  BY <1>1, <1>2 DEF MemberInv, TailIn
<1>4. call'[q].temp \in Linked(m)'
  BY <1>1, <1>3, ListsKeep
<1> QED
  BY <1>1, <1>2, <1>4 DEF Linked

\* The next of a message file in a list is in it.
LEMMA NextIn ==
  ASSUME NEW m, NEW n \in Linked(m), heap[n] # None, heap[n].next \in Nodes
  PROVE  heap[n].next \in Linked(m)
  BY LinkedOwn DEF Closed

\* An ioctl of p goes on, at a message file that was in the list.
LEMMA StaysIn ==
  ASSUME CallInv, ListInv, NEW p \in Procs, Step(p), UNCHANGED exclusion,
         NEW m \in Minors, Minor(p)' = m, call'[p].temp \in Linked(m)
  PROVE  TailIn(p)'
<1>1. call'[p].temp \in Linked(m)'
  BY ListsKeep
<1> QED
  BY <1>1 DEF TailIn, Linked

\* The ioctl of p stays in the list of its device (message_slot.c:312-338).
LEMMA OwnIn ==
  ASSUME CallInv, ListInv, MemberInv, NEW p \in Procs, Step(p), UNCHANGED exclusion,
         "device" \in exclusion
  PROVE  TailIn(p)'
<1>1. CASE ~At(p, TailLabels)'
  BY <1>1 DEF TailIn
<1>2. ASSUME At(p, {"search", "append", "init", "set_next_id", "set_id"}),
             Minor(p)' = Minor(p),
             \/ call'[p].temp = call[p].temp
             \/ heap[call[p].temp] # None /\ call'[p].temp = heap[call[p].temp].next
                /\ call'[p].temp \in Nodes
      PROVE  TailIn(p)'
  <2>1. At(p, TailLabels) /\ Minor(p) \in Minors
    BY <1>2, OwnApart, FileOf DEF At, TailLabels, Minor, OpenFile
  <2>2. PICK m \in Minors : m = Minor(p)
    BY <2>1
  <2>3. call[p].temp \in Linked(m)
    BY <2>1, <2>2 DEF MemberInv, TailIn
  <2>4. call'[p].temp \in Linked(m)
    BY <1>2, <2>3, NextIn
  <2> QED
    BY <1>2, <2>2, <2>4, StaysIn
<1>3. CASE Transfers(p)
  <2>1. call'[p].at \notin TailLabels
    BY <1>3, TransfersEffect DEF Elsewhere, TailLabels, IoctlLabels
  <2> QED
    BY <1>1, <2>1 DEF At
<1>4. CASE Controls(p)
  <2>1. CASE call'[p] = User
    BY <1>1, <2>1, UserType DEF At, TailLabels
  <2>2. CASE call'[p] # User
    <3>1. PICK f \in FilesOf[p] :
            /\ info[f] # None /\ UNCHANGED info
            /\ call'[p].at = (IF devices_info[info[f].minor] = NULL THEN "new_list" ELSE "search")
            /\ call'[p].file = f /\ call'[p].temp = devices_info[info[f].minor]
      BY <1>4, <2>2, ControlsEffect DEF Still
    <3>2. PICK m \in Minors : m = info[f].minor
      BY <3>1, FilesAssumption DEF CallInv, TypeInv, OpenFile
    <3>3. Minor(p)' = m
      BY <3>1, <3>2 DEF Minor
    <3>4. CASE devices_info[m] = NULL
      BY <1>1, <3>1, <3>2, <3>4 DEF At, TailLabels
    <3>5. CASE devices_info[m] # NULL
      <4>1. call'[p].temp \in Linked(m)
        BY <3>1, <3>2, <3>5, LinkedOwn DEF CallInv, TypeInv
      <4> QED
        BY <3>3, <4>1, StaysIn
    <3> QED
      BY <3>4, <3>5
  <2> QED
    BY <2>1, <2>2
<1>5. CASE Search(p)
  <2>1. At(p, {"search"}) /\ Minor(p)' = Minor(p) /\ heap[call[p].temp] # None
    BY <1>5, SearchEffect, ValidType DEF Still, Minor, Goes_on
  <2>2. \/ call'[p].temp = call[p].temp
        \/ Goes_on(p, "search") /\ call'[p].temp = heap[call[p].temp].next
    BY <1>5, SearchEffect
  <2>3. ListInv'
    BY <1>5, ProcessList DEF Step
  <2>4. call'[p].at = "search" => call'[p].temp \in Nodes
    BY <2>3 DEF ListInv, ApartOK, Walks, At, TailLabels
  <2> QED
    BY <1>2, <2>1, <2>2, <2>4 DEF At, Goes_on
<1>6. CASE AddNext(p)
  <2>1. At(p, {"append"}) /\ Minor(p)' = Minor(p) /\ call'[p].temp = call[p].temp
    BY <1>6, AddNextEffect DEF Minor, Goes_on
  <2> QED
    BY <1>2, <2>1 DEF At
<1>7. CASE InitNext(p)
  <2>1. At(p, {"init"}) /\ Minor(p)' = Minor(p) /\ call'[p].temp = call[p].temp
    BY <1>7, InitNextEffect DEF Minor, Goes_on
  <2> QED
    BY <1>2, <2>1 DEF At
<1>8. CASE SetId(p)
  <2>1. Minor(p)' = Minor(p)
    BY <1>8, SetIdEffect DEF Minor, Goes_on
  <2>2. CASE At(p, {"head_id"})
    <3>1. call'[p].at = "head_file"
      BY <1>8, <2>2, SetIdEffect DEF Goes_on
    <3> QED
      BY <1>1, <3>1 DEF At, TailLabels
  <2>3. CASE At(p, {"set_id"})
    <3>1. call'[p].temp = call[p].temp
      BY <1>8, <2>3, SetIdEffect DEF At
    <3> QED
      BY <1>2, <2>1, <2>3, <3>1 DEF At
  <2>4. CASE At(p, {"set_next_id"})
    <3>1. heap[call[p].temp] # None /\ call'[p].temp = heap[call[p].temp].next
      BY <1>8, <2>4, SetIdEffect, ValidType
    <3>2. call'[p].temp \in Nodes
      BY <2>4, <3>1, ValidType DEF ListInv, WalkOK, Holds
    <3> QED
      BY <1>2, <2>1, <2>4, <3>1, <3>2 DEF At
  <2> QED
    BY <1>8, <2>2, <2>3, <2>4, SetIdEffect DEF At
<1>9. CASE SetFile(p)
  <2>1. call'[p].at \notin TailLabels
    BY <1>9, SetFileEffect, UserType DEF Goes_on, At, TailLabels
  <2> QED
    BY <1>1, <2>1 DEF At
<1>10. CASE NewList(p)
  <2>1. call'[p].at \notin TailLabels
    BY <1>10, NewListEffect, UserType DEF Goes_on, TailLabels
  <2> QED
    BY <1>1, <2>1 DEF At
<1>11. CASE Publish(p) \/ Oops(p)
  <2>1. call'[p].at \notin TailLabels
    BY <1>11, PublishEffect, OopsEffect, UserType DEF TailLabels
  <2> QED
    BY <1>1, <2>1 DEF At
<1> QED
  BY <1>3, <1>4, <1>5, <1>6, <1>7, <1>8, <1>9, <1>10, <1>11 DEF Step, IoctlStep

\* An ioctl on an empty list keeps its message file until it publishes it.
LEMMA HeadStep ==
  ASSUME CallInv, NEW p \in Procs, Step(p), UNCHANGED exclusion, At(p, HeadLabels)
  PROVE  \/ ~At(p, {"publish"}) /\ At(p, HeadLabels)' /\ call'[p].temp = call[p].temp
         \/ Publish(p)
<1>1. ~Transfers(p)
  BY TransfersEffect DEF Elsewhere, At, HeadLabels, IoctlLabels
<1>2. ~Oops(p)
  <2>1. Followed(p) = {} /\ ~At(p, {"append"})
    BY DEF Followed, At, HeadLabels
  <2> QED
    BY <2>1, OopsEffect
<1>3. ~(Controls(p) \/ Search(p) \/ AddNext(p) \/ InitNext(p) \/ NewList(p))
  BY ControlsEffect, SearchEffect, AddNextEffect, InitNextEffect, NewListEffect DEF At, HeadLabels
<1>4. CASE SetId(p)
  BY <1>4, SetIdEffect DEF Goes_on, At, HeadLabels
<1>5. CASE SetFile(p)
  BY <1>5, SetFileEffect DEF Goes_on, At, HeadLabels
<1> QED
  BY <1>1, <1>2, <1>3, <1>4, <1>5 DEF Step, IoctlStep

\* What is published heads its list.
LEMMA Published ==
  ASSUME CallInv, NEW p \in Procs, Publish(p), NEW m \in Minors, m = Minor(p)
  PROVE  call[p].temp \in Linked(m)'
<1>1. devices_info'[m] = call[p].temp /\ call[p].temp \in Nodes
  BY PublishEffect DEF CallInv, TypeInv
<1>2. LinkedFrom(devices_info'[m], heap') = Linked(m)'
  BY DEF Linked
<1> QED
  BY <1>1, <1>2, LinkedClosed

-----------------------------------------------------------------------------
(* A step of a process, the open files and the memory.                     *)

\* A step of p keeps what the open files point to in the lists (message_slot.c:269-273).
LEMMA FilesIn ==
  ASSUME CallInv, ListInv, InfoInv, MemberInv, NEW p \in Procs, Step(p), UNCHANGED exclusion,
         NEW f \in Files
  PROVE  FileIn(f)'
<1> SUFFICES ASSUME Settled(f)'
             PROVE  (/\ info[f].current_message_file \in Linked(info[f].minor)
                     /\ heap[info[f].current_message_file].message_file_id
                          = info[f].message_file_id)'
  BY DEF FileIn
<1>1. info'[f] \in OpenFile
  BY StepEffect DEF TypeInv, Settled
<1>2. PICK n \in Nodes \cup {NULL, Wild}, m \in Minors :
        n = info'[f].current_message_file /\ m = info'[f].minor
  BY <1>1 DEF OpenFile
<1>3. ASSUME Settled(f), info'[f] = info[f]
      PROVE  n \in Linked(m)' /\ heap'[n].message_file_id = info'[f].message_file_id
  <2>1. Valid(n) /\ ~Raw(n) /\ n \in Linked(m) /\ heap[n].message_file_id = info'[f].message_file_id
    BY <1>2, <1>3 DEF InfoInv, MemberInv, FileIn, Valid, Raw
  <2>2. n \in Linked(m)'
    BY <2>1, ListsKeep
  <2> QED
    BY <2>1, <2>2, Stays
<1>4. ASSUME At(p, {"set_file", "publish"}), n = call[p].temp, info'[f].message_file_id = call[p].id,
             f = call[p].file, m = Minor(p)
      PROVE  n \in Linked(m)' /\ heap'[n].message_file_id = info'[f].message_file_id
  <2>1. Valid(n) /\ ~Raw(n) /\ heap[n].message_file_id = info'[f].message_file_id
    BY <1>4, Found DEF Valid, Raw
  <2>2. CASE At(p, {"set_file"})
    <3>1. n \in Linked(m)
      BY <1>4, <2>2 DEF MemberInv, TailIn, At, TailLabels
    <3>2. n \in Linked(m)'
      BY <3>1, ListsKeep
    <3> QED
      BY <2>1, <3>2, Stays
  <2>3. CASE At(p, {"publish"})
    <3>1. Publish(p)
      BY <2>3, HeadStep DEF At, HeadLabels
    <3>2. n \in Linked(m)'
      BY <1>4, <3>1, Published
    <3> QED
      BY <2>1, <3>2, Stays
  <2> QED
    BY <1>4, <2>2, <2>3 DEF At
<1>5. n \in Linked(m)' /\ heap'[n].message_file_id = info'[f].message_file_id
  BY <1>2, <1>3, <1>4, Settles
<1> QED
  BY <1>2, <1>5 DEF Linked

\* Where new memory goes.
LEMMA NewIn ==
  ASSUME CallInv, ListInv, MemberInv, NEW p \in Procs, Step(p), UNCHANGED exclusion,
         NEW n \in Nodes, heap[n] = None, heap'[n] # None
  PROVE  Owned(n)'
<1>1. ~Transfers(p)
  BY TransfersEffect DEF Elsewhere, SameFiles
<1>2. ~(Controls(p) \/ Search(p) \/ SetId(p) \/ SetFile(p) \/ Publish(p) \/ Oops(p))
  BY ControlsEffect, SearchEffect, SetIdEffect, SetFileEffect, PublishEffect, OopsEffect DEF Still
<1>3. ~InitNext(p)
  BY InitNextEffect
<1>4. CASE NewList(p)
  <2>1. call'[p].at = "head_id" /\ call'[p].temp = n
    BY <1>4, NewListEffect DEF Goes_on
  <2> QED
    BY <2>1 DEF Owned, At, HeadLabels
<1>5. CASE AddNext(p)
  <2>1. At(p, {"append"}) /\ heap[call[p].temp] \in MessageFile /\ heap[call[p].temp] # None
        /\ call[p].temp \in Nodes
    BY <1>5, AddNextEffect, ValidType DEF CallInv
  <2>2. PICK t \in Nodes, node \in MessageFile : t = call[p].temp /\ node = heap[t] /\ node # None
    BY <2>1
  <2>3. heap'[t] = [node EXCEPT !.next = n]
    BY <1>5, <2>2, AddNextEffect
  <2>4. heap'[t] # None /\ heap'[t].next = n
    <3> DEFINE new == [node EXCEPT !.next = n]
    <3>1. new \in MessageFile /\ new.next = n
      BY DEF MessageFile
    <3>2. heap'[t] = new
      BY <2>3
    <3> HIDE DEF new
    <3> QED
      BY <3>1, <3>2, NoneAssumption
  <2>5. Walks(p)
    BY <2>1 DEF Walks, At, TailLabels
  <2>6. PICK m \in Minors : m = Minor(p)
    BY <2>5, FileOf DEF Walks, At, Minor, OpenFile, TailLabels, HeadLabels
  <2>7. t \in Linked(m)
    BY <2>1, <2>2, <2>6 DEF MemberInv, TailIn, At, TailLabels
  <2>8. t \in Linked(m)'
    BY <2>7, ListsKeep
  <2>9. n \in Linked(m)'
    <3>1. Linked(m)' = LinkedFrom(devices_info'[m], heap')
      BY DEF Linked
    <3> QED
      BY <2>4, <2>8, <3>1, LinkedClosed DEF Closed
  <2> QED
    BY <2>9 DEF Owned
<1> QED
  BY <1>1, <1>2, <1>3, <1>4, <1>5 DEF Step, IoctlStep

\* A message file that is in a list, or about to be its head, stays so (message_slot.c:342-355).
LEMMA OldIn ==
  ASSUME CallInv, ListInv, MemberInv, NEW p \in Procs, Step(p), UNCHANGED exclusion,
         NEW n \in Nodes, Owned(n)
  PROVE  Owned(n)'
<1>1. ASSUME NEW m \in Minors, n \in Linked(m)
      PROVE  Owned(n)'
  BY <1>1, ListsKeep DEF Owned
<1>2. ASSUME NEW q \in Procs \ {p}, At(q, HeadLabels), call[q].temp = n
      PROVE  Owned(n)'
  <2>1. call'[q] = call[q]
    BY StepEffect DEF Alone
  <2> QED
    BY <1>2, <2>1 DEF Owned, At
<1>3. ASSUME At(p, HeadLabels), call[p].temp = n
      PROVE  Owned(n)'
  <2>1. CASE At(p, HeadLabels)' /\ call'[p].temp = call[p].temp
    BY <1>3, <2>1 DEF Owned
  <2>2. CASE Publish(p)
    <3>1. PICK m \in Minors : m = Minor(p)
      BY <2>2, PublishEffect
    <3>2. n \in Linked(m)'
      BY <1>3, <2>2, <3>1, Published
    <3> QED
      BY <3>2 DEF Owned
  <2> QED
    BY <1>3, <2>1, <2>2, HeadStep
<1> QED
  BY <1>1, <1>2, <1>3 DEF Owned

\* A step of p keeps MemberInv (message_slot.c:105-374).
LEMMA MemberProcess ==
  ASSUME CallInv, ListInv, InfoInv, MemberInv, NEW p \in Procs, Step(p), UNCHANGED exclusion,
         {"device", "load"} \subseteq exclusion
  PROVE  MemberInv'
<1>1. \A q \in Procs : TailIn(q)'
  BY OthersIn, OwnIn
<1>2. \A f \in Files : FileIn(f)'
  BY FilesIn
<1>3. loaded' = "live"
  BY Live, StepEffect
<1>4. \A n \in Nodes : heap'[n] # None => Owned(n)'
  BY NewIn, OldIn DEF MemberInv
<1> QED
  BY <1>1, <1>2, <1>3, <1>4 DEF MemberInv

-----------------------------------------------------------------------------
(* The invariant of the members, and what it says.                         *)

\* What touches nothing keeps MemberInv.
LEMMA MemberSame ==
  ASSUME MemberInv, UNCHANGED <<loaded, devices_info, heap, info, call>>
  PROVE  MemberInv'
<1>1. \A m : Linked(m)' = Linked(m)
  BY DEF Linked
<1>2. \A p \in Procs : TailIn(p)'
  BY <1>1 DEF MemberInv, TailIn, At, Minor, Linked
<1>3. \A f \in Files : FileIn(f)'
  BY <1>1 DEF MemberInv, FileIn, Settled, At, Linked
<1>4. \A n \in Nodes : heap'[n] # None => loaded' = "live" /\ Owned(n)'
  BY <1>1 DEF MemberInv, Owned, At
<1> QED
  BY <1>2, <1>3, <1>4 DEF MemberInv

\* rmmod and insmod: no file is open.
LEMMA MemberSuperuser ==
  ASSUME CallInv, MemberInv, Superuser, UNCHANGED exclusion, "load" \in exclusion
  PROVE  MemberInv'
<1>1. UNCHANGED <<info, call>>
  BY SuperuserEffect
<1>2. CASE /\ loaded = "live" /\ \A p \in Procs : call[p].at = "user"
           /\ \A f \in Files : info[f] = None
           /\ \A n \in Nodes : heap'[n] = IF n \in Freed THEN None ELSE heap[n]
  <2>1. (\A p \in Procs : TailIn(p)') /\ \A f \in Files : FileIn(f)'
    BY <1>1, <1>2 DEF TailIn, FileIn, Settled, At, TailLabels
  <2>2. ASSUME NEW n \in Nodes, heap'[n] # None PROVE FALSE
    <3>1. heap[n] # None /\ n \notin Freed
      BY <1>2, <2>2
    <3>2. Owned(n)
      BY <3>1 DEF MemberInv
    <3> QED
      BY <1>2, <3>1, <3>2 DEF Owned, Freed, At, HeadLabels
  <2> QED
    BY <2>1, <2>2 DEF MemberInv
<1>3. CASE loaded # "live" /\ UNCHANGED heap
  <2>1. \A f \in Files : info[f] = None
    BY <1>3 DEF CallInv, OpenOK
  <2>2. \A p \in Procs : At(p, {"user"})
    BY <2>1, FileOf DEF CallInv, CallOK
  <2>3. (\A p \in Procs : TailIn(p)') /\ \A f \in Files : FileIn(f)'
    BY <1>1, <2>1, <2>2 DEF TailIn, FileIn, Settled, At, TailLabels
  <2>4. \A n \in Nodes : heap'[n] = None
    BY <1>3 DEF MemberInv
  <2> QED
    BY <2>3, <2>4 DEF MemberInv
<1> QED
  BY <1>2, <1>3, SuperuserEffect

MemberOK == {"device", "load"} \subseteq exclusion => MemberInv

\* MemberInv is inductive, given the lists and the pointers.
LEMMA MemberStep ==
  ASSUME CallInv, DeviceInv, InfoOK, MemberOK, [Next]_vars
  PROVE  MemberOK'
<1> SUFFICES ASSUME {"device", "load"} \subseteq exclusion' PROVE MemberInv'
  BY DEF MemberOK
<1>1. UNCHANGED exclusion /\ {"device", "load"} \subseteq exclusion
  BY ProcessCases
<1>2. ListInv /\ InfoInv /\ MemberInv
  BY <1>1 DEF DeviceInv, InfoOK, MemberOK
<1>3. CASE UNCHANGED slot
  BY <1>2, <1>3, MemberSame DEF slot
<1> QED
  BY <1>1, <1>2, <1>3, ProcessCases, MemberProcess, MemberSuperuser DEF Step

\* There is no memory and no open file at the start.
LEMMA MemberInit == Init => MemberOK
<1> SUFFICES ASSUME Init PROVE MemberInv
  BY DEF MemberOK
<1>1. /\ \A p \in Procs : call[p].at = "user"
      /\ \A f \in Files : info[f] = None
      /\ \A n \in Nodes : heap[n] = None
  BY UserType DEF Init, SlotInit
<1> QED
  BY <1>1 DEF MemberInv, TailIn, FileIn, Settled, At, TailLabels

\* If no open comes before insmod has returned, every ioctl is in the list of its device,
\* every open file points into it, and all memory is in a list or about to be a head
\* (message_slot.c:269-273, 312-355, 433-449).
THEOREM MemberInvariant == Spec => []MemberOK
  BY MemberInit, MemberStep, CallInvariant, ListInvariant, InfoInvariant, PTL DEF Spec

\* An open file points to the message file of its channel on its own device,
\* while the ioctls of one device are kept apart and nobody opens it too early.
THEOREM FilesCorrect == Spec => []FilesPointIntoLists
<1>1. ASSUME CallInv, InfoOK, MemberOK PROVE FilesPointIntoLists
  <2> SUFFICES ASSUME {"device", "load"} \subseteq exclusion, NEW f \in Files,
                      info[f] # None, info[f].message_file_id # 0,
                      \A p \in Procs : call[p].file = f => ~At(p, IoctlLabels)
               PROVE  /\ info[f].current_message_file \in Linked(info[f].minor)
                      /\ ~Raw(info[f].current_message_file)
                      /\ heap[info[f].current_message_file].message_file_id
                           = info[f].message_file_id
    BY DEF FilesPointIntoLists
  <2>1. Settled(f) /\ InfoInv /\ MemberInv
    BY <1>1 DEF Settled, At, IoctlLabels, InfoOK, MemberOK
  <2> QED
    BY <2>1 DEF InfoInv, MemberInv, FileIn
<1> QED
  BY <1>1, CallInvariant, InfoInvariant, MemberInvariant, PTL

\* No message file is lost, nor left behind by rmmod, under the same provision.
THEOREM MemoryCorrect == Spec => []NothingLeaks
<1>1. ASSUME CallInv, MemberOK PROVE NothingLeaks
  BY <1>1, ValidType DEF MemberOK, MemberInv, Owned, NothingLeaks, Unused, HeadLabels
<1> QED
  BY <1>1, CallInvariant, MemberInvariant, PTL
=============================================================================
