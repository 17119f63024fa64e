----------------------- MODULE MessageRegisterProofs -----------------------
(***************************************************************************)
(* The module implements atomic registers, for callers that keep apart the *)
(* ioctls of one device and the transfers of one message file, and do not  *)
(* open a device before insmod has returned.                               *)
(***************************************************************************)
EXTENDS MessageFileProofs

-----------------------------------------------------------------------------
(* The inductive invariant: reads and writes.                              *)

\* One read or write at a time on a message file.
MessagesApart ==
  \A p, q \in Procs :
    p # q /\ At(p, MessageLabels) /\ At(q, MessageLabels) => Current(p) # Current(q)

\* The bytes before the i-th are those of the message.
Transferred(p, n) == \A j \in 1..call[p].i - 1 : heap[n].message[j] = call[p].buffer[j]

TransferOK(p) ==
  /\ At(p, IoctlLabels \cup {"read_length"}) => call[p].buffer = <<>>
  /\ At(p, HeadLabels) => heap[call[p].temp].message_length = 0
  /\ At(p, {"store"}) => /\ heap[Current(p)].message_length = Len(call[p].buffer)
                         /\ Transferred(p, Current(p))
  /\ At(p, {"copy"}) => /\ call[p].temp = Current(p)
                        /\ heap[Current(p)].message_length = call[p].size
                        /\ Len(call[p].buffer) = call[p].i - 1
                        /\ Transferred(p, Current(p))

TransferInv == MessagesApart /\ \A p \in Procs : TransferOK(p)

Careful == exclusion = {"device", "message", "load"}

\* All that is known of a state.
StateInv == CallInv /\ ListInv /\ InfoInv /\ MemberInv

-----------------------------------------------------------------------------
(* What the steps of a read or a write do to the messages.                 *)

Refusals == {"EINVAL", "EWOULDBLOCK", "EMSGSIZE", "EIO", "ENOMEM"}

\* A read or write is refused, or admitted to its loop (message_slot.c:105-122, 162-215).
LEMMA EntersText ==
  ASSUME CallInv, NEW p \in Procs, Writes(p) \/ Reads(p)
  PROVE  /\ call[p].at = "user" /\ Still
         /\ \/ call'[p] = User /\ \E code \in Refusals : result'[p] = Error(code)
            \/ /\ UNCHANGED result
               /\ call'[p].at \in {"set_length", "read_length"}
               /\ call'[p].at = "read_length" => call'[p].buffer = <<>>
               /\ call'[p].file \in FilesOf[p] /\ Admitted(call'[p].file, FALSE)
<1>1. ASSUME NEW code \in Refusals, Return(p, Error(code))
      PROVE  call'[p] = User /\ result'[p] = Error(code)
  BY <1>1 DEF Return, CallInv, TypeInv
<1>2. ASSUME NEW f \in FilesOf[p], NEW message \in Seq(Nat), write_dev(p, f, message)
      PROVE  /\ call[p].at = "user" /\ Still
             /\ \/ \E code \in Refusals : Return(p, Error(code))
                \/ /\ Enter(p, f, "set_length", 0, NULL, message) /\ UNCHANGED result
                   /\ Admitted(f, FALSE)
  BY <1>2 DEF write_dev, At, Still, memory, Refusals
<1>3. ASSUME NEW f \in FilesOf[p], NEW message, Enter(p, f, "set_length", 0, NULL, message)
      PROVE  call'[p].at = "set_length" /\ call'[p].file = f
  <2> DEFINE new == [User EXCEPT !.at = "set_length", !.file = f, !.id = 0, !.temp = NULL,
                                 !.buffer = message]
  <2>1. call'[p] = new
    BY <1>3 DEF Enter, CallInv, TypeInv
  <2>2. new.at = "set_length" /\ new.file = f
    BY DEF User
  <2> QED
    BY <2>1, <2>2
<1>4. ASSUME NEW f \in FilesOf[p], NEW n \in Nat, read_dev(p, f, n)
      PROVE  /\ call[p].at = "user" /\ Still
             /\ \/ Return(p, Error("EINVAL"))
                \/ /\ call'[p].at = "read_length" /\ call'[p].file = f /\ call'[p].buffer = <<>>
                   /\ UNCHANGED result /\ Admitted(f, FALSE)
  <2> DEFINE new == [User EXCEPT !.at = "read_length", !.file = f, !.size = n]
  <2>1. new.at = "read_length" /\ new.file = f /\ new.buffer = <<>>
    BY DEF User
  <2>2. \/ Return(p, Error("EINVAL"))
        \/ call' = [call EXCEPT ![p] = new] /\ UNCHANGED result
    BY <1>4 DEF read_dev
  <2>3. call[p].at = "user" /\ Still /\ Admitted(f, FALSE)
    BY <1>4 DEF read_dev, At, Still, memory
  <2> HIDE DEF new
  <2>4. call' = [call EXCEPT ![p] = new] => call'[p] = new
    BY DEF CallInv, TypeInv
  <2> QED
    BY <2>1, <2>2, <2>3, <2>4
<1>5. CASE Writes(p)
  <2>1. PICK f \in FilesOf[p], message \in Seq(Nat) : write_dev(p, f, message)
    BY <1>5 DEF Writes
  <2> QED
    BY <1>1, <1>2, <1>3, <2>1
<1>6. CASE Reads(p)
  <2>1. PICK f \in FilesOf[p], n \in Nat : read_dev(p, f, n)
    BY <1>6 DEF Reads
  <2>2. "EINVAL" \in Refusals
    BY DEF Refusals
  <2> QED
    BY <1>1, <1>4, <2>1, <2>2
<1> QED
  BY <1>5, <1>6

\* The length is stored before the first byte (message_slot.c:217-221).
LEMMA SetLengthText ==
  ASSUME CallInv, NEW p \in Procs, SetLength(p)
  PROVE  /\ At(p, {"set_length"}) /\ Valid(Current(p))
         /\ UNCHANGED <<loaded, devices_info, info, result>>
         /\ call'[p].at = "store" /\ call'[p].i = 1
         /\ call'[p].file = call[p].file /\ call'[p].buffer = call[p].buffer
         /\ heap'[Current(p)].message_length = Len(call[p].buffer)
         /\ \A k \in Nodes \ {Current(p)} : heap'[k] = heap[k]
<1> USE DEF CallInv
<1>1. /\ At(p, {"set_length"}) /\ Valid(Current(p))
      /\ UNCHANGED <<loaded, devices_info, info, result>>
      /\ call' = [call EXCEPT ![p].at = "store", ![p].i = 1]
  BY DEF SetLength
<1>2. PICK n \in Nodes : n = Current(p) /\ heap[n] \in MessageFile
  BY <1>1, ValidType
<1>3. PICK len : len = Len(call[p].buffer)
  OBVIOUS
<1> DEFINE node == [heap[n] EXCEPT !.message_length = len]
<1>4. heap' = [heap EXCEPT ![n] = node]
  BY <1>2, <1>3 DEF SetLength, NewLength, TypeInv
<1>5. node.message_length = len
  BY <1>2 DEF MessageFile
<1> HIDE DEF node
<1>6. heap'[n] = node /\ \A k \in Nodes \ {n} : heap'[k] = heap[k]
  BY <1>4 DEF TypeInv
<1>7. /\ call'[p].at = "store" /\ call'[p].i = 1
      /\ call'[p].file = call[p].file /\ call'[p].buffer = call[p].buffer
  BY <1>1 DEF TypeInv, SystemCall
<1> QED
  BY <1>1, <1>2, <1>3, <1>5, <1>6, <1>7

\* One byte is stored; after the last one write returns (message_slot.c:221-231).
LEMMA StoreByteText ==
  ASSUME CallInv, NEW p \in Procs, StoreByte(p)
  PROVE  /\ At(p, {"store"}) /\ Valid(Current(p)) /\ UNCHANGED <<loaded, devices_info, info>>
         /\ heap'[Current(p)].message_length = heap[Current(p)].message_length
         /\ \A j \in 1..BUFFER_LENGTH :
              heap'[Current(p)].message[j] =
                IF j = call[p].i THEN call[p].buffer[j] ELSE heap[Current(p)].message[j]
         /\ \A k \in Nodes \ {Current(p)} : heap'[k] = heap[k]
         /\ \/ /\ call[p].i = Len(call[p].buffer) /\ call'[p] = User
               /\ result'[p] = OK(call[p].buffer)
            \/ /\ call[p].i # Len(call[p].buffer) /\ UNCHANGED result
               /\ call'[p].at = "store" /\ call'[p].i = call[p].i + 1
               /\ call'[p].file = call[p].file /\ call'[p].buffer = call[p].buffer
<1> USE DEF CallInv
<1>1. At(p, {"store"}) /\ Valid(Current(p)) /\ UNCHANGED <<loaded, devices_info, info>>
  BY DEF StoreByte
<1>2. PICK n \in Nodes : n = Current(p) /\ heap[n] \in MessageFile
  BY <1>1, ValidType
<1>3. PICK i, byte : i = call[p].i /\ byte = call[p].buffer[i]
  OBVIOUS
<1> DEFINE node == [heap[n] EXCEPT !.message[i] = byte]
           new == [call[p] EXCEPT !.i = i + 1]
<1>4. heap' = [heap EXCEPT ![n] = node]
  BY <1>2, <1>3 DEF StoreByte, TypeInv
<1>5. /\ node.message_length = heap[n].message_length
      /\ \A j \in 1..BUFFER_LENGTH :
           node.message[j] = IF j = i THEN byte ELSE heap[n].message[j]
  BY <1>2 DEF MessageFile
<1> HIDE DEF node
<1>6. heap'[n] = node /\ \A k \in Nodes \ {n} : heap'[k] = heap[k]
  BY <1>4 DEF TypeInv
<1>7. CASE i = Len(call[p].buffer)
  <2>1. Return(p, OK(call[p].buffer))
    BY <1>3, <1>7 DEF StoreByte
  <2>2. call'[p] = User /\ result'[p] = OK(call[p].buffer)
    BY <2>1 DEF Return, TypeInv
  <2> QED
    BY <1>1, <1>2, <1>3, <1>5, <1>6, <1>7, <2>2
<1>8. CASE i # Len(call[p].buffer)
  <2>1. call' = [call EXCEPT ![p] = new] /\ UNCHANGED result
    BY <1>3, <1>8 DEF StoreByte, TypeInv
  <2>2. /\ new.at = call[p].at /\ new.i = i + 1 /\ new.file = call[p].file
        /\ new.buffer = call[p].buffer
    BY DEF TypeInv, SystemCall
  <2> HIDE DEF new
  <2>3. call'[p] = new
    BY <2>1 DEF TypeInv
  <2> QED
    BY <1>1, <1>2, <1>3, <1>5, <1>6, <1>8, <2>1, <2>2, <2>3 DEF At
<1> QED
  BY <1>7, <1>8

\* The length is read before the first byte (message_slot.c:124-140).
LEMMA ReadLengthText ==
  ASSUME CallInv, NEW p \in Procs, ReadLength(p)
  PROVE  /\ At(p, {"read_length"}) /\ Valid(Current(p)) /\ Still
         /\ \/ call'[p] = User /\ result'[p] = Error("EWOULDBLOCK")
            \/ /\ UNCHANGED result
               /\ call'[p].at = "copy" /\ call'[p].i = 1 /\ call'[p].temp = Current(p)
               /\ call'[p].size = heap[Current(p)].message_length
               /\ call'[p].file = call[p].file /\ call'[p].buffer = call[p].buffer
<1> USE DEF CallInv
<1>1. At(p, {"read_length"}) /\ Valid(Current(p)) /\ Still
  BY DEF ReadLength, memory, Still
<1>2. PICK n, length : n = Current(p) /\ length = heap[Current(p)].message_length
  OBVIOUS
<1>3. CASE Return(p, Error("EWOULDBLOCK"))
  <2>1. call'[p] = User /\ result'[p] = Error("EWOULDBLOCK")
    BY <1>3 DEF Return, TypeInv
  <2> QED
    BY <1>1, <2>1
<1>4. CASE ~Return(p, Error("EWOULDBLOCK"))
  <2> DEFINE new == [call[p] EXCEPT !.at = "copy", !.size = length, !.i = 1, !.temp = n]
  <2>1. call' = [call EXCEPT ![p] = new] /\ UNCHANGED result
    BY <1>2, <1>4 DEF ReadLength, TypeInv
  <2>2. /\ new.at = "copy" /\ new.size = length /\ new.i = 1 /\ new.temp = n
        /\ new.file = call[p].file /\ new.buffer = call[p].buffer
    BY DEF TypeInv, SystemCall
  <2> HIDE DEF new
  <2>3. call'[p] = new
    BY <2>1 DEF TypeInv
  <2> QED
    BY <1>1, <1>2, <2>1, <2>2, <2>3
<1> QED
  BY <1>3, <1>4

\* One byte is copied; after the last one read returns (message_slot.c:142-157).
LEMMA CopyByteText ==
  ASSUME CallInv, NEW p \in Procs, CopyByte(p)
  PROVE  /\ At(p, {"copy"}) /\ Valid(call[p].temp) /\ Still
         /\ \E copied \in Seq(Nat) :
              /\ copied = Append(call[p].buffer, heap[call[p].temp].message[call[p].i])
              /\ \/ /\ call[p].i = call[p].size /\ call'[p] = User
                    /\ result'[p] \in {OK(copied), Error("EIO")}
                 \/ /\ call[p].i # call[p].size /\ UNCHANGED result
                    /\ call'[p].at = "copy" /\ call'[p].i = call[p].i + 1
                    /\ call'[p].buffer = copied /\ call'[p].temp = call[p].temp
                    /\ call'[p].size = call[p].size /\ call'[p].file = call[p].file
<1> USE DEF CallInv
<1>1. At(p, {"copy"}) /\ Valid(call[p].temp) /\ Still
  BY DEF CopyByte, memory, Still
<1>2. PICK n \in Nodes : n = call[p].temp /\ heap[n] \in MessageFile
  BY <1>1, ValidType
<1>3. /\ call[p].i \in Nat /\ call[p].size \in 1..BUFFER_LENGTH
      /\ call[p].i \in 1..call[p].size /\ call[p].buffer \in Seq(Nat)
  BY <1>1 DEF CallOK, At, TypeInv, SystemCall
<1>4. PICK i \in 1..BUFFER_LENGTH : i = call[p].i
  BY <1>3, BoundsAssumption
<1>5. heap[n].message[i] \in Nat
  BY <1>2 DEF MessageFile
<1>6. PICK copied \in Seq(Nat) : copied = Append(call[p].buffer, heap[n].message[i])
  <2>1. Append(call[p].buffer, heap[n].message[i]) \in Seq(Nat)
    BY <1>3, <1>5, AppendProperties
  <2> QED
    BY <2>1
<1>7. CASE i = call[p].size
  <2>1. Return(p, OK(copied)) \/ Return(p, Error("EIO"))
    BY <1>2, <1>4, <1>6, <1>7 DEF CopyByte
  <2>2. call'[p] = User /\ result'[p] \in {OK(copied), Error("EIO")}
    BY <2>1 DEF Return, TypeInv
  <2> QED
    BY <1>1, <1>2, <1>4, <1>6, <1>7, <2>2
<1>8. CASE i # call[p].size
  <2> DEFINE new == [call[p] EXCEPT !.buffer = copied, !.i = i + 1]
  <2>1. call' = [call EXCEPT ![p] = new] /\ UNCHANGED result
    BY <1>2, <1>4, <1>6, <1>8 DEF CopyByte, TypeInv
  <2>2. /\ new.at = call[p].at /\ new.i = i + 1 /\ new.buffer = copied
        /\ new.file = call[p].file /\ new.size = call[p].size /\ new.temp = call[p].temp
    BY DEF TypeInv, SystemCall
  <2> HIDE DEF new
  <2>3. call'[p] = new
    BY <2>1 DEF TypeInv
  <2> QED
    BY <1>1, <1>2, <1>4, <1>6, <1>8, <2>1, <2>2, <2>3 DEF At
<1> QED
  BY <1>7, <1>8

-----------------------------------------------------------------------------
(* What the other steps leave alone.                                       *)

SameText(k) == /\ heap'[k].message_length = heap[k].message_length
               /\ heap'[k].message = heap[k].message

\* The file of a call stays the same while it runs.
LEMMA QuietHeap ==
  ASSUME CallInv, NEW p \in Procs,
         Opens(p) \/ Closes(p) \/ Writes(p) \/ Reads(p) \/ ReadLength(p) \/ CopyByte(p)
  PROVE  UNCHANGED heap
<1>1. CASE Opens(p)
  BY <1>1 DEF Opens, open_dev, memory
<1>2. CASE Closes(p)
  BY <1>2 DEF Closes, release_dev, memory
<1>3. CASE Writes(p) \/ Reads(p)
  BY <1>3, EntersText DEF Still
<1>4. CASE ReadLength(p) \/ CopyByte(p)
  BY <1>4, ReadLengthText, CopyByteText DEF Still
<1> QED
  BY <1>1, <1>2, <1>3, <1>4

\* kmalloc links new memory, and changes nothing else of the last message file.
LEMMA AddNextLink ==
  ASSUME CallInv, NEW p \in Procs, AddNext(p)
  PROVE  \E t \in Nodes, n \in Nodes :
           /\ t = call[p].temp /\ heap[t] # None /\ NewMemory(n) /\ heap'[t].next = n
           /\ SameText(t) /\ \A k \in Nodes \ {n, t} : heap'[k] = heap[k]
           /\ InitOf(p, n)'
<1>1. PICK t \in Nodes, node \in MessageFile : t = call[p].temp /\ node = heap[t] /\ node # None
  BY AddNextEffect, ValidType DEF CallInv
<1>2. PICK n \in Nodes : NewMemory(n) /\ heap'[t] = [node EXCEPT !.next = n]
                         /\ \A k \in Nodes \ {n, t} : heap'[k] = heap[k]
  BY <1>1, AddNextEffect
<1> DEFINE new == [node EXCEPT !.next = n]
<1>3. /\ new.next = n /\ new.message_length = node.message_length
      /\ new.message = node.message
  BY DEF MessageFile
<1>4. heap'[t] = new
  BY <1>2
<1> HIDE DEF new
<1>5. InitOf(p, n)'
  BY <1>1, <1>3, <1>4, AddNextEffect DEF InitOf, At, Goes_on
<1> QED
  BY <1>1, <1>2, <1>3, <1>4, <1>5 DEF SameText

\* A message is written by write, and emptied when its file is set up.
LEMMA TextsKept ==
  ASSUME CallInv, NEW p \in Procs, Step(p), NEW k \in Nodes, heap[k] # None, ~InitOf(p, k),
         ~(At(p, {"set_length", "store"}) /\ Current(p) = k)
  PROVE  SameText(k)
<1>1. CASE UNCHANGED heap
  BY <1>1 DEF SameText
<1>2. CASE Opens(p) \/ Closes(p) \/ Writes(p) \/ Reads(p) \/ ReadLength(p) \/ CopyByte(p)
  BY <1>1, <1>2, QuietHeap
<1>3. CASE SetLength(p)
  <2>1. heap'[k] = heap[k]
    BY <1>3, SetLengthText DEF At
  <2> QED
    BY <2>1 DEF SameText
<1>4. CASE StoreByte(p)
  <2>1. heap'[k] = heap[k]
    BY <1>4, StoreByteText DEF At
  <2> QED
    BY <2>1 DEF SameText
<1>5. CASE Controls(p) \/ Search(p) \/ SetId(p) \/ SetFile(p) \/ Publish(p) \/ Oops(p)
  BY <1>1, <1>5, ControlsEffect, SearchEffect, SetIdEffect, SetFileEffect, PublishEffect, OopsEffect
  DEF Still
<1>6. CASE AddNext(p)
  BY <1>6, AddNextLink DEF SameText, NewMemory
<1>7. CASE InitNext(p)
  <2>1. heap'[k] = heap[k]
    BY <1>7, InitNextEffect DEF InitOf
  <2> QED
    BY <2>1 DEF SameText
<1>8. CASE NewList(p)
  <2>1. heap'[k] = heap[k]
    BY <1>8, NewListEffect DEF NewMemory
  <2> QED
    BY <2>1 DEF SameText
<1> QED
  BY <1>2, <1>3, <1>4, <1>5, <1>6, <1>7, <1>8 DEF Step, Transfers, IoctlStep

\* A message file that was set up just now is empty.
LEMMA InitText ==
  ASSUME CallInv, NEW p \in Procs, InitNext(p), NEW r \in Nodes, r = heap[call[p].temp].next
  PROVE  heap'[r].message_length = 0
<1>1. Valid(r) /\ heap' = [heap EXCEPT ![r] = init_message_data(@, call[p].id)]
  BY DEF InitNext
<1>2. PICK node \in MessageFile, id \in {call[p].id} : node = heap[r] /\ id = call[p].id
  BY <1>1, ValidType DEF CallInv
<1> DEFINE new == [node EXCEPT !.message_file_id = id, !.message_length = 0, !.next = NULL]
<1>3. new.message_length = 0
  BY DEF MessageFile
<1>4. heap' = [heap EXCEPT ![r] = new]
  BY <1>1, <1>2 DEF init_message_data, CallInv, TypeInv
<1> HIDE DEF new
<1> QED
  BY <1>3, <1>4 DEF CallInv, TypeInv

\* The first message file of a device is empty, or there is no memory (message_slot.c:342-351).
LEMMA NewListText ==
  ASSUME CallInv, NEW p \in Procs, NewList(p)
  PROVE  \/ call'[p] = User /\ result'[p] = Error("ENOMEM")
         \/ /\ UNCHANGED result /\ call'[p].buffer = call[p].buffer
            /\ heap'[call'[p].temp].message_length = 0
<1> USE DEF CallInv
<1>1. CASE Return(p, Error("ENOMEM"))
  BY <1>1 DEF Return, TypeInv
<1>2. CASE ~Return(p, Error("ENOMEM"))
  <2>1. PICK n \in Unused :
          /\ heap' = [heap EXCEPT ![n] =
                        [message_file_id |-> call[p].id, message_length |-> 0, next |-> NULL,
                         message |-> [i \in 1..BUFFER_LENGTH |-> 0]]]
          /\ call' = [call EXCEPT ![p].temp = n, ![p].at = "head_id"]
    BY <1>2 DEF NewList
  <2>2. UNCHANGED result
    BY <1>2 DEF NewList
  <2> DEFINE new == [call[p] EXCEPT !.temp = n, !.at = "head_id"]
  <2>3. new.temp = n /\ new.buffer = call[p].buffer
    BY DEF TypeInv, SystemCall
  <2>4. call'[p] = new
    BY <2>1 DEF TypeInv
  <2> HIDE DEF new
  <2>5. heap'[n].message_length = 0
    BY <2>1 DEF TypeInv, Unused
  <2> QED
    BY <2>2, <2>3, <2>4, <2>5
<1> QED
  BY <1>1, <1>2

\* An ioctl has no buffer.
LEMMA IoctlBuffer ==
  ASSUME CallInv, NEW p \in Procs, IoctlStep(p), At(p, IoctlLabels) => call[p].buffer = <<>>
  PROVE  call'[p].buffer = <<>>
<1> USE DEF CallInv
<1>1. ASSUME NEW r, Return(p, r) PROVE call'[p].buffer = <<>>
  BY <1>1, UserType DEF Return, TypeInv
<1>2. ASSUME NEW label, Go(p, label) PROVE call'[p].buffer = call[p].buffer
  BY <1>2 DEF Go, TypeInv, SystemCall
<1>3. CASE Controls(p)
  <2>1. PICK f \in FilesOf[p], id \in Channels \cup {0} : ioctl_dev(p, f, id)
    BY <1>3 DEF Controls
  <2>2. CASE Return(p, Error("EINVAL"))
    BY <1>1, <2>2
  <2>3. ASSUME NEW label, NEW head, Enter(p, f, label, id, head, <<>>)
        PROVE  call'[p].buffer = <<>>
    <3> DEFINE new == [User EXCEPT !.at = label, !.file = f, !.id = id, !.temp = head,
                                   !.buffer = <<>>]
    <3>1. new.buffer = <<>>
      BY DEF User
    <3>2. call'[p] = new
      BY <2>3 DEF Enter, TypeInv
    <3> HIDE DEF new
    <3> QED
      BY <3>1, <3>2
  <2> QED
    BY <2>1, <2>2, <2>3 DEF ioctl_dev
<1>4. CASE Search(p)
  <2>1. CASE \E label : Go(p, label)
    BY <1>2, <1>4, <2>1 DEF Search, At, IoctlLabels
  <2>2. CASE ~\E label : Go(p, label)
    <3>1. PICK next : call' = [call EXCEPT ![p].temp = next]
      BY <1>4, <2>2 DEF Search
    <3>2. call'[p].buffer = call[p].buffer
      BY <3>1 DEF TypeInv, SystemCall
    <3> QED
      BY <1>4, <3>2 DEF Search, At, IoctlLabels
  <2> QED
    BY <2>1, <2>2
<1>5. CASE AddNext(p) \/ InitNext(p)
  BY <1>2, <1>5 DEF AddNext, InitNext, At, IoctlLabels
<1>6. CASE NewList(p)
  BY <1>6, NewListText, UserType DEF NewList, At, IoctlLabels
<1>7. CASE SetId(p)
  <2>1. PICK temp, label : call' = [call EXCEPT ![p].temp = temp, ![p].at = label]
    BY <1>7 DEF SetId, TypeInv, SystemCall
  <2>2. call'[p].buffer = call[p].buffer
    BY <2>1 DEF TypeInv, SystemCall
  <2> QED
    BY <1>7, <2>2 DEF SetId, At, IoctlLabels
<1>8. CASE SetFile(p)
  <2>1. Return(p, OK(<<>>)) \/ Go(p, "publish")
    BY <1>8 DEF SetFile
  <2> QED
    BY <1>1, <1>2, <1>8, <2>1 DEF SetFile, At, IoctlLabels
<1>9. CASE Publish(p)
  BY <1>1, <1>9 DEF Publish
<1> QED
  BY <1>3, <1>4, <1>5, <1>6, <1>7, <1>8, <1>9 DEF IoctlStep

-----------------------------------------------------------------------------
(* The invariant of reads and writes.                                      *)

\* A read or a write is at a message file in the list of its device.
LEMMA MessagePlace ==
  ASSUME StateInv, NEW p \in Procs, At(p, MessageLabels)
  PROVE  \E n \in Nodes, m \in Minors :
           /\ n = Current(p) /\ m = Minor(p) /\ call[p].file \in FilesOf[p]
           /\ Valid(n) /\ ~Raw(n) /\ n \in Linked(m)
           /\ heap[n].message_file_id = info[call[p].file].message_file_id
           /\ info[call[p].file].message_file_id \in Channels
<1> USE DEF StateInv
<1>1. call[p].file \in Files /\ Settled(call[p].file)
  BY MessageSettled
<1>2. info[call[p].file] \in OpenFile /\ call[p].file \in FilesOf[p]
  BY FileOf DEF At, MessageLabels
<1>3. Valid(Current(p)) /\ ~Raw(Current(p))
  BY <1>1 DEF InfoInv, Current
<1>4. Current(p) \in Linked(Minor(p))
      /\ heap[Current(p)].message_file_id = info[call[p].file].message_file_id
  BY <1>1 DEF MemberInv, FileIn, Current, Minor
<1>5. Minor(p) \in Minors /\ info[call[p].file].message_file_id \in Channels
  BY <1>1, <1>2 DEF Minor, OpenFile, Settled
<1> QED
  BY <1>2, <1>3, <1>4, <1>5, ValidType

\* What p does is not to the message file another call works on.
LEMMA Undisturbed ==
  ASSUME StateInv, MessagesApart, loaded # "out", NEW p \in Procs, Step(p), NEW q \in Procs \ {p}, NEW n,
         \/ At(q, HeadLabels) /\ n = call[q].temp
         \/ At(q, MessageLabels) /\ n = Current(q)
  PROVE  n \in Nodes /\ heap[n] # None /\ SameText(n)
<1> USE DEF StateInv
<1>1. CASE At(q, HeadLabels) /\ n = call[q].temp
  <2>1. Walks(q) /\ n \in Reach(q) /\ Holds(n, q) /\ n \in Nodes /\ heap[n] # None
    BY <1>1, ReachOwn, ValidType DEF ListInv, ApartOK, WalkOK, Walks, At, HeadLabels, TailLabels, Holds
  <2>2. ASSUME InitOf(p, n) PROVE FALSE
    <3>1. Walks(p)
      BY <2>2 DEF InitOf, At, Walks, TailLabels
    <3>2. call[p].temp \in Nodes /\ call[p].temp \in Reach(p) /\ Closed(Reach(p), heap) /\ Whole(Reach(p))
      BY <3>1, ReachOwn DEF ListInv, ApartOK
    <3>3. n \in Reach(p)
      BY <2>1, <2>2, <3>2, ValidType DEF InitOf, Closed, Whole
    <3> QED
      BY <2>1, <3>1, <3>3 DEF ListInv, ApartOK
  <2>3. ASSUME At(p, MessageLabels), Current(p) = n PROVE FALSE
    <3>1. PICK m \in Minors : m = Minor(p) /\ n \in Linked(m)
      BY <2>3, MessagePlace
    <3>2. CASE m = Minor(q)
      <4>1. devices_info[m] = NULL
        BY <1>1, <3>2 DEF ListInv, WalkOK, At, HeadLabels
      <4> QED
        BY <3>1, <4>1, LinkedNone, PointersAssumption DEF Linked
    <3>3. CASE m # Minor(q)
      BY <2>1, <3>1, <3>3 DEF ListInv, ApartOK
    <3> QED
      BY <3>2, <3>3
  <2> QED
    BY <2>1, <2>2, <2>3, TextsKept DEF At, MessageLabels
<1>2. CASE At(q, MessageLabels) /\ n = Current(q)
  <2>1. n \in Nodes /\ heap[n] # None /\ ~Raw(n)
    BY <1>2, MessagePlace, ValidType
  <2>2. ~InitOf(p, n)
    BY <2>1 DEF Raw, InitOf
  <2>3. ~(At(p, {"set_length", "store"}) /\ Current(p) = n)
    BY <1>2 DEF MessagesApart, At, MessageLabels
  <2> QED
    BY <2>1, <2>2, <2>3, TextsKept
<1> QED
  BY <1>1, <1>2

\* A call that goes on to read or write was doing so, or has been admitted.
LEMMA MessageSteps ==
  ASSUME CallInv, NEW p \in Procs, Step(p), At(p, MessageLabels)'
  PROVE  \/ Writes(p) \/ Reads(p)
         \/ /\ SetLength(p) \/ StoreByte(p) \/ ReadLength(p) \/ CopyByte(p)
            /\ At(p, MessageLabels) /\ UNCHANGED info /\ call'[p].file = call[p].file
<1>1. CASE SetLength(p) \/ StoreByte(p) \/ ReadLength(p) \/ CopyByte(p)
  BY <1>1, SetLengthText, StoreByteText, ReadLengthText, CopyByteText, UserType
  DEF At, MessageLabels, Still
<1>2. CASE Opens(p)
  <2>1. call'[p] = User
    BY <1>2 DEF Opens, open_dev, Return, CallInv, TypeInv
  <2> QED
    BY <2>1, UserType DEF At, MessageLabels
<1>3. CASE Closes(p)
  <2>1. call'[p].at = "user"
    BY <1>3 DEF Closes, release_dev, At
  <2> QED
    BY <2>1 DEF At, MessageLabels
<1>4. CASE IoctlStep(p) \/ Oops(p)
  <2>1. ASSUME NEW label, Goes_on(p, label), label \in IoctlLabels PROVE FALSE
    BY <2>1 DEF Goes_on, At, IoctlLabels, MessageLabels
  <2>2. call'[p] # User /\ call'[p].at \notin {"new_list", "search"}
    BY UserType DEF At, MessageLabels
  <2>3. CASE SetId(p)
    <3>1. Goes_on(p, IF At(p, {"head_id"}) THEN "head_file" ELSE "set_file")
      BY <2>3, SetIdEffect
    <3> QED
      BY <2>1, <3>1 DEF IoctlLabels
  <2> QED
    BY <1>4, <2>1, <2>2, <2>3, SearchEffect, AddNextEffect, InitNextEffect, NewListEffect,
       SetFileEffect, PublishEffect, OopsEffect, ControlsEffect DEF IoctlStep, IoctlLabels, At
<1> QED
  BY <1>1, <1>2, <1>3, <1>4 DEF Step, Transfers

\* Calls that are admitted only apart stay apart.
LEMMA ApartStep ==
  ASSUME StateInv, TransferInv, Careful, NEW p \in Procs, Step(p), UNCHANGED exclusion
  PROVE  MessagesApart'
<1> USE DEF StateInv
<1>1. Alone(p)
  BY StepEffect
<1>2. ASSUME NEW q \in Procs \ {p}, At(q, MessageLabels)'
      PROVE  At(q, MessageLabels) /\ call[q].at # "user" /\ Current(q)' = Current(q)
  <2>1. At(q, MessageLabels) /\ call[q].at # "user"
    BY <1>1, <1>2 DEF Alone, At, MessageLabels
  <2> QED
    BY <1>1, <2>1, OtherCalls
<1>3. ASSUME NEW q \in Procs \ {p}, At(q, MessageLabels)', At(p, MessageLabels)'
      PROVE  Current(q)' # Current(p)'
  <2>1. CASE At(p, MessageLabels) /\ UNCHANGED info /\ call'[p].file = call[p].file
    <3>1. Current(p)' = Current(p)
      BY <2>1 DEF Current
    <3>2. Current(q) # Current(p)
      BY <1>2, <1>3, <2>1 DEF TransferInv, MessagesApart
    <3> QED
      BY <1>2, <1>3, <3>1, <3>2
  <2>2. CASE Writes(p) \/ Reads(p)
    <3>1. call'[p].file \in FilesOf[p] /\ Admitted(call'[p].file, FALSE) /\ UNCHANGED info
      BY <1>3, <2>2, EntersText, UserType DEF At, MessageLabels, Still
    <3>2. PICK f \in FilesOf[p] : f = call'[p].file /\ Admitted(f, FALSE)
      BY <3>1
    <3>3. Current(q) # info[f].current_message_file
      BY <1>2, <1>3, <3>2 DEF Admitted, Careful
    <3>4. Current(p)' = info[f].current_message_file
      BY <3>1, <3>2 DEF Current
    <3> QED
      BY <1>2, <1>3, <3>3, <3>4
  <2> QED
    BY <1>3, <2>1, <2>2, MessageSteps
<1>4. ASSUME NEW q \in Procs \ {p}, NEW r \in Procs \ {p}, q # r,
             At(q, MessageLabels)', At(r, MessageLabels)'
      PROVE  Current(q)' # Current(r)'
  BY <1>2, <1>4 DEF TransferInv, MessagesApart
<1> QED
  BY <1>3, <1>4 DEF MessagesApart

\* A step of p leaves what another read or write relies on.
LEMMA OthersText ==
  ASSUME StateInv, TransferInv, loaded # "out", NEW p \in Procs, Step(p), UNCHANGED exclusion,
         NEW q \in Procs \ {p}
  PROVE  TransferOK(q)'
<1> USE DEF StateInv
<1>1. call'[q] = call[q] /\ (call[q].at # "user" => Current(q)' = Current(q))
  BY StepEffect, OtherCalls
<1>2. TransferOK(q) /\ MessagesApart
  BY DEF TransferInv
<1>3. At(q, IoctlLabels \cup {"read_length"})' => call'[q].buffer = <<>>
  BY <1>1, <1>2 DEF TransferOK, At
<1>4. At(q, HeadLabels)' => heap'[call'[q].temp].message_length = 0
  <2> SUFFICES ASSUME At(q, HeadLabels)' PROVE heap'[call'[q].temp].message_length = 0
    OBVIOUS
  <2>1. At(q, HeadLabels) /\ heap[call[q].temp].message_length = 0
    BY <1>1, <1>2 DEF TransferOK, At
  <2>2. PICK n \in Nodes : n = call[q].temp /\ SameText(n)
    BY <1>2, <2>1, Undisturbed
  <2> QED
    BY <1>1, <2>1, <2>2 DEF SameText
<1>5. ASSUME At(q, {"store", "copy"})'
      PROVE  /\ At(q, {"store", "copy"}) /\ Current(q)' = Current(q)
             /\ heap'[Current(q)].message_length = heap[Current(q)].message_length
             /\ heap'[Current(q)].message = heap[Current(q)].message
  <2>1. At(q, {"store", "copy"}) /\ call[q].at # "user" /\ At(q, MessageLabels)
    BY <1>1, <1>5 DEF At, MessageLabels
  <2>2. PICK n \in Nodes : n = Current(q) /\ SameText(n)
    BY <1>2, <2>1, Undisturbed
  <2> QED
    BY <1>1, <2>1, <2>2 DEF SameText
<1>6. PICK n : n = Current(q)
  OBVIOUS
<1>7. At(q, {"store"})' => (/\ heap[Current(q)].message_length = Len(call[q].buffer)
                            /\ Transferred(q, Current(q)))'
  <2> SUFFICES ASSUME At(q, {"store"})'
               PROVE  (/\ heap[Current(q)].message_length = Len(call[q].buffer)
                       /\ Transferred(q, Current(q)))'
    OBVIOUS
  <2>1. At(q, {"store"}) /\ Current(q)' = n
        /\ heap'[n].message_length = heap[n].message_length /\ heap'[n].message = heap[n].message
    BY <1>1, <1>5, <1>6 DEF At
  <2>2. heap[n].message_length = Len(call[q].buffer) /\ Transferred(q, n)
    BY <1>2, <1>6, <2>1 DEF TransferOK
  <2> QED
    BY <1>1, <2>1, <2>2 DEF Transferred
<1>8. At(q, {"copy"})' => (/\ call[q].temp = Current(q)
                           /\ heap[Current(q)].message_length = call[q].size
                           /\ Len(call[q].buffer) = call[q].i - 1
                           /\ Transferred(q, Current(q)))'
  <2> SUFFICES ASSUME At(q, {"copy"})'
               PROVE  (/\ call[q].temp = Current(q)
                       /\ heap[Current(q)].message_length = call[q].size
                       /\ Len(call[q].buffer) = call[q].i - 1
                       /\ Transferred(q, Current(q)))'
    OBVIOUS
  <2>1. At(q, {"copy"}) /\ Current(q)' = n
        /\ heap'[n].message_length = heap[n].message_length /\ heap'[n].message = heap[n].message
    BY <1>1, <1>5, <1>6 DEF At
  <2>2. /\ call[q].temp = n /\ heap[n].message_length = call[q].size
        /\ Len(call[q].buffer) = call[q].i - 1 /\ Transferred(q, n)
    BY <1>2, <1>6, <2>1 DEF TransferOK
  <2> QED
    BY <1>1, <2>1, <2>2 DEF Transferred
<1> QED
  BY <1>3, <1>4, <1>7, <1>8 DEF TransferOK

\* A process that is in no call relies on nothing.
LEMMA UserText ==
  ASSUME NEW p \in Procs, call'[p].at = "user"
  PROVE  TransferOK(p)'
  BY DEF TransferOK, At, IoctlLabels, HeadLabels

\* The ioctl of p keeps what p relies on (message_slot.c:295-355).
LEMMA OwnIoctlText ==
  ASSUME StateInv, TransferInv, loaded # "out", NEW p \in Procs, IoctlStep(p), UNCHANGED exclusion
  PROVE  TransferOK(p)'
<1> USE DEF StateInv
<1>1. Step(p) /\ TransferOK(p)
  BY DEF Step, TransferInv
<1>2. call'[p].buffer = <<>>
  BY <1>1, IoctlBuffer DEF TransferOK, At
<1>3. ~At(p, MessageLabels)'
  <2>1. At(p, MessageLabels) => call[p].at \notin IoctlLabels \cup {"user"}
    BY DEF At, MessageLabels, IoctlLabels
  <2>2. call[p].at \in IoctlLabels \cup {"user"}
    BY ControlsEffect, SearchEffect, AddNextEffect, InitNextEffect, NewListEffect, SetIdEffect,
       SetFileEffect, PublishEffect DEF IoctlStep, At, IoctlLabels
  <2>3. ASSUME Writes(p) \/ Reads(p), At(p, MessageLabels)' PROVE FALSE
    <3>1. ~Controls(p) \/ call'[p].at \in IoctlLabels \cup {"user"}
      BY ControlsEffect, UserType DEF IoctlLabels
    <3>2. call[p].at = "user"
      BY <2>3, EntersText
    <3>3. Controls(p)
      BY <3>2, SearchEffect, AddNextEffect, InitNextEffect, NewListEffect, SetIdEffect,
         SetFileEffect, PublishEffect DEF IoctlStep, At
    <3> QED
      BY <2>3, <3>1, <3>3 DEF At, MessageLabels, IoctlLabels
  <2> QED
    BY <1>1, <2>1, <2>2, <2>3, MessageSteps
<1>4. ASSUME At(p, HeadLabels)'
      PROVE  heap'[call'[p].temp].message_length = 0
  <2>1. CASE NewList(p)
    BY <1>4, <2>1, NewListText, UserType DEF At, HeadLabels
  <2>2. CASE At(p, HeadLabels) /\ ~NewList(p)
    <3>1. call'[p].temp = call[p].temp
      <4>1. ~Publish(p)
        BY <1>4, PublishEffect, UserType DEF At, HeadLabels
      <4> QED
        BY <1>1, <2>2, <4>1, HeadStep
    <3>2. PICK n \in Nodes : n = call[p].temp /\ heap[n] # None /\ heap[n].message_length = 0
      BY <1>1, <2>2, ValidType DEF ListInv, WalkOK, Holds, TransferOK, At
    <3>3. SameText(n)
      BY <1>1, <2>2, <3>2, TextsKept DEF InitOf, At, HeadLabels
    <3> QED
      BY <3>1, <3>2, <3>3 DEF SameText
  <2>3. At(p, HeadLabels) \/ NewList(p)
    <3>1. Controls(p) \/ Search(p) \/ AddNext(p) \/ InitNext(p) \/ Publish(p) => ~At(p, HeadLabels)'
      BY ControlsEffect, SearchEffect, AddNextEffect, InitNextEffect, PublishEffect, UserType
      DEF Goes_on, At, HeadLabels
    <3>2. ASSUME SetId(p) PROVE At(p, HeadLabels)
      <4>1. call'[p].at = (IF At(p, {"head_id"}) THEN "head_file" ELSE "set_file")
        BY <3>2, SetIdEffect DEF Goes_on
      <4> QED
        BY <1>4, <4>1 DEF At, HeadLabels
    <3>3. ASSUME SetFile(p) PROVE At(p, HeadLabels)
      BY <1>4, <3>3, SetFileEffect, UserType DEF At, HeadLabels
    <3> QED
      BY <1>4, <3>1, <3>2, <3>3 DEF IoctlStep
  <2> QED
    BY <2>1, <2>2, <2>3
<1> QED
  BY <1>2, <1>3, <1>4 DEF TransferOK, At, MessageLabels

\* The write of p keeps what p relies on (message_slot.c:217-231).
LEMMA OwnStoreText ==
  ASSUME StateInv, TransferInv, NEW p \in Procs, SetLength(p) \/ StoreByte(p)
  PROVE  TransferOK(p)'
<1> USE DEF StateInv
<1>1. PICK n : n = Current(p)
  OBVIOUS
<1>2. CASE call'[p].at = "user"
  BY <1>2, UserText
<1>3. CASE call'[p].at # "user"
  <2>1. call'[p].at = "store" /\ Current(p)' = n
    BY <1>1, <1>3, SetLengthText, StoreByteText, UserType DEF Current
  <2>2. heap'[n].message_length = Len(call'[p].buffer) /\ Transferred(p, n)'
    <3>1. CASE SetLength(p)
      BY <1>1, <3>1, SetLengthText DEF Transferred
    <3>2. CASE StoreByte(p)
      <4>1. /\ heap[n].message_length = Len(call[p].buffer)
            /\ \A j \in 1..call[p].i - 1 : heap[n].message[j] = call[p].buffer[j]
        BY <1>1, <3>2, StoreByteText DEF TransferInv, TransferOK, Transferred
      <4>2. /\ call[p].i \in 1..Len(call[p].buffer) /\ Len(call[p].buffer) \in 1..BUFFER_LENGTH
        BY <3>2, StoreByteText DEF CallInv, CallOK, At
      <4>3. PICK i \in 1..BUFFER_LENGTH : i = call[p].i
        BY <4>2, BoundsAssumption
      <4>4. /\ heap'[n].message_length = heap[n].message_length
            /\ \A j \in 1..BUFFER_LENGTH :
                 heap'[n].message[j] = IF j = i THEN call[p].buffer[i] ELSE heap[n].message[j]
            /\ call'[p].i = i + 1 /\ call'[p].buffer = call[p].buffer
        BY <1>1, <1>3, <3>2, <4>3, StoreByteText, UserType
      <4>5. \A j \in 1..i : j \in 1..BUFFER_LENGTH /\ (j # i => j \in 1..i - 1)
        BY BoundsAssumption
      <4>6. ASSUME NEW j \in 1..i PROVE heap'[n].message[j] = call[p].buffer[j]
        BY <4>1, <4>3, <4>4, <4>5
      <4>7. 1..call'[p].i - 1 = 1..i
        BY <4>4
      <4> QED
        BY <4>1, <4>4, <4>6, <4>7 DEF Transferred
    <3> QED
      BY <3>1, <3>2
  <2> QED
    BY <2>1, <2>2 DEF TransferOK, At, IoctlLabels, HeadLabels
<1> QED
  BY <1>2, <1>3

\* The read of p keeps what p relies on (message_slot.c:124-157).
LEMMA OwnCopyText ==
  ASSUME StateInv, TransferInv, NEW p \in Procs, ReadLength(p) \/ CopyByte(p)
  PROVE  TransferOK(p)'
<1> USE DEF StateInv
<1>1. PICK n : n = Current(p)
  OBVIOUS
<1>2. CASE call'[p].at = "user"
  BY <1>2, UserText
<1>3. CASE call'[p].at # "user"
  <2>1. call'[p].at = "copy" /\ Current(p)' = n /\ UNCHANGED heap
    BY <1>1, <1>3, ReadLengthText, CopyByteText, UserType DEF Current, Still
  <2>2. /\ call'[p].temp = n /\ heap[n].message_length = call'[p].size
        /\ Len(call'[p].buffer) = call'[p].i - 1
        /\ \A j \in 1..call'[p].i - 1 : heap[n].message[j] = call'[p].buffer[j]
    <3>1. CASE ReadLength(p)
      <4>1. call[p].buffer = <<>>
        BY <3>1, ReadLengthText DEF TransferInv, TransferOK, At
      <4> QED
        BY <1>1, <1>3, <3>1, <4>1, ReadLengthText, UserType
    <3>2. CASE CopyByte(p)
      <4>1. /\ call[p].temp = n /\ heap[n].message_length = call[p].size
            /\ Len(call[p].buffer) = call[p].i - 1
            /\ \A j \in 1..call[p].i - 1 : heap[n].message[j] = call[p].buffer[j]
        BY <1>1, <3>2, CopyByteText DEF TransferInv, TransferOK, Transferred
      <4>2. PICK i \in Nat \ {0}, old \in Seq(Nat) : i = call[p].i /\ old = call[p].buffer
        <5>1. call[p].i \in Nat /\ call[p].buffer \in Seq(Nat)
          BY DEF CallInv, TypeInv, SystemCall
        <5>2. call[p].i # 0
          <6>1. call[p].i \in 1..call[p].size /\ call[p].size \in Nat
            BY <3>2, CopyByteText, BoundsAssumption DEF CallInv, CallOK, At
          <6> QED
            BY <6>1
        <5> QED
          BY <5>1, <5>2
      <4>3. PICK byte : byte = heap[n].message[i]
        OBVIOUS
      <4>4. PICK copied \in Seq(Nat) :
              /\ copied = Append(old, byte)
              /\ call'[p].i = i + 1 /\ call'[p].buffer = copied
              /\ call'[p].temp = n /\ call'[p].size = call[p].size
        BY <1>3, <3>2, <4>1, <4>2, <4>3, CopyByteText, UserType
      <4>5. n \in Nodes /\ heap[n] \in MessageFile
        BY <3>2, <4>1, CopyByteText, ValidType DEF CallInv
      <4>6. i \in 1..BUFFER_LENGTH
        <5>1. call[p].i \in 1..call[p].size /\ call[p].size \in 1..BUFFER_LENGTH
          BY <3>2, CopyByteText DEF CallInv, CallOK, At
        <5> QED
          BY <4>2, <5>1, BoundsAssumption
      <4>7. byte \in Nat
        BY <4>3, <4>5, <4>6 DEF MessageFile
      <4>8. /\ Len(copied) = Len(old) + 1 /\ copied[Len(old) + 1] = byte
            /\ \A j \in 1..Len(old) : copied[j] = old[j]
        BY <4>4, <4>7, AppendProperties
      <4>9. Len(old) = i - 1 /\ call'[p].i - 1 = i
        BY <4>1, <4>2, <4>4
      <4>10. \A j \in 1..i : j = i \/ j \in 1..i - 1
        BY <4>2
      <4>11. \A j \in 1..i : heap[n].message[j] = copied[j]
        <5> SUFFICES ASSUME NEW j \in 1..i PROVE heap[n].message[j] = copied[j]
          OBVIOUS
        <5>1. CASE j = i
          <6>1. Len(old) + 1 = i
            BY <4>2, <4>9
          <6> QED
            BY <4>3, <4>8, <5>1, <6>1
        <5>2. CASE j \in 1..i - 1
          BY <4>1, <4>2, <4>8, <4>9, <5>2
        <5> QED
          BY <4>10, <5>1, <5>2
      <4>12. Len(copied) = i
        BY <4>2, <4>8, <4>9
      <4> QED
        BY <4>1, <4>4, <4>9, <4>11, <4>12
    <3> QED
      BY <3>1, <3>2
  <2> QED
    BY <2>1, <2>2 DEF TransferOK, Transferred, At, IoctlLabels, HeadLabels
<1> QED
  BY <1>2, <1>3

\* Any step of p keeps what p relies on.
LEMMA OwnText ==
  ASSUME StateInv, TransferInv, loaded # "out", NEW p \in Procs, Step(p), UNCHANGED exclusion
  PROVE  TransferOK(p)'
<1>1. CASE Opens(p) \/ Closes(p) \/ Oops(p)
  <2>1. call'[p].at = "user"
    BY <1>1, UserType
    DEF Opens, open_dev, Closes, release_dev, Oops, Return, StateInv, CallInv, TypeInv, At
  <2> QED
    BY <2>1, UserText
<1>2. CASE Writes(p) \/ Reads(p)
  BY <1>2, EntersText, UserText, UserType
  DEF StateInv, TransferOK, At, IoctlLabels, HeadLabels
<1> QED
  BY <1>1, <1>2, OwnIoctlText, OwnStoreText, OwnCopyText DEF Step, Transfers

TransferSafe == Careful => TransferInv

\* TransferInv is inductive, given the lists, the pointers and the members.
LEMMA TransferStep ==
  ASSUME CallInv, DeviceInv, InfoOK, MemberOK, TransferSafe, [Next]_vars
  PROVE  TransferSafe'
<1> SUFFICES ASSUME Careful' PROVE TransferInv'
  BY DEF TransferSafe
<1>1. UNCHANGED exclusion /\ Careful
  BY ProcessCases DEF Careful
<1>2. StateInv /\ TransferInv
  BY <1>1 DEF StateInv, DeviceInv, InfoOK, MemberOK, TransferSafe, Careful
<1>3. ASSUME NEW p \in Procs, Step(p) PROVE TransferInv'
  <2>1. loaded # "out"
    BY <1>2, <1>3, Loaded DEF Step, StateInv
  <2> QED
    BY <1>1, <1>2, <1>3, <2>1, ApartStep, OthersText, OwnText DEF TransferInv
<1>4. ASSUME UNCHANGED <<heap, info, call>> PROVE TransferInv'
  BY <1>2, <1>4 DEF TransferInv, MessagesApart, TransferOK, Transferred, At, Current
<1>5. CASE Superuser
  <2>1. UNCHANGED <<info, call>>
    BY <1>1, <1>2, <1>5, SuperuserEffect DEF StateInv
  <2>2. CASE \A p \in Procs : call[p].at = "user"
    BY <2>1, <2>2, UserText DEF TransferInv, MessagesApart, At, MessageLabels
  <2> QED
    BY <1>1, <1>2, <1>4, <1>5, <2>1, <2>2, SuperuserEffect DEF StateInv
<1>6. CASE UNCHANGED slot
  BY <1>4, <1>6 DEF slot
<1> QED
  BY <1>1, <1>3, <1>5, <1>6, ProcessCases DEF Step

\* Nobody reads or writes at the start.
LEMMA TransferInit == Init => TransferSafe
<1> SUFFICES ASSUME Init PROVE TransferInv
  BY DEF TransferSafe
<1>1. \A p \in Procs : call[p].at = "user"
  BY UserType DEF Init, SlotInit
<1> QED
  BY <1>1 DEF TransferInv, MessagesApart, TransferOK, At, MessageLabels, IoctlLabels, HeadLabels

\* Between its two loops a read or a write finds its message file as it left it:
\* what is stored is the front of the message, what is copied the front of what
\* is stored, when the callers keep the transfers of one message file apart.
THEOREM TransferInvariant == Spec => []TransferSafe
  BY TransferInit, TransferStep, CallInvariant, ListInvariant, InfoInvariant, MemberInvariant, PTL
  DEF Spec

-----------------------------------------------------------------------------
(* The registers.                                                          *)

\* n is the message file of channel c on device m.
Holder(n, m, c) ==
  loaded # "out" /\ n \in Linked(m) /\ ~Raw(n) /\ heap[n].message_file_id = c

\* A channel without a message file is empty.
LEMMA NoHolder ==
  ASSUME NEW m, NEW c \in Channels
  PROVE  (\A n : ~Holder(n, m, c)) => MessagesOf(m)[c] = None
<1> DEFINE live == IF loaded = "out" THEN {} ELSE {n \in Linked(m) : ~Raw(n)}
           own == {n \in live : heap[n].message_file_id = c}
<1> SUFFICES ASSUME \A n : ~Holder(n, m, c) PROVE MessagesOf(m)[c] = None
  OBVIOUS
<1>1. own = {}
  BY DEF Holder
<1> QED
  BY <1>1 DEF MessagesOf

\* The register of a channel is the message of its message file.
LEMMA OneHolder ==
  ASSUME NEW m \in Minors, NEW c \in Channels, NEW n
  PROVE  ListInv /\ Holder(n, m, c) => MessagesOf(m)[c] = MessageOf(n)
<1> DEFINE live == IF loaded = "out" THEN {} ELSE {k \in Linked(m) : ~Raw(k)}
           own == {k \in live : heap[k].message_file_id = c}
<1> SUFFICES ASSUME ListInv, Holder(n, m, c) PROVE MessagesOf(m)[c] = MessageOf(n)
  OBVIOUS
<1>1. own = {n}
  BY DEF Holder, ListInv, ShapeInv, ListOK
<1>2. MessagesOf(m)[c] = IF own = {} THEN None ELSE MessageOf(CHOOSE k \in own : TRUE)
  BY DEF MessagesOf
<1>3. (CHOOSE k \in own : TRUE) = n
  BY <1>1
<1> QED
  BY <1>1, <1>2, <1>3

\* The same of the next state.
LEMMA RegisterAfter ==
  ASSUME NEW m \in Minors, NEW c \in Channels, NEW n
  PROVE  /\ ((\A k : ~Holder(k, m, c)) => MessagesOf(m)[c] = None)'
         /\ (ListInv /\ Holder(n, m, c) => MessagesOf(m)[c] = MessageOf(n))'
<1>1. /\ (\A k : ~Holder(k, m, c)) => MessagesOf(m)[c] = None
      /\ ListInv /\ Holder(n, m, c) => MessagesOf(m)[c] = MessageOf(n)
  BY NoHolder, OneHolder
<1> QED
  BY <1>1, PTL

\* The message of a file that is being written, and of one that is not.
LEMMA MessageStored ==
  ASSUME NEW q \in Procs, NEW n
  PROVE  MessagesApart /\ At(q, {"store"}) /\ Current(q) = n => MessageOf(n) = call[q].buffer
<1> SUFFICES ASSUME MessagesApart, At(q, {"store"}), Current(q) = n
             PROVE  MessageOf(n) = call[q].buffer
  OBVIOUS
<1> DEFINE Storing(p) == At(p, {"store"}) /\ Current(p) = n
<1>1. \A p \in Procs : Storing(p) => p = q
  BY DEF MessagesApart, At, MessageLabels
<1>2. Storing(q)
  OBVIOUS
<1>3. MessageOf(n) = call[CHOOSE p \in Procs : Storing(p)].buffer
  BY <1>2 DEF MessageOf
<1> HIDE DEF Storing
<1>4. (CHOOSE p \in Procs : Storing(p)) = q
  BY <1>1, <1>2
<1> QED
  BY <1>3, <1>4

AtRest(n) == \A p \in Procs : ~(At(p, {"store"}) /\ Current(p) = n)

\* A message that nobody writes is what is stored.
LEMMA MessageAtRest ==
  ASSUME NEW n
  PROVE  AtRest(n) =>
           MessageOf(n) = IF heap[n].message_length = 0 THEN None
                          ELSE SubSeq(heap[n].message, 1, heap[n].message_length)
  BY DEF AtRest, MessageOf

\* A message file of length 0 has no message.
LEMMA EmptyMessage ==
  ASSUME NEW n
  PROVE  StateInv /\ TransferInv /\ heap[n].message_length = 0 => MessageOf(n) = None
<1> SUFFICES ASSUME StateInv, TransferInv, heap[n].message_length = 0 PROVE MessageOf(n) = None
  OBVIOUS
<1>1. ASSUME NEW p \in Procs, At(p, {"store"}), Current(p) = n PROVE FALSE
  <2>1. 0 = Len(call[p].buffer)
    BY <1>1 DEF TransferInv, TransferOK
  <2>2. Len(call[p].buffer) \in 1..BUFFER_LENGTH
    BY <1>1 DEF StateInv, CallInv, CallOK, At
  <2> QED
    BY <2>1, <2>2
<1>2. AtRest(n)
  BY <1>1 DEF AtRest
<1> QED
  BY <1>2, MessageAtRest

\* What is known of a message, of the next state.
LEMMA MessageAfter ==
  ASSUME NEW q \in Procs, NEW n
  PROVE  /\ (MessagesApart /\ At(q, {"store"}) /\ Current(q) = n => MessageOf(n) = call[q].buffer)'
         /\ (AtRest(n) =>
               MessageOf(n) = IF heap[n].message_length = 0 THEN None
                              ELSE SubSeq(heap[n].message, 1, heap[n].message_length))'
<1>1. /\ MessagesApart /\ At(q, {"store"}) /\ Current(q) = n => MessageOf(n) = call[q].buffer
      /\ AtRest(n) =>
           MessageOf(n) = IF heap[n].message_length = 0 THEN None
                          ELSE SubSeq(heap[n].message, 1, heap[n].message_length)
  BY MessageStored, MessageAtRest
<1> QED
  BY <1>1, PTL

\* The same of the next state.
LEMMA EmptyAfter ==
  ASSUME NEW n
  PROVE  (StateInv /\ TransferInv /\ heap[n].message_length = 0 => MessageOf(n) = None)'
<1>1. StateInv /\ TransferInv /\ heap[n].message_length = 0 => MessageOf(n) = None
  BY EmptyMessage
<1> QED
  BY <1>1, PTL

-----------------------------------------------------------------------------
(* Which message files come into the lists.                                *)

\* A new link is to new memory.
LEMMA NextBack ==
  ASSUME StateInv, NEW p \in Procs, Step(p), UNCHANGED exclusion,
         NEW n \in Nodes, heap'[n] # None, heap'[n].next \in Nodes
  PROVE  \/ heap[n] # None /\ heap[n].next = heap'[n].next
         \/ heap[heap'[n].next] = None
<1> USE DEF StateInv
<1>1. CASE heap'[n] = heap[n]
  BY <1>1
<1>2. CASE Transfers(p)
  BY <1>2, TransfersEffect DEF Elsewhere, SameFiles
<1>3. CASE Controls(p) \/ Search(p) \/ SetId(p) \/ SetFile(p) \/ Publish(p) \/ Oops(p)
  BY <1>1, <1>3, ControlsEffect, SearchEffect, SetIdEffect, SetFileEffect, PublishEffect, OopsEffect
  DEF Still
<1>4. CASE AddNext(p)
  BY <1>1, <1>4, AddNextLink DEF NewMemory
<1>5. CASE InitNext(p)
  <2>1. PICK r \in Nodes : heap'[r].next = NULL /\ \A k \in Nodes \ {r} : heap'[k] = heap[k]
    BY <1>5, InitNextEffect
  <2> QED
    BY <1>1, <2>1, PointersAssumption
<1>6. CASE NewList(p)
  BY <1>1, <1>6, NewListEffect DEF NewMemory
<1> QED
  BY <1>2, <1>3, <1>4, <1>5, <1>6 DEF Step, IoctlStep

\* Only new memory comes into a list, but for what is published.
LEMMA LinkedBack ==
  ASSUME StateInv, NEW p \in Procs, Step(p), ~Publish(p), UNCHANGED exclusion, NEW m \in Minors
  PROVE  Linked(m)' \subseteq Linked(m) \cup Unused
<1> USE DEF StateInv
<1>1. devices_info' = devices_info
  BY TransfersEffect, ControlsEffect, SearchEffect, AddNextEffect, InitNextEffect, NewListEffect,
     SetIdEffect, SetFileEffect, OopsEffect DEF Step, IoctlStep, Elsewhere, Still
<1>2. PICK S : S = Linked(m) \cup Unused
  OBVIOUS
<1>3. /\ \A n \in S : n \in Nodes
      /\ \A n \in S : heap[n] # None /\ heap[n].next \in Nodes => heap[n].next \in S
      /\ \A n \in Nodes : heap[n] = None => n \in S
      /\ devices_info[m] \in Nodes => devices_info[m] \in S
  BY <1>2, LinkedOwn DEF Closed, Unused
<1>4. ASSUME NEW n \in S, heap'[n] # None, heap'[n].next \in Nodes PROVE heap'[n].next \in S
  BY <1>3, <1>4, NextBack
<1>5. Closed(S, heap')
  BY <1>4 DEF Closed
<1>6. LinkedFrom(devices_info'[m], heap') \subseteq S
  BY <1>1, <1>3, <1>5, LinkedLeast
<1> QED
  BY <1>2, <1>6 DEF Linked

\* What is published is one message file.
LEMMA LinkedPublish ==
  ASSUME StateInv, NEW p \in Procs, Publish(p), NEW m \in Minors
  PROVE  Linked(m)' \subseteq Linked(m) \cup {call[p].temp}
<1> USE DEF StateInv
<1>1. UNCHANGED heap /\ devices_info' = [devices_info EXCEPT ![Minor(p)] = call[p].temp]
      /\ At(p, {"publish"}) /\ Minor(p) \in Minors
  BY PublishEffect
<1>2. Linked(m)' = LinkedFrom(devices_info'[m], heap)
  BY <1>1 DEF Linked
<1>3. CASE m = Minor(p)
  <2>1. devices_info'[m] = call[p].temp
    BY <1>1, <1>3 DEF CallInv, TypeInv
  <2>2. Closed({call[p].temp}, heap)
    BY <1>1, PointersAssumption DEF ListInv, WalkOK, At, HeadLabels, Closed
  <2>3. LinkedFrom(devices_info'[m], heap) \subseteq {call[p].temp}
    BY <2>1, <2>2, LinkedLeast
  <2> QED
    BY <1>2, <2>3
<1>4. CASE m # Minor(p)
  <2>1. devices_info'[m] = devices_info[m]
    BY <1>1, <1>4 DEF CallInv, TypeInv
  <2> QED
    BY <1>2, <2>1 DEF Linked
<1> QED
  BY <1>3, <1>4

\* A message file that is set up no more was set up just now.
LEMMA InitEnds ==
  ASSUME StateInv, NEW p \in Procs, Step(p), UNCHANGED exclusion, NEW n \in Nodes, Raw(n), ~Raw(n)'
  PROVE  InitNext(p) /\ InitOf(p, n)
<1> USE DEF StateInv
<1>1. PICK q \in Procs : InitOf(q, n)
  BY DEF Raw, InitOf
<1>2. Walks(q) /\ At(q, {"init"})
  BY <1>1 DEF InitOf, At, Walks, TailLabels
<1>3. PICK t \in Nodes : t = call[q].temp /\ heap[t] # None
  BY <1>2, ReachOwn, ValidType DEF ListInv, ApartOK, Whole
<1>4. CASE q # p
  <2>1. call'[q] = call[q]
    BY <1>4, StepEffect DEF Alone
  <2>2. heap'[t].next = n
    BY <1>1, <1>3, LinksStay DEF InitOf
  <2> QED
    BY <1>2, <1>3, <2>1, <2>2 DEF Raw, At
<1>5. CASE q = p
  <2>1. ~Oops(p)
    <3>1. ~At(p, {"append"}) /\ At(p, IoctlLabels)
      BY <1>2, <1>5 DEF At, IoctlLabels
    <3> QED
      BY <3>1, OopsEffect, FollowedValid
  <2>2. ~Transfers(p)
    BY <1>2, <1>5, TransfersEffect DEF Elsewhere, At, IoctlLabels
  <2>3. ~(Controls(p) \/ Search(p) \/ AddNext(p) \/ NewList(p) \/ SetId(p) \/ SetFile(p) \/ Publish(p))
    BY <1>2, <1>5, ControlsEffect, SearchEffect, AddNextEffect, NewListEffect, SetIdEffect,
       SetFileEffect, PublishEffect DEF At
  <2> QED
    BY <1>1, <1>5, <2>1, <2>2, <2>3 DEF Step, IoctlStep
<1> QED
  BY <1>4, <1>5

\* A new list is in no device yet.
LEMMA NewListLinks ==
  ASSUME StateInv, loaded # "out", NEW p \in Procs, NewList(p), NEW m \in Minors
  PROVE  Linked(m)' = Linked(m)
<1> USE DEF StateInv
<1>1. devices_info' = devices_info /\ \A k \in Nodes : heap[k] # None => heap'[k] = heap[k]
  BY NewListEffect DEF NewMemory
<1>2. \A k \in Linked(m) : k \in Nodes /\ heap[k] # None
  BY ValidType DEF ListInv, ShapeInv, ListOK, Whole
<1>3. \A k \in Linked(m) : SameLink(k, heap, heap')
  BY <1>1, <1>2 DEF SameLink
<1>4. LinkedFrom(devices_info[m], heap') = LinkedFrom(devices_info[m], heap)
  BY <1>3, LinkedSame DEF Linked
<1> QED
  BY <1>1, <1>4 DEF Linked

\* What becomes the message file of a channel is empty.
LEMMA NewHolder ==
  ASSUME StateInv, StateInv', TransferInv, loaded # "out", NEW p \in Procs, Step(p),
         UNCHANGED exclusion, NEW m \in Minors, NEW c, NEW n, Holder(n, m, c)', ~Holder(n, m, c)
  PROVE  heap'[n].message_length = 0
<1> USE DEF StateInv
<1>1. /\ n \in Linked(m)' /\ ~Raw(n)' /\ heap'[n].message_file_id = c
      /\ n \in Nodes /\ heap'[n] # None
  <2>1. loaded' # "out" /\ n \in Linked(m)' /\ ~Raw(n)' /\ heap'[n].message_file_id = c
    BY DEF Holder
  <2>2. Linked(m)' \subseteq Nodes
    BY LinkedClosed DEF Linked
  <2>3. Valid(n)'
    BY <2>1 DEF ListInv, ShapeInv, ListOK, Whole
  <2> QED
    BY <2>1, <2>2, <2>3 DEF Valid, Unused
<1>2. CASE heap[n] = None
  <2>1. CASE AddNext(p)
    BY <1>1, <1>2, <2>1, AddNextLink DEF Raw, InitOf
  <2>2. CASE NewList(p)
    <3>1. n \in Linked(m)
      BY <1>1, <2>2, NewListLinks
    <3> QED
      BY <1>2, <3>1, ValidType DEF ListInv, ShapeInv, ListOK, Whole
  <2>3. CASE Transfers(p)
    BY <1>1, <1>2, <2>3, TransfersEffect DEF Elsewhere, SameFiles
  <2>4. CASE Controls(p) \/ Search(p) \/ InitNext(p) \/ SetId(p) \/ SetFile(p) \/ Publish(p) \/ Oops(p)
    BY <1>1, <1>2, <2>4, ControlsEffect, SearchEffect, InitNextEffect, SetIdEffect, SetFileEffect,
       PublishEffect, OopsEffect DEF Still
  <2> QED
    BY <2>1, <2>2, <2>3, <2>4 DEF Step, IoctlStep
<1>3. CASE heap[n] # None /\ Raw(n)
  <2>1. InitNext(p) /\ InitOf(p, n)
    BY <1>1, <1>3, InitEnds
  <2> QED
    BY <1>1, <2>1, InitText DEF InitOf
<1>4. CASE heap[n] # None /\ ~Raw(n)
  <2>1. Valid(n) /\ heap[n].message_file_id = c
    BY <1>1, <1>4, ValidType, Stays
  <2>2. n \notin Linked(m)
    BY <1>4, <2>1 DEF Holder
  <2>3. Publish(p)
    BY <1>1, <1>4, <2>2, LinkedBack DEF Unused
  <2>4. n = call[p].temp /\ UNCHANGED heap /\ At(p, HeadLabels)
    BY <1>1, <2>2, <2>3, LinkedPublish, PublishEffect DEF At, HeadLabels
  <2> QED
    BY <2>4 DEF TransferInv, TransferOK
<1> QED
  BY <1>2, <1>3, <1>4

-----------------------------------------------------------------------------
(* Which messages change.                                                  *)

\* A message is the front of the buffer that has its bytes.
LEMMA Front ==
  ASSUME NEW L \in Nat, NEW s \in [1..L -> Nat], NEW b \in Seq(Nat), Len(b) \in 1..L,
         \A j \in 1..Len(b) : s[j] = b[j]
  PROVE  SubSeq(s, 1, Len(b)) = b
<1>1. s \in Seq(Nat) /\ Len(s) = L
  OBVIOUS
<1>2. /\ SubSeq(s, 1, Len(b)) \in Seq(Nat) /\ Len(SubSeq(s, 1, Len(b))) = Len(b)
      /\ \A j \in 1..Len(b) : SubSeq(s, 1, Len(b))[j] = s[j]
  BY <1>1
<1> QED
  BY <1>2

\* When a write ends, what is stored is what it wrote.
LEMMA StoreEnds ==
  ASSUME StateInv, StateInv', TransferInv, NEW p \in Procs, Step(p), UNCHANGED exclusion,
         StoreByte(p), call'[p] = User, NEW n, n = Current(p)
  PROVE  MessageOf(n)' = call[p].buffer
<1> USE DEF StateInv
<1>1. PICK b \in Seq(Nat) : b = call[p].buffer /\ Len(b) \in 1..BUFFER_LENGTH
  BY StoreByteText DEF CallInv, CallOK, TypeInv, SystemCall, At
<1>2. n \in Nodes /\ heap[n] # None /\ call[p].i = Len(b)
  BY <1>1, StoreByteText, ValidType, UserType DEF At
<1>3. /\ heap[n].message_length = Len(b)
      /\ \A j \in 1..Len(b) - 1 : heap[n].message[j] = b[j]
  BY <1>1, <1>2, StoreByteText DEF TransferInv, TransferOK, Transferred
<1>4. /\ heap'[n].message_length = Len(b)
      /\ \A j \in 1..BUFFER_LENGTH :
           heap'[n].message[j] = IF j = Len(b) THEN b[j] ELSE heap[n].message[j]
  BY <1>1, <1>2, <1>3, StoreByteText
<1>5. BUFFER_LENGTH \in Nat
  BY BoundsAssumption
<1>6. ASSUME NEW j \in 1..Len(b) PROVE heap'[n].message[j] = b[j]
  <2>1. j \in 1..BUFFER_LENGTH /\ (j # Len(b) => j \in 1..Len(b) - 1)
    BY <1>1, <1>5
  <2> QED
    BY <1>3, <1>4, <2>1
<1>7. heap'[n] \in MessageFile
  <2>1. heap'[n] # None
    BY <1>2, Changes
  <2> QED
    BY <1>2, <2>1 DEF CallInv, TypeInv
<1>8. SubSeq(heap'[n].message, 1, Len(b)) = b
  <2>1. PICK s \in [1..BUFFER_LENGTH -> Nat] : s = heap'[n].message
    BY <1>7 DEF MessageFile
  <2> QED
    BY <1>1, <1>5, <1>6, <2>1, Front
<1>9. AtRest(n)'
  <2>1. ASSUME NEW q \in Procs \ {p}, At(q, {"store"})' PROVE Current(q)' # n
    <3>1. At(q, {"store"}) /\ call[q].at # "user" /\ Current(q)' = Current(q)
      BY <2>1, StepEffect, OtherCalls DEF At, Alone
    <3> QED
      BY <3>1, StoreByteText DEF TransferInv, MessagesApart, At, MessageLabels
  <2>2. ~At(p, {"store"})'
    BY UserType DEF At
  <2> QED
    BY <2>1, <2>2 DEF AtRest
<1>10. MessageOf(n)' = IF heap'[n].message_length = 0 THEN None
                       ELSE SubSeq(heap'[n].message, 1, heap'[n].message_length)
  BY <1>9, MessageAfter
<1>11. Len(b) # 0
  BY <1>1
<1> QED
  BY <1>1, <1>4, <1>8, <1>10, <1>11

\* A message changes only when a write to it sets the length.
LEMMA MessageKept ==
  ASSUME StateInv, StateInv', TransferInv, TransferInv', NEW p \in Procs, Step(p),
         UNCHANGED exclusion, NEW n \in Nodes, heap[n] # None, ~Raw(n),
         ~(SetLength(p) /\ Current(p) = n)
  PROVE  MessageOf(n)' = MessageOf(n)
<1> USE DEF StateInv
<1>1. ASSUME NEW q \in Procs, At(q, {"store"}), Current(q) = n, At(q, {"store"})',
             Current(q)' = n, call'[q].buffer = call[q].buffer
      PROVE  MessageOf(n)' = MessageOf(n)
  BY <1>1, MessageStored, MessageAfter DEF TransferInv
<1>2. ASSUME NEW q \in Procs \ {p}, At(q, {"store"}), Current(q) = n
      PROVE  MessageOf(n)' = MessageOf(n)
  <2>1. call'[q] = call[q] /\ Current(q)' = n
    BY <1>2, StepEffect, OtherCalls DEF At
  <2> QED
    BY <1>1, <1>2, <2>1 DEF At
<1>3. CASE At(p, {"store"}) /\ Current(p) = n
  <2>1. StoreByte(p)
    <3>1. ~Oops(p)
      <4>1. ~At(p, {"append"}) /\ Followed(p) = {n}
        BY <1>3 DEF Followed, At
      <4> QED
        BY <4>1, OopsEffect, ValidType
    <3>2. call[p].at \notin IoctlLabels \cup {"user"}
      BY <1>3 DEF At, IoctlLabels
    <3>3. ~IoctlStep(p)
      BY <3>2, ControlsEffect, SearchEffect, AddNextEffect, InitNextEffect, NewListEffect,
         SetIdEffect, SetFileEffect, PublishEffect DEF IoctlStep, At, IoctlLabels
    <3>4. ~(Writes(p) \/ Reads(p) \/ SetLength(p) \/ ReadLength(p) \/ CopyByte(p))
      BY <1>3, EntersText, SetLengthText, ReadLengthText, CopyByteText DEF At
    <3>5. ~(Opens(p) \/ Closes(p))
      BY <3>2 DEF Opens, open_dev, Closes, release_dev, At
    <3> QED
      BY <3>1, <3>3, <3>4, <3>5 DEF Step, Transfers
  <2>2. CASE call'[p] = User
    BY <1>3, <2>1, <2>2, StoreEnds, MessageStored DEF TransferInv
  <2>3. CASE call'[p] # User
    <3>1. /\ At(p, {"store"})' /\ call'[p].file = call[p].file
          /\ call'[p].buffer = call[p].buffer /\ UNCHANGED info
      BY <2>1, <2>3, StoreByteText DEF At
    <3> QED
      BY <1>1, <1>3, <3>1 DEF Current
  <2> QED
    BY <2>2, <2>3
<1>4. CASE AtRest(n)
  <2>1. AtRest(n)'
    <3>1. ASSUME NEW q \in Procs \ {p}, At(q, {"store"})', Current(q)' = n PROVE FALSE
      <4>1. At(q, {"store"}) /\ call[q].at # "user" /\ Current(q)' = Current(q)
        BY <3>1, StepEffect, OtherCalls DEF At, Alone
      <4> QED
        BY <1>4, <3>1, <4>1 DEF AtRest
    <3>2. ASSUME At(p, {"store"})', Current(p)' = n PROVE FALSE
      <4>1. call'[p].at = "store" /\ At(p, MessageLabels)' /\ call'[p] # User
        BY <3>2, UserType DEF At, MessageLabels
      <4>2. ~(Writes(p) \/ Reads(p) \/ ReadLength(p) \/ CopyByte(p))
        BY <4>1, EntersText, ReadLengthText, CopyByteText
      <4>3. /\ SetLength(p) \/ StoreByte(p)
            /\ UNCHANGED info /\ call'[p].file = call[p].file
        BY <4>1, <4>2, MessageSteps
      <4>4. Current(p) = n
        BY <3>2, <4>3 DEF Current
      <4> QED
        BY <1>4, <4>3, <4>4, StoreByteText DEF AtRest
    <3> QED
      BY <3>1, <3>2 DEF AtRest
  <2>2. SameText(n)
    <3>1. CASE At(p, {"set_length"}) /\ Current(p) = n
      <4>1. call[p].at \notin IoctlLabels \cup {"user"}
        BY <3>1 DEF At, IoctlLabels
      <4>2. ~IoctlStep(p) /\ ~StoreByte(p)
        BY <3>1, <4>1, ControlsEffect, SearchEffect, AddNextEffect, InitNextEffect, NewListEffect,
           SetIdEffect, SetFileEffect, PublishEffect, StoreByteText DEF IoctlStep, At, IoctlLabels
      <4>3. UNCHANGED heap
        BY <3>1, <4>2, QuietHeap, OopsEffect DEF Step, Transfers
      <4> QED
        BY <4>3 DEF SameText
    <3>2. CASE ~(At(p, {"set_length"}) /\ Current(p) = n)
      <4>1. ~(At(p, {"set_length", "store"}) /\ Current(p) = n)
        BY <1>4, <3>2 DEF AtRest, At
      <4> QED
        BY <4>1, TextsKept DEF Raw, InitOf
    <3> QED
      BY <3>1, <3>2
  <2> QED
    BY <1>4, <2>1, <2>2, MessageAtRest, MessageAfter DEF SameText
<1> QED
  BY <1>2, <1>3, <1>4 DEF AtRest

-----------------------------------------------------------------------------
(* Which registers change.                                                 *)

\* The message file of a channel stays so.
LEMMA HolderStays ==
  ASSUME StateInv, NEW p \in Procs, Step(p), UNCHANGED exclusion, loaded # "out",
         NEW m \in Minors, NEW c, NEW n, Holder(n, m, c)
  PROVE  n \in Nodes /\ heap[n] # None /\ ~Raw(n) /\ Holder(n, m, c)'
<1> USE DEF StateInv
<1>1. n \in Linked(m) /\ ~Raw(n) /\ heap[n].message_file_id = c
  BY DEF Holder
<1>2. Valid(n)
  BY <1>1 DEF ListInv, ShapeInv, ListOK, Whole
<1>3. n \in Linked(m)' /\ ~Raw(n)' /\ heap'[n].message_file_id = c /\ loaded' # "out"
  BY <1>1, <1>2, ListsKeep, Stays, StepEffect
<1> QED
  BY <1>1, <1>2, <1>3, ValidType DEF Holder

\* A register changes only when a write to it sets the length.
LEMMA RegisterKept ==
  ASSUME StateInv, StateInv', TransferInv, TransferInv', loaded # "out",
         NEW p \in Procs, Step(p), UNCHANGED exclusion, NEW m \in Minors, NEW c \in Channels,
         ~(SetLength(p) /\ Holder(Current(p), m, c))
  PROVE  MessagesOf(m)'[c] = MessagesOf(m)[c]
<1> USE DEF StateInv
<1>1. ASSUME NEW n, Holder(n, m, c) PROVE MessagesOf(m)'[c] = MessagesOf(m)[c]
  <2>1. n \in Nodes /\ heap[n] # None /\ ~Raw(n) /\ Holder(n, m, c)'
    BY <1>1, HolderStays
  <2>2. MessageOf(n)' = MessageOf(n)
    BY <1>1, <2>1, MessageKept
  <2>3. MessagesOf(m)[c] = MessageOf(n)
    BY <1>1, OneHolder
  <2>4. MessagesOf(m)'[c] = MessageOf(n)'
    BY <2>1, RegisterAfter
  <2> QED
    BY <2>2, <2>3, <2>4
<1>2. CASE \A n : ~Holder(n, m, c)
  <2>1. MessagesOf(m)[c] = None
    BY <1>2, NoHolder
  <2>2. ASSUME NEW n, Holder(n, m, c)' PROVE MessagesOf(m)'[c] = None
    <3>1. heap'[n].message_length = 0
      BY <1>2, <2>2, NewHolder
    <3>2. MessageOf(n)' = None
      BY <3>1, EmptyAfter
    <3>3. MessagesOf(m)'[c] = MessageOf(n)'
      BY <2>2, RegisterAfter
    <3> QED
      BY <3>2, <3>3
  <2>3. CASE \A n : ~Holder(n, m, c)'
    <3>1. (\A n : ~Holder(n, m, c))'
      BY <2>3
    <3> QED
      BY <2>1, <3>1, RegisterAfter
  <2> QED
    BY <2>1, <2>2, <2>3
<1> QED
  BY <1>1, <1>2

-----------------------------------------------------------------------------
(* The steps of the registers.                                             *)

ResultOf(p) == IF Sure(p) THEN OK(call[p].buffer) ELSE result[p]

AbsStep == [Registers!AbsNext]_(Registers!absvars)

\* A step of p changes no result but that of p.
LEMMA ResultsStep ==
  ASSUME NEW p \in Procs, Alone(p)
  PROVE  /\ results' = [results EXCEPT ![p] = ResultOf(p)']
         /\ results[p] = ResultOf(p)
<1>1. \A q \in Procs \ {p} : ResultOf(q)' = ResultOf(q)
  BY DEF Alone, ResultOf, Sure, At
<1>2. results = [q \in Procs |-> ResultOf(q)]
  BY DEF results, ResultOf
<1>3. results' = [q \in Procs |-> ResultOf(q)']
  BY DEF results, ResultOf
<1> QED
  BY <1>1, <1>2, <1>3

\* A call that returns an error and leaves registers and files alone is refused.
LEMMA Refused ==
  ASSUME NEW p \in Procs, Alone(p), registers' = registers, files' = files,
         NEW code \in Refusals, call'[p] = User, result'[p] = Error(code)
  PROVE  AbsStep
<1>1. ResultOf(p)' = Error(code)
  BY UserType DEF ResultOf, Sure, At
<1>2. Registers!Returns(p, Registers!Error(code))
  BY <1>1, ResultsStep DEF Registers!Returns, Registers!Error, Error
<1>3. Registers!Refuses(p)
  BY <1>2 DEF Registers!Refuses, Refusals
<1> QED
  BY <1>3 DEF AbsStep, Registers!AbsNext

\* A step that shows in no register, file or result is no step of the registers.
LEMMA Stutters ==
  ASSUME NEW p \in Procs, Alone(p), registers' = registers, files' = files,
         ResultOf(p)' = ResultOf(p)
  PROVE  AbsStep
<1>1. results' = results
  BY ResultsStep DEF results
<1> QED
  BY <1>1 DEF AbsStep, Registers!absvars

\* Registers that are equal one by one are equal.
LEMMA RegistersSame ==
  ASSUME \A m \in Minors, c \in Channels : MessagesOf(m)'[c] = MessagesOf(m)[c]
  PROVE  registers' = registers
<1>1. ASSUME NEW m \in Minors PROVE MessagesOf(m)' = MessagesOf(m)
  <2>1. /\ MessagesOf(m) = [c \in Channels |-> MessagesOf(m)[c]]
        /\ MessagesOf(m)' = [c \in Channels |-> MessagesOf(m)'[c]]
    BY DEF MessagesOf
  <2> QED
    BY <2>1
<1> QED
  BY <1>1 DEF registers

\* What a step of a process leaves of the registers.
BothInv ==
  /\ StateInv /\ StateInv' /\ TransferInv /\ TransferInv' /\ loaded # "out"
  /\ UNCHANGED exclusion

\* Every step of a process but the start of a write leaves the registers.
LEMMA RegistersStay ==
  ASSUME BothInv, NEW p \in Procs, Step(p), ~SetLength(p)
  PROVE  registers' = registers
  BY RegisterKept, RegistersSame DEF BothInv

\* A step that leaves the open files leaves their channels.
LEMMA FilesStay ==
  ASSUME CallInv, UNCHANGED info
  PROVE  files' = files
  BY DEF files

-----------------------------------------------------------------------------
(* The steps of a process.                                                 *)

\* open implements Opens, or is refused (message_slot.c:236-264).
LEMMA OpensStep ==
  ASSUME BothInv, NEW p \in Procs, Opens(p)
  PROVE  AbsStep
<1> USE DEF BothInv, StateInv, CallInv
<1>1. Step(p) /\ Alone(p) /\ ~SetLength(p)
  <2>1. Step(p)
    BY DEF Step, Transfers
  <2> QED
    BY <2>1, StepEffect DEF Opens, open_dev, SetLength, At
<1>2. registers' = registers
  BY <1>1, RegistersStay
<1>3. PICK f \in FilesOf[p], m \in Minors : open_dev(p, f, m)
  BY DEF Opens
<1>4. f \in Files /\ info[f] = None
  BY <1>3, FilesAssumption DEF open_dev
<1>5. CASE Return(p, Error("ENOMEM")) /\ UNCHANGED info
  <2>1. call'[p] = User /\ result'[p] = Error("ENOMEM") /\ "ENOMEM" \in Refusals
    BY <1>5 DEF Return, TypeInv, Refusals
  <2> QED
    BY <1>1, <1>2, <1>5, <2>1, FilesStay, Refused
<1>6. CASE ~(Return(p, Error("ENOMEM")) /\ UNCHANGED info)
  <2> DEFINE new == [minor |-> m, message_file_id |-> 0, current_message_file |-> Wild]
  <2>1. info' = [info EXCEPT ![f] = new] /\ Return(p, OK(<<>>))
    BY <1>3, <1>6 DEF open_dev, OpenedId
  <2>2. new # None /\ new.minor = m /\ new.message_file_id = 0
    <3>1. new \in OpenFile
      BY DEF OpenFile
    <3> QED
      BY <3>1, NoneAssumption
  <2> HIDE DEF new
  <2>3. files' = [files EXCEPT ![f] = [minor |-> m, channel |-> 0]] /\ files[f] = None
    BY <1>4, <2>1, <2>2 DEF files, TypeInv
  <2>4. call'[p] = User /\ result'[p] = OK(<<>>)
    BY <2>1 DEF Return, TypeInv
  <2>5. results' = [results EXCEPT ![p] = OK(<<>>)]
    BY <1>1, <2>4, ResultsStep, UserType DEF ResultOf, Sure, At
  <2>6. Registers!Opens(p, f, m)
    BY <1>2, <2>3, <2>5 DEF Registers!Opens, Registers!Returns, Registers!OK, OK
  <2> QED
    BY <1>4, <2>6 DEF AbsStep, Registers!AbsNext
<1> QED
  BY <1>5, <1>6

\* release implements Closes (message_slot.c:367-374).
LEMMA ClosesStep ==
  ASSUME BothInv, NEW p \in Procs, Closes(p)
  PROVE  AbsStep
<1> USE DEF BothInv, StateInv, CallInv
<1>1. Step(p) /\ ~SetLength(p)
  BY DEF Step, Transfers, Closes, release_dev, SetLength, At
<1>2. registers' = registers
  BY <1>1, RegistersStay
<1>3. PICK f \in FilesOf[p] : release_dev(p, f)
  BY DEF Closes
<1>4. f \in Files /\ info[f] # None /\ info' = [info EXCEPT ![f] = None] /\ UNCHANGED <<call, result>>
  BY <1>3, FilesAssumption DEF release_dev
<1>5. results' = results
  BY <1>4 DEF results, Sure, At
<1>6. info[f].minor \in Minors /\ info[f].message_file_id \in Channels \cup {0}
  BY <1>4 DEF TypeInv, OpenFile
<1>7. files[f] # None
  BY <1>4, <1>6, RegistersAssumption DEF files
<1>8. files' = [files EXCEPT ![f] = None]
  BY <1>4 DEF files, TypeInv
<1>9. Registers!Closes(f)
  BY <1>2, <1>5, <1>7, <1>8 DEF Registers!Closes
<1> QED
  BY <1>4, <1>9 DEF AbsStep, Registers!AbsNext

\* The checks of read and write refuse, or do nothing yet (message_slot.c:105-122, 162-215).
LEMMA EntersStep ==
  ASSUME BothInv, NEW p \in Procs, Writes(p) \/ Reads(p)
  PROVE  AbsStep
<1> USE DEF BothInv, StateInv
<1>1. Step(p) /\ Alone(p)
  BY StepEffect DEF Step, Transfers
<1>2. call[p].at = "user" /\ UNCHANGED info
  BY EntersText DEF Still
<1>3. registers' = registers /\ files' = files
  BY <1>1, <1>2, RegistersStay, FilesStay DEF SetLength, At
<1>4. CASE call'[p] = User /\ \E code \in Refusals : result'[p] = Error(code)
  BY <1>1, <1>3, <1>4, Refused
<1>5. CASE UNCHANGED result /\ call'[p].at \in {"set_length", "read_length"}
  <2>1. ResultOf(p)' = ResultOf(p)
    BY <1>2, <1>5 DEF ResultOf, Sure, At
  <2> QED
    BY <1>1, <1>3, <2>1, Stutters
<1> QED
  BY <1>4, <1>5, EntersText

\* The bytes of a write are no step: it has taken effect (message_slot.c:221-231).
LEMMA StoreByteStep ==
  ASSUME BothInv, NEW p \in Procs, StoreByte(p)
  PROVE  AbsStep
<1> USE DEF BothInv, StateInv
<1>1. Step(p) /\ Alone(p)
  BY StepEffect DEF Step, Transfers
<1>2. At(p, {"store"}) /\ UNCHANGED info
  BY StoreByteText
<1>3. registers' = registers /\ files' = files
  BY <1>1, <1>2, RegistersStay, FilesStay DEF SetLength, At
<1>4. ResultOf(p) = OK(call[p].buffer)
  BY <1>2 DEF ResultOf, Sure, At
<1>5. ResultOf(p)' = OK(call[p].buffer)
  <2>1. CASE call'[p] = User /\ result'[p] = OK(call[p].buffer)
    BY <2>1, UserType DEF ResultOf, Sure, At
  <2>2. CASE call'[p].at = "store" /\ call'[p].buffer = call[p].buffer
    BY <2>2 DEF ResultOf, Sure, At
  <2> QED
    BY <2>1, <2>2, StoreByteText
<1> QED
  BY <1>1, <1>3, <1>4, <1>5, Stutters

\* The length of a read is no step, or it is refused (message_slot.c:124-140).
LEMMA ReadLengthStep ==
  ASSUME BothInv, NEW p \in Procs, ReadLength(p)
  PROVE  AbsStep
<1> USE DEF BothInv, StateInv
<1>1. Step(p) /\ Alone(p)
  BY StepEffect DEF Step, Transfers
<1>2. At(p, {"read_length"}) /\ UNCHANGED info
  BY ReadLengthText DEF Still
<1>3. registers' = registers /\ files' = files
  BY <1>1, <1>2, RegistersStay, FilesStay DEF SetLength, At
<1>4. CASE call'[p] = User /\ result'[p] = Error("EWOULDBLOCK")
  BY <1>1, <1>3, <1>4, Refused DEF Refusals
<1>5. CASE UNCHANGED result /\ call'[p].at = "copy"
  <2>1. ResultOf(p)' = ResultOf(p)
    BY <1>2, <1>5 DEF ResultOf, Sure, At
  <2> QED
    BY <1>1, <1>3, <2>1, Stutters
<1> QED
  BY <1>4, <1>5, ReadLengthText

\* The channel of a file that is read or written, and its register.
LEMMA RegisterOf ==
  ASSUME StateInv, loaded # "out", NEW p \in Procs, At(p, MessageLabels)
  PROVE  \E n \in Nodes, m \in Minors, c \in Channels, f \in FilesOf[p] :
           /\ n = Current(p) /\ f = call[p].file /\ Holder(n, m, c) /\ heap[n] # None /\ ~Raw(n)
           /\ f \in Files /\ files[f] = [minor |-> m, channel |-> c]
           /\ info[f].current_message_file = n
           /\ registers[m][c] = MessageOf(n) /\ Registers!HasChannel(f)
<1> USE DEF StateInv
<1>1. PICK n \in Nodes, m \in Minors :
        /\ n = Current(p) /\ m = Minor(p) /\ call[p].file \in FilesOf[p]
        /\ Valid(n) /\ ~Raw(n) /\ n \in Linked(m)
        /\ heap[n].message_file_id = info[call[p].file].message_file_id
        /\ info[call[p].file].message_file_id \in Channels
  BY MessagePlace
<1>2. PICK f \in FilesOf[p] : f = call[p].file
  BY <1>1
<1>3. PICK c \in Channels : c = info[f].message_file_id
  BY <1>1, <1>2
<1>4. f \in Files /\ info[f] # None /\ info[f].minor = m /\ info[f].current_message_file = n
  <2>1. ~At(p, {"user"})
    BY DEF At, MessageLabels
  <2> QED
    BY <1>1, <1>2, <2>1, FilesAssumption DEF CallInv, CallOK, Minor, Current
<1>5. Holder(n, m, c)
  BY <1>1, <1>2, <1>3 DEF Holder
<1>6. files[f] = [minor |-> m, channel |-> c]
  BY <1>3, <1>4 DEF files
<1>7. files[f] # None /\ files[f].channel # 0
  <2>1. c # 0 /\ c \in Channels \cup {0}
    BY BoundsAssumption
  <2> QED
    BY <1>6, <2>1, RegistersAssumption
<1>8. registers[m][c] = MessageOf(n)
  BY <1>5, OneHolder DEF registers
<1> QED
  BY <1>1, <1>2, <1>4, <1>5, <1>6, <1>7, <1>8, ValidType DEF Registers!HasChannel

\* A write takes effect when it stores the length (message_slot.c:217-221).
LEMMA SetLengthStep ==
  ASSUME BothInv, NEW p \in Procs, SetLength(p)
  PROVE  AbsStep
<1> USE DEF BothInv, StateInv
<1>1. Step(p) /\ Alone(p)
  BY StepEffect DEF Step, Transfers
<1>2. /\ At(p, {"set_length"}) /\ UNCHANGED <<loaded, devices_info, info, result>>
      /\ call'[p].at = "store" /\ call'[p].file = call[p].file
      /\ call'[p].buffer = call[p].buffer
  BY SetLengthText
<1>3. PICK n \in Nodes, m \in Minors, c \in Channels, f \in FilesOf[p] :
        /\ n = Current(p) /\ f = call[p].file /\ Holder(n, m, c) /\ heap[n] # None /\ ~Raw(n)
        /\ f \in Files /\ files[f] = [minor |-> m, channel |-> c]
        /\ info[f].current_message_file = n
        /\ registers[m][c] = MessageOf(n) /\ Registers!HasChannel(f)
  BY <1>2, RegisterOf DEF At, MessageLabels
<1>4. PICK b \in Seq(Nat) : b = call[p].buffer /\ Len(b) \in 1..BUFFER_LENGTH
  BY <1>2 DEF CallInv, TypeInv, SystemCall, CallOK, At
<1>5. files' = files
  BY <1>2, FilesStay
<1>6. MessagesOf(m)'[c] = b
  <2>1. Holder(n, m, c)'
    BY <1>1, <1>3, HolderStays
  <2>2. MessagesOf(m)'[c] = MessageOf(n)'
    BY <2>1, RegisterAfter
  <2>3. At(p, {"store"})' /\ Current(p)' = n
    BY <1>2, <1>3 DEF At, Current
  <2>4. MessageOf(n)' = call'[p].buffer
    BY <2>3, MessageAfter DEF TransferInv
  <2> QED
    BY <1>2, <1>4, <2>2, <2>4
<1>7. ASSUME NEW k \in Minors, NEW d \in Channels, <<k, d>> # <<m, c>>
      PROVE  MessagesOf(k)'[d] = MessagesOf(k)[d]
  <2>1. ~Holder(n, k, d)
    BY <1>3, <1>7 DEF Holder, ListInv, ShapeInv
  <2> QED
    BY <1>1, <1>3, <2>1, RegisterKept
<1>8. registers' = [registers EXCEPT ![m][c] = b]
  <2>1. \A k \in Minors : MessagesOf(k) = [d \in Channels |-> MessagesOf(k)[d]]
                          /\ MessagesOf(k)' = [d \in Channels |-> MessagesOf(k)'[d]]
    BY DEF MessagesOf
  <2>2. ASSUME NEW k \in Minors, k # m PROVE MessagesOf(k)' = MessagesOf(k)
    BY <1>7, <2>1, <2>2
  <2>3. MessagesOf(m)' = [MessagesOf(m) EXCEPT ![c] = b]
    BY <1>6, <1>7, <2>1
  <2> QED
    BY <2>2, <2>3 DEF registers
<1>9. ResultOf(p)' = OK(b)
  BY <1>2, <1>4 DEF ResultOf, Sure, At
<1>10. results' = [results EXCEPT ![p] = OK(b)] /\ results'[p] = OK(b)
  BY <1>1, <1>9, ResultsStep DEF results
<1>11. results'[p].data = b
  BY <1>10 DEF OK
<1>12. Registers!Puts(p, f, b)
  <2>1. files[f].minor = m /\ files[f].channel = c
    BY <1>3
  <2> QED
    BY <1>3, <1>4, <1>5, <1>8, <1>10, <2>1
    DEF Registers!Puts, Registers!Returns, Registers!OK, OK
<1> QED
  BY <1>3, <1>11, <1>12 DEF AbsStep, Registers!AbsNext

\* A read takes effect at its last byte: it has the whole message (message_slot.c:142-157).
LEMMA CopyByteStep ==
  ASSUME BothInv, NEW p \in Procs, CopyByte(p)
  PROVE  AbsStep
<1> USE DEF BothInv, StateInv
<1>1. Step(p) /\ Alone(p)
  BY StepEffect DEF Step, Transfers
<1>2. At(p, {"copy"}) /\ UNCHANGED info
  BY CopyByteText DEF Still
<1>3. registers' = registers /\ files' = files
  BY <1>1, <1>2, RegistersStay, FilesStay DEF SetLength, At
<1>4. PICK copied \in Seq(Nat) :
        /\ copied = Append(call[p].buffer, heap[call[p].temp].message[call[p].i])
        /\ \/ call[p].i = call[p].size /\ call'[p] = User /\ result'[p] \in {OK(copied), Error("EIO")}
           \/ UNCHANGED result /\ call'[p].at = "copy"
  BY CopyByteText
<1>5. CASE UNCHANGED result /\ call'[p].at = "copy"
  <2>1. ResultOf(p)' = ResultOf(p)
    BY <1>2, <1>5 DEF ResultOf, Sure, At
  <2> QED
    BY <1>1, <1>3, <2>1, Stutters
<1>6. CASE call'[p] = User /\ result'[p] = Error("EIO")
  BY <1>1, <1>3, <1>6, Refused DEF Refusals
<1>7. CASE call[p].i = call[p].size /\ call'[p] = User /\ result'[p] = OK(copied)
  <2>1. PICK n \in Nodes, m \in Minors, c \in Channels, f \in FilesOf[p] :
          /\ n = Current(p) /\ f = call[p].file /\ Holder(n, m, c) /\ heap[n] # None /\ ~Raw(n)
          /\ f \in Files /\ files[f] = [minor |-> m, channel |-> c]
          /\ info[f].current_message_file = n
          /\ registers[m][c] = MessageOf(n) /\ Registers!HasChannel(f)
    BY <1>2, RegisterOf DEF At, MessageLabels
  <2>2. call[p].temp = n /\ heap[n].message_length = call[p].size
        /\ Len(call[p].buffer) = call[p].i - 1 /\ Transferred(p, n)
    BY <1>2, <2>1 DEF TransferInv, TransferOK
  <2>3. PICK b \in Seq(Nat), k \in 1..BUFFER_LENGTH :
          b = call[p].buffer /\ k = call[p].i /\ k = call[p].size
    BY <1>2, <1>7 DEF CallInv, TypeInv, SystemCall, CallOK, At
  <2>4. PICK s \in [1..BUFFER_LENGTH -> Nat] : s = heap[n].message
    BY <2>1 DEF CallInv, TypeInv, MessageFile
  <2>5. Len(b) = k - 1 /\ copied = Append(b, s[k]) /\ \A j \in 1..k - 1 : s[j] = b[j]
    BY <1>4, <2>2, <2>3, <2>4 DEF Transferred
  <2>6. BUFFER_LENGTH \in Nat /\ s[k] \in Nat
    BY <2>4, BoundsAssumption
  <2>7. Len(copied) = k /\ copied[k] = s[k] /\ \A j \in 1..k - 1 : copied[j] = b[j]
    BY <2>3, <2>5, <2>6
  <2>8. \A j \in 1..Len(copied) : s[j] = copied[j]
    <3>1. ASSUME NEW j \in 1..Len(copied) PROVE j = k \/ j \in 1..k - 1
      BY <2>3, <2>6, <2>7
    <3> QED
      BY <2>5, <2>7, <3>1
  <2>9. SubSeq(s, 1, k) = copied
    BY <2>3, <2>6, <2>7, <2>8, Front
  <2>10. AtRest(n)
    BY <1>2, <2>1 DEF AtRest, TransferInv, MessagesApart, At, MessageLabels
  <2>11. MessageOf(n) = copied
    <3>1. heap[n].message_length = k /\ k # 0
      BY <2>2, <2>3
    <3> QED
      BY <2>4, <2>9, <2>10, <3>1, MessageAtRest
  <2>12. copied # None
    BY RegistersAssumption
  <2>13. results' = [results EXCEPT ![p] = OK(copied)]
    BY <1>1, <1>7, ResultsStep, UserType DEF ResultOf, Sure, At
  <2>14. Registers!Gets(p, f)
    <3>1. files[f].minor = m /\ files[f].channel = c
      BY <2>1
    <3> QED
      BY <1>3, <2>1, <2>11, <2>12, <2>13, <3>1
      DEF Registers!Gets, Registers!Returns, Registers!OK, OK
  <2> QED
    BY <2>1, <2>14 DEF AbsStep, Registers!AbsNext
<1> QED
  BY <1>4, <1>5, <1>6, <1>7

\* The check of ioctl refuses, or does nothing yet (message_slot.c:295-314).
LEMMA ControlsStep ==
  ASSUME BothInv, NEW p \in Procs, Controls(p)
  PROVE  AbsStep
<1> USE DEF BothInv, StateInv
<1>1. Step(p) /\ Alone(p)
  BY StepEffect DEF Step, IoctlStep
<1>2. call[p].at = "user" /\ UNCHANGED info
  BY ControlsEffect DEF Still
<1>3. registers' = registers /\ files' = files
  BY <1>1, <1>2, RegistersStay, FilesStay DEF SetLength, At
<1>4. \/ Return(p, Error("EINVAL"))
      \/ UNCHANGED result /\ call'[p].at \in {"new_list", "search"}
  <2>1. PICK f \in FilesOf[p], id \in Channels \cup {0} : ioctl_dev(p, f, id)
    BY DEF Controls
  <2>2. PICK head : head = devices_info[info[f].minor]
    OBVIOUS
  <2>3. \/ Return(p, Error("EINVAL"))
        \/ /\ UNCHANGED result
           /\ Enter(p, f, IF head = NULL THEN "new_list" ELSE "search", id, head, <<>>)
    BY <2>1, <2>2 DEF ioctl_dev
  <2>4. ASSUME NEW label, Enter(p, f, label, id, head, <<>>) PROVE call'[p].at = label
    BY <2>4 DEF Enter, User, CallInv, TypeInv
  <2> QED
    BY <2>3, <2>4
<1>5. CASE Return(p, Error("EINVAL"))
  <2>1. call'[p] = User /\ result'[p] = Error("EINVAL") /\ "EINVAL" \in Refusals
    BY <1>5 DEF Return, CallInv, TypeInv, Refusals
  <2> QED
    BY <1>1, <1>3, <2>1, Refused
<1>6. CASE UNCHANGED result /\ call'[p].at \in {"new_list", "search"}
  <2>1. ResultOf(p)' = ResultOf(p)
    BY <1>2, <1>6 DEF ResultOf, Sure, At
  <2> QED
    BY <1>1, <1>3, <2>1, Stutters
<1> QED
  BY <1>4, <1>5, <1>6

\* An ioctl looks for its message file, or adds it.
LEMMA SearchesStep ==
  ASSUME BothInv, NEW p \in Procs, Search(p) \/ AddNext(p) \/ InitNext(p) \/ NewList(p)
  PROVE  AbsStep
<1> USE DEF BothInv, StateInv
<1>1. Step(p) /\ Alone(p)
  BY StepEffect DEF Step, IoctlStep
<1>2. At(p, {"search", "append", "init", "new_list"}) /\ UNCHANGED info
  BY SearchEffect, AddNextEffect, InitNextEffect, NewListEffect DEF Still, At
<1>3. registers' = registers /\ files' = files
  BY <1>1, <1>2, RegistersStay, FilesStay DEF SetLength, At
<1>4. CASE Search(p) \/ AddNext(p) \/ InitNext(p)
  <2>1. UNCHANGED result /\ call'[p].at \in {"search", "append", "init", "set_next_id", "set_id"}
    BY <1>4, SearchEffect, AddNextEffect, InitNextEffect DEF Goes_on
  <2>2. ResultOf(p)' = ResultOf(p)
    BY <1>2, <2>1 DEF ResultOf, Sure, At
  <2> QED
    BY <1>1, <1>3, <2>2, Stutters
<1>5. CASE NewList(p)
  <2>1. CASE call'[p] = User /\ result'[p] = Error("ENOMEM")
    BY <1>1, <1>3, <2>1, Refused DEF Refusals
  <2>2. CASE UNCHANGED result /\ call'[p].at = "head_id"
    <3>1. ResultOf(p)' = ResultOf(p)
      BY <1>2, <2>2 DEF ResultOf, Sure, At
    <3> QED
      BY <1>1, <1>3, <3>1, Stutters
  <2>3. \/ call'[p] = User /\ result'[p] = Error("ENOMEM")
        \/ UNCHANGED result /\ (call'[p].at = "head_id")
    <3>1. \/ Return(p, Error("ENOMEM"))
          \/ UNCHANGED result /\ \E n \in Nodes :
               call' = [call EXCEPT ![p].temp = n, ![p].at = "head_id"]
      BY <1>5 DEF NewList, Unused
    <3>2. ASSUME NEW n \in Nodes, call' = [call EXCEPT ![p].temp = n, ![p].at = "head_id"]
          PROVE  call'[p].at = "head_id"
      BY <3>2 DEF CallInv, TypeInv, SystemCall
    <3>3. ASSUME Return(p, Error("ENOMEM"))
          PROVE  call'[p] = User /\ result'[p] = Error("ENOMEM")
      BY <3>3 DEF Return, CallInv, TypeInv
    <3> QED
      BY <3>1, <3>2, <3>3
  <2> QED
    BY <2>1, <2>2, <2>3
<1> QED
  BY <1>4, <1>5

\* An ioctl takes effect when it sets the id.
LEMMA SetIdStep ==
  ASSUME BothInv, NEW p \in Procs, SetId(p)
  PROVE  AbsStep
<1> USE DEF BothInv, StateInv
<1>1. Step(p) /\ Alone(p)
  BY StepEffect DEF Step, IoctlStep
<1>2. /\ At(p, {"set_id", "set_next_id", "head_id"})
      /\ call'[p].at \in {"set_file", "head_file"} /\ call'[p].file = call[p].file
      /\ info'[call[p].file].minor = info[call[p].file].minor
      /\ info'[call[p].file].message_file_id = call[p].id
      /\ \A g \in Files \ {call[p].file} : info'[g] = info[g]
  BY SetIdEffect DEF Goes_on
<1>3. registers' = registers
  BY <1>1, <1>2, RegistersStay DEF SetLength, At
<1>4. PICK f \in FilesOf[p], c \in Channels :
        f = call[p].file /\ c = call[p].id /\ f \in Files /\ info[f] # None
  BY <1>2, FilesAssumption DEF CallInv, CallOK, At, IoctlLabels
<1>5. info[f] \in OpenFile /\ info'[f] # None
  <2>1. At(p, {"user"})' => FALSE
    BY <1>2 DEF At
  <2> QED
    BY <1>2, <1>4, <2>1 DEF CallInv, TypeInv, CallOK
<1>6. files[f] # None
  BY <1>4, <1>5, RegistersAssumption DEF files, OpenFile
<1>7. files' = [files EXCEPT ![f].channel = c]
  <2>1. files[f] = [minor |-> info[f].minor, channel |-> info[f].message_file_id]
    BY <1>4 DEF files
  <2>2. [files[f] EXCEPT !.channel = c] = [minor |-> info[f].minor, channel |-> c]
    BY <2>1
  <2>3. files'[f] = [minor |-> info[f].minor, channel |-> c]
    BY <1>2, <1>4, <1>5 DEF files
  <2>4. \A g \in Files \ {f} : files'[g] = files[g]
    BY <1>2, <1>4 DEF files
  <2>5. files' = [g \in Files |-> files'[g]] /\ files = [g \in Files |-> files[g]]
    BY DEF files
  <2> QED
    BY <1>4, <2>2, <2>3, <2>4, <2>5
<1>8. call'[p].buffer = <<>>
  <2>1. At(p, IoctlLabels \cup {"read_length"})'
    BY <1>2 DEF At, IoctlLabels
  <2> QED
    BY <2>1 DEF TransferInv, TransferOK
<1>9. ResultOf(p)' = OK(<<>>)
  BY <1>2, <1>8 DEF ResultOf, Sure, At
<1>10. Registers!SetsChannel(p, f, c)
  BY <1>1, <1>3, <1>6, <1>7, <1>9, ResultsStep
  DEF Registers!SetsChannel, Registers!Returns, Registers!OK, OK
<1> QED
  BY <1>4, <1>10 DEF AbsStep, Registers!AbsNext

\* After it has stored the id an ioctl does nothing that shows (message_slot.c:271, 353-355).
LEMMA AssignsStep ==
  ASSUME BothInv, NEW p \in Procs, SetFile(p) \/ Publish(p)
  PROVE  AbsStep
<1> USE DEF BothInv, StateInv
<1>1. Step(p) /\ Alone(p)
  BY StepEffect DEF Step, IoctlStep
<1>2. At(p, {"set_file", "head_file", "publish"})
  BY SetFileEffect, PublishEffect DEF At
<1>3. registers' = registers
  BY <1>1, <1>2, RegistersStay DEF SetLength, At
<1>4. files' = files
  <2>1. CASE Publish(p)
    BY <2>1, PublishEffect, FilesStay
  <2>2. CASE SetFile(p)
    <3>1. PICK f \in Files : f = call[p].file /\ info[f] # None
      BY <1>2, FilesAssumption DEF CallInv, CallOK, At
    <3>2. info' = [info EXCEPT ![f].current_message_file = call[p].temp]
      BY <2>2, <3>1 DEF SetFile
    <3>3. PICK new : new = [info[f] EXCEPT !.current_message_file = call[p].temp]
      OBVIOUS
    <3>4. info' = [info EXCEPT ![f] = new]
      BY <3>2, <3>3
    <3>5. /\ info'[f] # None /\ info'[f].minor = info[f].minor
          /\ info'[f].message_file_id = info[f].message_file_id
          /\ \A g \in Files \ {f} : info'[g] = info[g]
      <4>1. info[f] \in OpenFile /\ call[p].temp \in Nodes \cup {NULL, Wild}
        BY <3>1 DEF CallInv, TypeInv, SystemCall
      <4>2. new \in OpenFile
        BY <3>3, <4>1 DEF OpenFile
      <4> QED
        BY <2>2, <3>1, <3>4, <4>2, SetFileEffect, NoneAssumption DEF CallInv, TypeInv
    <3> QED
      BY <3>1, <3>5 DEF files
  <2> QED
    BY <2>1, <2>2
<1>5. call[p].buffer = <<>>
  <2>1. At(p, IoctlLabels \cup {"read_length"})
    BY <1>2 DEF At, IoctlLabels
  <2> QED
    BY <2>1 DEF TransferInv, TransferOK
<1>6. ResultOf(p) = OK(<<>>)
  BY <1>2, <1>5 DEF ResultOf, Sure, At
<1>7. ResultOf(p)' = OK(<<>>)
  <2>1. CASE Return(p, OK(<<>>))
    <3>1. call'[p] = User /\ result'[p] = OK(<<>>)
      BY <2>1 DEF Return, CallInv, TypeInv
    <3> QED
      BY <3>1, UserType DEF ResultOf, Sure, At
  <2>2. CASE SetFile(p) /\ ~Return(p, OK(<<>>))
    <3>1. Go(p, "publish")
      BY <2>2 DEF SetFile
    <3>2. call'[p].at = "publish" /\ call'[p].buffer = <<>>
      <4>1. "publish" \in Labels
        BY DEF Labels, IoctlLabels
      <4> QED
        BY <1>5, <3>1, <4>1, Goes DEF Go, CallInv
    <3> QED
      BY <3>2 DEF ResultOf, Sure, At
  <2> QED
    BY <2>1, <2>2 DEF Publish
<1> QED
  BY <1>1, <1>3, <1>4, <1>6, <1>7, Stutters

\* A kill implements Kills (message_slot.c:325-335).
LEMMA KillsStep ==
  ASSUME BothInv, NEW p \in Procs, Oops(p)
  PROVE  AbsStep
<1> USE DEF BothInv, StateInv
<1>1. Step(p) /\ Alone(p)
  BY StepEffect DEF Step
<1>2. /\ call'[p] = User /\ result'[p] = Error("oops")
      /\ info' = [f \in Files |-> IF f \in FilesOf[p] THEN None ELSE info[f]]
  BY OopsEffect DEF Oops
<1>3. registers' = registers
  <2>1. ~SetLength(p)
    <3>1. call'[p].at # "store"
      BY <1>2, UserType
    <3> QED
      BY <3>1, SetLengthText
  <2> QED
    BY <1>1, <2>1, RegistersStay
<1>4. results' = [results EXCEPT ![p] = Error("oops")]
  BY <1>1, <1>2, ResultsStep, UserType DEF ResultOf, Sure, At
<1>5. FilesOf[p] \in SUBSET Files
  BY FilesAssumption
<1>6. files' = [f \in Files |-> IF f \in FilesOf[p] THEN None ELSE files[f]]
  BY <1>2 DEF files
<1>7. Registers!Kills(p)
  BY <1>3, <1>4, <1>5, <1>6
  DEF Registers!Kills, Registers!Returns, Registers!Error, Error
<1> QED
  BY <1>7 DEF AbsStep, Registers!AbsNext

\* Every step of a process is one of the registers, or none.
LEMMA ProcessStep ==
  ASSUME BothInv, NEW p \in Procs, Step(p)
  PROVE  AbsStep
  BY OpensStep, ClosesStep, EntersStep, SetLengthStep, StoreByteStep, ReadLengthStep, CopyByteStep,
     ControlsStep, SearchesStep, SetIdStep, AssignsStep, KillsStep
  DEF Step, Transfers, IoctlStep

\* Without a message file every register is empty.
LEMMA NoFiles ==
  ASSUME StateInv, StateInv', \A n \in Nodes : heap[n] = None /\ heap'[n] = None
  PROVE  registers' = registers
<1> USE DEF StateInv
<1>1. ASSUME NEW m \in Minors, NEW c \in Channels PROVE MessagesOf(m)'[c] = MessagesOf(m)[c]
  <2>1. \A n : ~Holder(n, m, c)
    <3>1. ASSUME NEW n, Holder(n, m, c) PROVE Valid(n)
      BY <3>1 DEF Holder, ListInv, ShapeInv, ListOK, Whole
    <3> QED
      BY <3>1, ValidType
  <2>2. (\A n : ~Holder(n, m, c))'
    <3>1. ASSUME NEW n, Holder(n, m, c)' PROVE n \in Nodes /\ heap'[n] # None
      BY <3>1 DEF Holder, ListInv, ShapeInv, ListOK, Whole, Valid, Unused
    <3> QED
      BY <3>1
  <2> QED
    BY <2>1, <2>2, NoHolder, RegisterAfter
<1> QED
  BY <1>1, RegistersSame

\* rmmod implements Unloads, and insmod finds the registers empty (message_slot.c:396-452).
LEMMA SuperuserStep ==
  ASSUME StateInv, StateInv', Superuser, UNCHANGED exclusion
  PROVE  AbsStep
<1> USE DEF StateInv
<1>1. UNCHANGED <<info, call, result>>
  BY SuperuserEffect
<1>2. files' = files /\ results' = results
  BY <1>1, FilesStay DEF results, Sure, At
<1>3. CASE loaded' = "out" /\ \A f \in Files : info[f] = None
  <2>1. ASSUME NEW m \in Minors, NEW c \in Channels PROVE MessagesOf(m)'[c] = None
    <3>1. (\A n : ~Holder(n, m, c))'
      BY <1>3 DEF Holder
    <3> QED
      BY <3>1, RegisterAfter
  <2>2. ASSUME NEW m \in Minors PROVE MessagesOf(m)' = [c \in Channels |-> None]
    <3>1. MessagesOf(m)' = [c \in Channels |-> MessagesOf(m)'[c]]
      BY DEF MessagesOf
    <3> QED
      BY <2>1, <3>1
  <2>3. registers' = [m \in Minors |-> [c \in Channels |-> None]]
    BY <2>2 DEF registers
  <2>4. \A f \in Files : files[f] = None
    BY <1>3 DEF files
  <2>5. Registers!Unloads
    BY <1>2, <2>3, <2>4 DEF Registers!Unloads, Registers!Empty
  <2> QED
    BY <2>5 DEF AbsStep, Registers!AbsNext
<1>4. CASE loaded # "live" /\ UNCHANGED heap
  <2>1. \A n \in Nodes : heap[n] = None /\ heap'[n] = None
    BY <1>4 DEF MemberInv
  <2> QED
    BY <1>2, <2>1, NoFiles DEF AbsStep, Registers!absvars
<1> QED
  BY <1>3, <1>4, SuperuserEffect

\* A step of the module is a step of the registers, or none.
LEMMA RegistersStep ==
  ASSUME StateInv, StateInv', TransferInv, TransferInv', [Next]_vars
  PROVE  AbsStep
<1>1. UNCHANGED exclusion
  BY ProcessCases
<1>2. ASSUME NEW p \in Procs, Step(p) PROVE AbsStep
  <2>1. loaded # "out"
    BY <1>2, Loaded DEF Step, StateInv
  <2> QED
    BY <1>1, <1>2, <2>1, ProcessStep DEF BothInv
<1>3. CASE Superuser
  BY <1>1, <1>3, SuperuserStep
<1>4. CASE UNCHANGED slot
  <2>1. files' = files /\ results' = results
    BY <1>4 DEF files, results, Sure, At, slot
  <2>2. ASSUME NEW m \in Minors, NEW c \in Channels PROVE MessagesOf(m)'[c] = MessagesOf(m)[c]
    BY <1>4 DEF slot, MessagesOf, MessageOf, Linked, Raw, At, Current
  <2> QED
    BY <2>1, <2>2, RegistersSame DEF AbsStep, Registers!absvars
<1> QED
  BY <1>2, <1>3, <1>4, ProcessCases DEF Step

\* At the start the registers are empty.
LEMMA RegistersInit == Init => Registers!AbsInit
<1> SUFFICES ASSUME Init PROVE Registers!AbsInit
  OBVIOUS
<1>1. /\ \A p \in Procs : call[p].at = "user" /\ result[p] = OK(<<>>)
      /\ \A f \in Files : info[f] = None
      /\ \A m \in Minors : Linked(m) = {}
  BY UserType, LinkedNone, PointersAssumption DEF Init, SlotInit, Linked
<1>2. ASSUME NEW m \in Minors PROVE MessagesOf(m) = [c \in Channels |-> None]
  <2>1. MessagesOf(m) = [c \in Channels |-> MessagesOf(m)[c]]
    BY DEF MessagesOf
  <2> QED
    BY <1>1, <2>1, NoHolder DEF Holder
<1>3. registers = Registers!Empty
  BY <1>2 DEF registers, Registers!Empty
<1>4. files = [f \in Files |-> None]
  BY <1>1 DEF files
<1>5. results = [p \in Procs |-> OK(<<>>)]
  BY <1>1 DEF results, Sure, At
<1> QED
  BY <1>3, <1>4, <1>5 DEF Registers!AbsInit, Registers!OK, OK

AllInv == CallInv /\ DeviceInv /\ InfoOK /\ MemberOK /\ TransferSafe

\* What all invariants say of callers that keep apart what has to be.
LEMMA AllCareful == AllInv /\ Careful => StateInv /\ TransferInv
  BY DEF AllInv, DeviceInv, InfoOK, MemberOK, TransferSafe, Careful, StateInv

\* A step from such a state to such a state is one of the registers.
LEMMA RefinementStep ==
  ASSUME AllInv, AllInv', [Next]_vars
  PROVE  [exclusion = {"device", "message", "load"} => Registers!AbsNext]_(Registers!absvars)
<1>1. CASE Careful
  <2>1. UNCHANGED exclusion
    BY ProcessCases
  <2>2. (AllInv /\ Careful => StateInv /\ TransferInv)'
    BY AllCareful, PTL
  <2>3. Careful'
    BY <1>1, <2>1 DEF Careful
  <2>4. StateInv /\ TransferInv /\ StateInv' /\ TransferInv'
    BY <1>1, <2>2, <2>3, AllCareful
  <2>5. AbsStep
    BY <2>4, RegistersStep
  <2> QED
    BY <2>5 DEF AbsStep
<1>2. CASE ~Careful
  BY <1>2 DEF Careful
<1> QED
  BY <1>1, <1>2

\* The module implements registers with atomic system calls, for callers that
\* keep apart the ioctls of a device and the transfers of a message file, and
\* open no device before insmod has returned.
THEOREM Refinement == Spec => ImplementsRegisters
<1>1. Spec => []AllInv
  BY CallInvariant, ListInvariant, InfoInvariant, MemberInvariant, TransferInvariant, PTL DEF AllInv
<1>2. AllInv /\ AllInv' /\ [Next]_vars =>
        [exclusion = {"device", "message", "load"} => Registers!AbsNext]_(Registers!absvars)
  BY RefinementStep
<1> QED
  BY <1>1, <1>2, RegistersInit, PTL DEF Spec, ImplementsRegisters

=============================================================================
