---------------------------- MODULE MessageSlot ----------------------------
(***************************************************************************)
(* message_slot.c: system calls of several processes run at the same time  *)
(* on the lists of message files, and the module takes no lock.  A step of *)
(* a process is one access to memory that another call can see.            *)
(***************************************************************************)
EXTENDS Integers, Sequences, FiniteSets

CONSTANTS
  Procs, Files,   \* processes, and open files
  FilesOf,        \* [Procs -> SUBSET Files]: the open files of each process
  Minors,         \* the devices
  Channels,       \* message_file ids; 0 is none
  Nodes,          \* kernel memory: room for that many message files
  NULL, Wild,     \* the null pointer, and one that was never assigned
  None,           \* not allocated, not open
  BUFFER_LENGTH,  \* the longest message
  MayFail,        \* may kmalloc, get_user and put_user fail?
  Exclusions      \* sets of calls that callers may keep apart, see Admitted

ASSUME PointersAssumption == NULL \notin Nodes /\ Wild \notin Nodes /\ NULL # Wild
ASSUME FilesAssumption ==
  /\ \A p \in Procs : FilesOf[p] \subseteq Files
  /\ \A p, q \in Procs : p # q => FilesOf[p] \cap FilesOf[q] = {}
ASSUME BoundsAssumption ==
  BUFFER_LENGTH \in Nat \ {0} /\ Channels \subseteq Nat \ {0} /\ IsFiniteSet(Nodes)
ASSUME ExclusionsAssumption == Exclusions \subseteq SUBSET {"device", "message", "load"}

VARIABLES
  loaded,        \* the module is "out", "loading" or "live"
  devices_info,  \* the head of the list of each device
  heap,          \* the message_file at each address, or None
  info,          \* the private data of each open file, or None
  call,          \* the system call each process is in, with its locals
  result,        \* what the last call of each process returned
  exclusion      \* what the callers keep apart; it never changes

slot == <<loaded, devices_info, heap, info, call, result, exclusion>>
memory == <<loaded, devices_info, heap>>

OK(data)    == [code |-> "OK", data |-> data]
Error(code) == [code |-> code, data |-> <<>>]

\* A process that is in no call.
User == [at |-> "user", file |-> None, id |-> 0, temp |-> NULL, i |-> 0,
         size |-> 0, buffer |-> <<>>]

SlotInit ==
  /\ loaded = "live"
  /\ devices_info = [m \in Minors |-> NULL]
  /\ heap = [n \in Nodes |-> None]
  /\ info = [f \in Files |-> None]
  /\ call = [p \in Procs |-> User]
  /\ result = [p \in Procs |-> OK(<<>>)]
  /\ exclusion \in Exclusions

Return(p, r) ==
  /\ result' = [result EXCEPT ![p] = r]
  /\ call' = [call EXCEPT ![p] = User]

Go(p, label) == call' = [call EXCEPT ![p].at = label] /\ UNCHANGED result

Unused == {n \in Nodes : heap[n] = None}
OutOfMemory == MayFail \/ Unused = {}
Valid(pointer) == pointer \in Nodes \ Unused

\* The message file and the device of the file the call is about.
Current(p) == info[call[p].file].current_message_file
Minor(p)   == info[call[p].file].minor
At(p, labels) == call[p].at \in labels

IoctlLabels == {"search", "append", "init", "new_list", "set_id", "set_next_id",
                "head_id", "set_file", "head_file", "publish"}
MessageLabels == {"set_length", "store", "read_length", "copy"}

\* Callers may agree not to issue two ioctls on one device at a time, not to
\* read and write one message file at a time, and not to open a device before
\* insmod has returned.
Admitted(f, ioctl) ==
  \A q \in Procs : call[q].at # "user" =>
    /\ "device" \in exclusion /\ ioctl =>
         ~(At(q, IoctlLabels) /\ Minor(q) = info[f].minor)
    /\ "message" \in exclusion /\ ~ioctl =>
         ~(At(q, MessageLabels) /\ Current(q) = info[f].current_message_file)

-----------------------------------------------------------------------------
(* open and release.                                                       *)

OpenedId_Unset == 1         \* mutant: message_file_id is left as it is
OpenedId == 0

open_dev(p, f, m) ==
  /\ At(p, {"user"}) /\ f \in FilesOf[p]
  /\ info[f] = None
  /\ loaded = "live" \/ (loaded = "loading" /\ "load" \notin exclusion)
  /\ \/ /\ info' = [info EXCEPT ![f] = [minor |-> m, message_file_id |-> OpenedId,
                                        current_message_file |-> Wild]]
        /\ Return(p, OK(<<>>))
     \/ MayFail /\ Return(p, Error("ENOMEM")) /\ UNCHANGED info
  /\ UNCHANGED memory

\* The last close of a file, also by the end of its process.
release_dev(p, f) ==
  /\ At(p, {"user"}) /\ f \in FilesOf[p]
  /\ info[f] # None
  /\ info' = [info EXCEPT ![f] = None]
  /\ UNCHANGED <<memory, call, result>>

-----------------------------------------------------------------------------
(* ioctl: find the message file, or add it to the end of the list.         *)

Enter(p, f, label, id, temp, buffer) ==
  call' = [call EXCEPT ![p] = [User EXCEPT !.at = label, !.file = f, !.id = id,
                                           !.temp = temp, !.buffer = buffer]]

ioctl_dev(p, f, id) ==
  /\ At(p, {"user"}) /\ f \in FilesOf[p]
  /\ info[f] # None
  /\ Admitted(f, TRUE)
  /\ LET head == devices_info[info[f].minor]
     IN  IF id = 0 THEN Return(p, Error("EINVAL"))
         ELSE /\ Enter(p, f, IF head = NULL THEN "new_list" ELSE "search", id, head, <<>>)
              /\ UNCHANGED result
  /\ UNCHANGED <<memory, info>>

\* mutant: the loop ends before the last message file is compared
ioctl_match_found_NotLast(node, id) == node.message_file_id = id /\ node.next # NULL
ioctl_match_found(node, id) == node.message_file_id = id

\* One round of the loop; the last message file is compared after it.
Search(p) ==
  /\ At(p, {"search"}) /\ Valid(call[p].temp)
  /\ LET temp == heap[call[p].temp]
     IN  IF ioctl_match_found(temp, call[p].id) THEN Go(p, "set_id")
         ELSE IF temp.next = NULL THEN Go(p, "append")
         ELSE call' = [call EXCEPT ![p].temp = temp.next] /\ UNCHANGED result
  /\ UNCHANGED <<memory, info>>

\* kmalloc; its address is stored in the list before the memory is set up.
AddNext(p) ==
  /\ At(p, {"append"}) /\ Valid(call[p].temp)
  /\ \E n \in Unused, id \in Channels \cup {0}, next \in {NULL, Wild} :
       heap' = [heap EXCEPT ![n] = [message_file_id |-> id, message_length |-> 0, next |-> next,
                                    message |-> [i \in 1..BUFFER_LENGTH |-> 0]],
                            ![call[p].temp].next = n]
  /\ Go(p, "init")
  /\ UNCHANGED <<loaded, devices_info, info>>

\* mutant: next keeps what the memory held
init_message_data_NoNext(node, id) ==
  [node EXCEPT !.message_file_id = id, !.message_length = 0]
init_message_data(node, id) ==
  [node EXCEPT !.message_file_id = id, !.message_length = 0, !.next = NULL]

InitNext(p) ==
  /\ At(p, {"init"}) /\ Valid(call[p].temp)
  /\ LET next == heap[call[p].temp].next
     IN  /\ Valid(next)
         /\ heap' = [heap EXCEPT ![next] = init_message_data(@, call[p].id)]
  /\ Go(p, "set_next_id")
  /\ UNCHANGED <<loaded, devices_info, info>>

\* The list is empty: nobody sees the new message file until it is complete.
NewList(p) ==
  /\ At(p, {"new_list"})
  /\ \/ /\ \E n \in Unused :
             /\ heap' = [heap EXCEPT ![n] =
                           [message_file_id |-> call[p].id, message_length |-> 0, next |-> NULL,
                            message |-> [i \in 1..BUFFER_LENGTH |-> 0]]]
             /\ call' = [call EXCEPT ![p].temp = n, ![p].at = "head_id"]
        /\ UNCHANGED result
     \/ OutOfMemory /\ Return(p, Error("ENOMEM")) /\ UNCHANGED heap
  /\ UNCHANGED <<loaded, devices_info, info>>

\* assign_message_file makes two stores.
Assigned_Previous(p) == call[p].temp    \* mutant: temp for temp->next
Assigned(p) ==
  IF At(p, {"set_next_id"}) THEN heap[call[p].temp].next ELSE call[p].temp

SetId(p) ==
  /\ At(p, {"set_id", "set_next_id", "head_id"})
  /\ At(p, {"set_next_id"}) => Valid(call[p].temp)
  /\ info' = [info EXCEPT ![call[p].file].message_file_id = call[p].id]
  /\ call' = [call EXCEPT ![p].temp = Assigned(p),
                          ![p].at = IF @ = "head_id" THEN "head_file" ELSE "set_file"]
  /\ UNCHANGED <<memory, result>>

SetFile(p) ==
  /\ At(p, {"set_file", "head_file"})
  /\ info' = [info EXCEPT ![call[p].file].current_message_file = call[p].temp]
  /\ IF At(p, {"set_file"}) THEN Return(p, OK(<<>>)) ELSE Go(p, "publish")
  /\ UNCHANGED memory

Publish(p) ==
  /\ At(p, {"publish"})
  /\ devices_info' = [devices_info EXCEPT ![Minor(p)] = call[p].temp]
  /\ Return(p, OK(<<>>))
  /\ UNCHANGED <<loaded, heap, info>>

-----------------------------------------------------------------------------
(* write: the length first, then byte after byte.                          *)

TooLong_ByOne(n) == n > BUFFER_LENGTH + 1     \* mutant
TooLong(n) == n > BUFFER_LENGTH

write_dev(p, f, message) ==
  /\ At(p, {"user"}) /\ f \in FilesOf[p]
  /\ info[f] # None
  /\ Admitted(f, FALSE)
  /\ \/ info[f].message_file_id = 0 /\ Return(p, Error("EINVAL"))
     \/ /\ info[f].message_file_id # 0
        /\ Len(message) = 0 \/ TooLong(Len(message))
        /\ Return(p, Error("EMSGSIZE"))
     \/ /\ info[f].message_file_id # 0
        /\ Len(message) # 0 /\ ~TooLong(Len(message))
        /\ \/ Enter(p, f, "set_length", 0, NULL, message) /\ UNCHANGED result
           \/ MayFail /\ Return(p, Error("EIO"))
  /\ UNCHANGED <<memory, info>>

NewLength_Longest(old, n) == IF n > old THEN n ELSE old   \* mutant: never shrinks
NewLength(old, n) == n

SetLength(p) ==
  /\ At(p, {"set_length"}) /\ Valid(Current(p))
  /\ heap' = [heap EXCEPT ![Current(p)].message_length = NewLength(@, Len(call[p].buffer))]
  /\ call' = [call EXCEPT ![p].at = "store", ![p].i = 1]
  /\ UNCHANGED <<loaded, devices_info, info, result>>

StoreByte(p) ==
  /\ At(p, {"store"}) /\ Valid(Current(p))
  /\ heap' = [heap EXCEPT ![Current(p)].message[call[p].i] = call[p].buffer[call[p].i]]
  /\ IF call[p].i = Len(call[p].buffer)
     THEN Return(p, OK(call[p].buffer))
     ELSE call' = [call EXCEPT ![p].i = @ + 1] /\ UNCHANGED result
  /\ UNCHANGED <<loaded, devices_info, info>>

-----------------------------------------------------------------------------
(* read: the length first, then byte after byte.                           *)

read_dev(p, f, message_length) ==
  /\ At(p, {"user"}) /\ f \in FilesOf[p]
  /\ info[f] # None
  /\ Admitted(f, FALSE)
  /\ IF info[f].message_file_id = 0 THEN Return(p, Error("EINVAL"))
     ELSE /\ call' = [call EXCEPT ![p] = [User EXCEPT !.at = "read_length", !.file = f,
                                                      !.size = message_length]]
          /\ UNCHANGED result
  /\ UNCHANGED <<memory, info>>

ReadLength(p) ==
  /\ At(p, {"read_length"}) /\ Valid(Current(p))
  /\ LET length == heap[Current(p)].message_length
     IN  IF length = 0 \/ length > call[p].size
         THEN Return(p, Error("EWOULDBLOCK"))
         ELSE /\ call' = [call EXCEPT ![p].at = "copy", ![p].size = length, ![p].i = 1,
                                      ![p].temp = Current(p)]
              /\ UNCHANGED result
  /\ UNCHANGED <<memory, info>>

\* put_user may fail for any byte; the loop goes on and reports it at the end.
CopyByte(p) ==
  /\ At(p, {"copy"}) /\ Valid(call[p].temp)
  /\ LET copied == Append(call[p].buffer, heap[call[p].temp].message[call[p].i])
     IN  IF call[p].i = call[p].size
         THEN Return(p, OK(copied)) \/ (MayFail /\ Return(p, Error("EIO")))
         ELSE /\ call' = [call EXCEPT ![p].buffer = copied, ![p].i = @ + 1]
              /\ UNCHANGED result
  /\ UNCHANGED <<memory, info>>

-----------------------------------------------------------------------------
\* The pointers a step follows.
Followed(p) ==
  IF At(p, {"search", "append", "init", "set_next_id", "copy"})
  THEN {call[p].temp} \cup
       (IF At(p, {"init"}) /\ Valid(call[p].temp) THEN {heap[call[p].temp].next} ELSE {})
  ELSE IF At(p, {"set_length", "store", "read_length"}) THEN {Current(p)}
  ELSE {}

\* The kernel kills a process that follows a bad pointer.  When kmalloc fails
\* in the middle of a list, the test after it is of head, and NULL is used.
Oops(p) ==
  /\ \/ At(p, {"append"}) /\ OutOfMemory
     \/ \E pointer \in Followed(p) : ~Valid(pointer)
  /\ Return(p, Error("oops"))
  /\ info' = [f \in Files |-> IF f \in FilesOf[p] THEN None ELSE info[f]]
  /\ UNCHANGED memory

\* The message files the loop of cleanup reaches from a head, in as many rounds
\* as there are addresses; nodes is the heap.
LinkedFrom(head, nodes) ==
  LET Reached[k \in 0..Cardinality(Nodes)] ==
        IF k = 0 THEN {head} \cap Nodes
        ELSE LET seen == Reached[k - 1]
             IN  seen \cup
                 ({nodes[n].next : n \in {x \in seen : nodes[x] # None}} \cap Nodes)
  IN  Reached[Cardinality(Nodes)]

Linked(m) == LinkedFrom(devices_info[m], heap)

cleanup_HeadsOnly == {devices_info[m] : m \in Minors}   \* mutant: frees no rest
Freed == UNION {Linked(m) : m \in Minors}

\* rmmod: the kernel allows it when no file is open.
cleanup ==
  /\ loaded = "live"
  /\ \A f \in Files : info[f] = None
  /\ heap' = [n \in Nodes |-> IF n \in Freed THEN None ELSE heap[n]]
  /\ loaded' = "out"
  /\ UNCHANGED <<devices_info, info, call, result>>

\* insmod: the device is registered, then its lists are made empty.
Register ==
  /\ loaded = "out"
  /\ loaded' = "loading"
  /\ devices_info' = [m \in Minors |-> NULL]
  /\ UNCHANGED <<heap, info, call, result>>

initiallize ==
  /\ loaded = "loading"
  /\ loaded' = "live"
  /\ devices_info' = [m \in Minors |-> NULL]
  /\ UNCHANGED <<heap, info, call, result>>

\* The rest of a call, once it has begun.
KernelStep(p) ==
  \/ Search(p) \/ AddNext(p) \/ InitNext(p) \/ NewList(p) \/ SetId(p)
  \/ SetFile(p) \/ Publish(p) \/ SetLength(p) \/ StoreByte(p)
  \/ ReadLength(p) \/ CopyByte(p) \/ Oops(p)

Superuser == cleanup \/ Register \/ initiallize
=============================================================================
