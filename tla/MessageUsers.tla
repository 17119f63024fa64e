---------------------------- MODULE MessageUsers ----------------------------
(***************************************************************************)
(* message_sender.c and message_reader.c, and other programs that use the  *)
(* devices with any system call in any order.                              *)
(***************************************************************************)
EXTENDS MessageSlot

CONSTANTS
  Program,   \* [Procs -> what each runs]: a record with its kinds, a subset of
             \* {"sender", "reader", "any"}, and the arguments
  Messages,  \* what "any" program writes, of every length
  Lengths    \* the buffer lengths it reads with

ASSUME ProgramAssumption ==
  \A p \in Procs :
    /\ Program[p].minor \in Minors /\ Program[p].channel \in Channels \cup {0}
    /\ Program[p].message \in Seq(Nat)
ASSUME MessagesAssumption == Messages \subseteq Seq(Nat) /\ Lengths \subseteq Nat

VARIABLE main   \* where each sender or reader is

vars == <<slot, main>>

Runs(p, kind) == kind \in Program[p].kinds

Init == SlotInit /\ main = [p \in Procs |-> "open"]

Then(p, label) == main' = [main EXCEPT ![p] = label]
Failed(p) == result[p].code # "OK"

\* open_file: exit if it fails.
open_file(p, f) ==
  /\ main[p] = "open"
  /\ open_dev(p, f, Program[p].minor)
  /\ Then(p, IF info'[f] = None THEN "open" ELSE "ioctl")

ioctl_file(p, f) ==
  /\ main[p] = "ioctl"
  /\ ioctl_dev(p, f, Program[p].channel)
  /\ Then(p, "transfer")

\* Up to here the two programs are the same, and a process may turn out to run
\* either.  The sender writes its message; the reader reads into a buffer that
\* holds every message.  An ioctl that failed makes them exit.
Transfer(p, f) ==
  /\ main[p] = "transfer" /\ ~Failed(p)
  /\ \/ Runs(p, "sender") /\ write_dev(p, f, Program[p].message)
     \/ Runs(p, "reader") /\ read_dev(p, f, BUFFER_LENGTH)
  /\ Then(p, "close")

\* close, or exit after an error; the program may be run again.
Exit(p, f) ==
  /\ main[p] = "close" \/ (main[p] = "transfer" /\ Failed(p))
  /\ release_dev(p, f)
  /\ Then(p, "open")

Run(p, f) ==
  ~Runs(p, "any") /\ (open_file(p, f) \/ ioctl_file(p, f) \/ Transfer(p, f) \/ Exit(p, f))

Call(p, f) ==
  /\ Runs(p, "any")
  /\ \/ \E m \in Minors : open_dev(p, f, m)
     \/ \E id \in Channels \cup {0} : ioctl_dev(p, f, id)
     \/ \E message \in Messages : write_dev(p, f, message)
     \/ \E n \in Lengths : read_dev(p, f, n)
     \/ release_dev(p, f)
  /\ UNCHANGED main

\* A killed process is replaced by a new one.
Kernel(p) ==
  /\ KernelStep(p)
  /\ main' = [main EXCEPT ![p] = IF result'[p] = Error("oops") THEN "open" ELSE @]

Next ==
  /\ \/ \E p \in Procs : \E f \in FilesOf[p] : Run(p, f) \/ Call(p, f)
     \/ \E p \in Procs : Kernel(p)
     \/ Superuser /\ UNCHANGED main
  /\ UNCHANGED exclusion

Spec == Init /\ [][Next]_vars

-----------------------------------------------------------------------------
(* Properties.                                                             *)

Codes == {"OK", "EINVAL", "EWOULDBLOCK", "EMSGSIZE", "EIO", "ENOMEM", "oops"}

MessageFile ==
  [message_file_id : Channels \cup {0}, message_length : 0..BUFFER_LENGTH,
   next : Nodes \cup {NULL, Wild}, message : [1..BUFFER_LENGTH -> Nat]]

OpenFile ==
  [minor : Minors, message_file_id : Channels \cup {0},
   current_message_file : Nodes \cup {NULL, Wild}]

ASSUME NoneAssumption == None \notin MessageFile \cup OpenFile

TypeOK ==
  /\ loaded \in {"out", "loading", "live"}
  /\ devices_info \in [Minors -> Nodes \cup {NULL}]
  /\ \A n \in Nodes \ Unused : heap[n] \in MessageFile
  /\ \A f \in Files : info[f] # None => info[f] \in OpenFile
  /\ \A p \in Procs :
       /\ call[p].at \in {"user"} \cup IoctlLabels \cup MessageLabels
       /\ call[p].at # "user" => call[p].file \in Files
       /\ result[p].code \in Codes
  /\ main \in [Procs -> {"open", "ioctl", "transfer", "close"}]
  /\ exclusion \in Exclusions

\* A message file whose memory an ioctl has linked and not yet set up.
Raw(n) == \E p \in Procs : At(p, {"init"}) /\ heap[call[p].temp].next = n

\* Provided the ioctls of one device are kept apart: the lists of the devices
\* share nothing, end, and have one message file for an id, whatever other calls
\* run at once, also opens while insmod runs.  (message_slot.c:312-338, 344-354)
ListsWellFormed ==
  "device" \in exclusion /\ loaded # "out" => \A m \in Minors :
    LET list == Linked(m)
    IN  /\ \A n \in list : Valid(n) /\ (Raw(n) \/ heap[n].next # Wild)
        /\ list # {} => \E n \in list : heap[n].next \notin Nodes
        /\ \A n, k \in list : n # k /\ ~Raw(n) /\ ~Raw(k) =>
             /\ heap[n].message_file_id # heap[k].message_file_id
             /\ heap[n].next # heap[k].next
        /\ \A k \in Minors \ {m} : list \cap Linked(k) = {}

\* Provided nobody opens a device before insmod has returned as well: an open
\* file that has a channel, and no ioctl under way, points to the message file
\* of this id on its own device, never to freed memory, to another device or to
\* a file still being set up.  (message_slot.c:269-273)
FilesPointIntoLists ==
  {"device", "load"} \subseteq exclusion => \A f \in Files :
    info[f] # None /\ info[f].message_file_id # 0
    /\ (\A p \in Procs : call[p].file = f => ~At(p, IoctlLabels)) =>
      LET n == info[f].current_message_file
      IN  /\ n \in Linked(info[f].minor) /\ ~Raw(n)
          /\ heap[n].message_file_id = info[f].message_file_id

\* Under the same provision: no message file is lost while the module is
\* loaded, and rmmod leaves no memory behind.  (message_slot.c:344-354, 433-449)
NothingLeaks ==
  {"device", "load"} \subseteq exclusion => \A n \in Nodes \ Unused :
    \/ loaded # "out" /\ \E m \in Minors : n \in Linked(m)
    \/ \E p \in Procs : At(p, {"head_id", "head_file", "publish"}) /\ call[p].temp = n

\* Provided the ioctls of one device are kept apart, the kernel is never led to
\* a bad pointer, but for the unchecked result of kmalloc in the middle of a
\* list: not by ioctls whose message files insmod forgets, either.
\* (message_slot.c:325-335, 412-415)
OopsOnlyOutOfMemory ==
  []["device" \in exclusion => \A p \in Procs : result'[p] = Error("oops") /\ ~At(p, {"user"}) =>
       At(p, {"append"}) /\ OutOfMemory]_vars

\* A read returns a message that was written, as a whole.  Comment at
\* message_slot.c:135, "to hold the last message written on the message_file".
ReadsWhole ==
  \A p \in Procs : Runs(p, "reader") /\ main[p] = "close" /\ ~Failed(p)
                   /\ At(p, {"user"}) =>
    result[p].data \in Messages \cup {Program[q].message : q \in Procs}

\* A write takes effect when it sets the length, an ioctl when it sets the id:
\* nothing after that can fail.
Sure(p) == At(p, {"set_file", "head_file", "publish", "store"})

MessageOf(n) ==
  IF \E p \in Procs : At(p, {"store"}) /\ Current(p) = n
  THEN call[CHOOSE p \in Procs : At(p, {"store"}) /\ Current(p) = n].buffer
  ELSE IF heap[n].message_length = 0 THEN None
  ELSE SubSeq(heap[n].message, 1, heap[n].message_length)

\* The registers of one device.
MessagesOf(m) ==
  LET live == IF loaded = "out" THEN {} ELSE {n \in Linked(m) : ~Raw(n)}
  IN  [c \in Channels |->
         LET own == {n \in live : heap[n].message_file_id = c}
         IN  IF own = {} THEN None ELSE MessageOf(CHOOSE n \in own : TRUE)]

registers == [m \in Minors |-> MessagesOf(m)]
files ==
  [f \in Files |-> IF info[f] = None THEN None
                   ELSE [minor |-> info[f].minor, channel |-> info[f].message_file_id]]
results == [p \in Procs |-> IF Sure(p) THEN OK(call[p].buffer) ELSE result[p]]

Registers == INSTANCE MessageRegisters WITH
  register <- registers, file <- files, result <- results

ASSUME RegistersAssumption ==
  /\ None \notin [minor : Minors, channel : Channels \cup {0}]
  /\ None \notin Seq(Nat)

\* For callers that keep apart what has to be, the module implements registers
\* with atomic system calls: that is Registers!AbsSpec, if they do.
ImplementsRegisters ==
  /\ Registers!AbsInit
  /\ [][exclusion = {"device", "message", "load"} => Registers!AbsNext]_(Registers!absvars)
=============================================================================
