-------------------------- MODULE MessageRegisters --------------------------
(***************************************************************************)
(* What the message_slot module promises: every channel of every device is *)
(* a register that holds the last message written to it, and each system   *)
(* call takes effect at one moment.                                        *)
(***************************************************************************)
EXTENDS Integers, Sequences

CONSTANTS Procs, Files, Minors, Channels,
          BUFFER_LENGTH, \* the longest message
          None           \* no message, not open

VARIABLES
  register,  \* the message of each channel of each device, or None
  file,      \* of each open file the device and the channel, 0 before ioctl
  result     \* what the last system call of each process returned

absvars == <<register, file, result>>

OK(data)    == [code |-> "OK", data |-> data]   \* data: the bytes transferred
Error(code) == [code |-> code, data |-> <<>>]
Returns(p, r) == result' = [result EXCEPT ![p] = r]

Empty == [m \in Minors |-> [c \in Channels |-> None]]

AbsInit ==
  /\ register = Empty
  /\ file = [f \in Files |-> None]
  /\ result = [p \in Procs |-> OK(<<>>)]

Opens(p, f, m) ==
  /\ Returns(p, OK(<<>>))
  /\ file[f] = None
  /\ file' = [file EXCEPT ![f] = [minor |-> m, channel |-> 0]]
  /\ UNCHANGED register

SetsChannel(p, f, c) ==
  /\ Returns(p, OK(<<>>))
  /\ file[f] # None
  /\ file' = [file EXCEPT ![f].channel = c]
  /\ UNCHANGED register

HasChannel(f) == file[f] # None /\ file[f].channel # 0

Puts(p, f, message) ==
  /\ HasChannel(f)
  /\ Len(message) \in 1..BUFFER_LENGTH
  /\ Returns(p, OK(message))
  /\ UNCHANGED file
  /\ register' = [register EXCEPT ![file[f].minor][file[f].channel] = message]

Gets(p, f) ==
  /\ HasChannel(f)
  /\ LET message == register[file[f].minor][file[f].channel]
     IN  message # None /\ Returns(p, OK(message))
  /\ UNCHANGED <<file, register>>

\* A call that fails changes nothing.
Refuses(p) ==
  /\ \E code \in {"EINVAL", "EWOULDBLOCK", "EMSGSIZE", "EIO", "ENOMEM"} :
       Returns(p, Error(code))
  /\ UNCHANGED <<file, register>>

Closes(f) ==
  /\ file[f] # None
  /\ file' = [file EXCEPT ![f] = None]
  /\ UNCHANGED <<register, result>>

\* The kernel kills a process, and its files are closed.
Kills(p) ==
  /\ Returns(p, Error("oops"))
  /\ \E S \in SUBSET Files : file' = [f \in Files |-> IF f \in S THEN None ELSE file[f]]
  /\ UNCHANGED register

\* The module can be removed when no file is open.
Unloads ==
  /\ \A f \in Files : file[f] = None
  /\ register' = Empty
  /\ UNCHANGED <<file, result>>

AbsNext ==
  \/ \E p \in Procs, f \in Files :
       \/ \E m \in Minors : Opens(p, f, m)
       \/ \E c \in Channels : SetsChannel(p, f, c)
       \/ Puts(p, f, result'[p].data)
       \/ Gets(p, f)
  \/ \E p \in Procs : Refuses(p) \/ Kills(p)
  \/ \E f \in Files : Closes(f)
  \/ Unloads

AbsSpec == AbsInit /\ [][AbsNext]_absvars
=============================================================================
