------------------------------- MODULE PccNet -------------------------------
(***************************************************************************)
(* The TCP connections between pcc_client and pcc_server, as their calls   *)
(* of read, write, accept and close can tell them apart.  A stream is the  *)
(* number of bytes put into it and taken out of it: what the bytes are     *)
(* follows from the client's file.                                         *)
(***************************************************************************)
EXTENDS Integers, Sequences, FiniteSets

CONSTANTS
  Clients, NoClient,  \* one run of pcc_client each; not a client
  File,               \* [Clients -> contents], a sequence of Chars or others
  Chars,              \* the printable characters, 1..K for 32..126
  UintMod,            \* 2^32: the values of a uint32_t are below it
  IntBytes,           \* sizeof(uint32_t)
  ListenQueue,        \* connections the kernel keeps for accept
  MayFail,            \* may clients be killed, and system calls fail?
  LinksMayFail        \* may a connection be reset or time out?

ASSUME ClientsAssumption == IsFiniteSet(Clients) /\ NoClient \notin Clients
ASSUME WidthAssumption ==
  UintMod \in Nat \ {0} /\ UintMod % 2 = 0 /\ IntBytes \in Nat \ {0}
ASSUME CharsAssumption ==
  IsFiniteSet(Chars) /\ Chars # {} /\ Chars = 1..Cardinality(Chars)
ASSUME FileAssumption == \A c \in Clients : File[c] \in Seq(Nat)
ASSUME QueueAssumption == ListenQueue \in Nat

VARIABLES
  backlog,              \* connections not accepted yet, oldest first
  sent, got,            \* bytes the client wrote, and the server has read
  answered, received,   \* bytes the server wrote, and the client has read
  client_end,           \* what the server can learn of the client's end
  server_end            \* what the client can learn of the server's end

net == <<backlog, sent, got, answered, received, client_end, server_end>>

Size(c) == Len(File[c]) % UintMod        \* uint32_t N of the client's file

\* A uint32_t passed as an int.
AsInt(n) == IF 2 * n < UintMod THEN n ELSE n - UintMod

Unread(c) == sent[c] - got[c]
Unseen(c) == answered[c] - received[c]

NetInit ==
  /\ backlog = <<>>
  /\ sent = [c \in Clients |-> 0]
  /\ got = [c \in Clients |-> 0]
  /\ answered = [c \in Clients |-> 0]
  /\ received = [c \in Clients |-> 0]
  /\ client_end = [c \in Clients |-> "none"]
  /\ server_end = [c \in Clients |-> "none"]

\* A socket closed while it holds unread bytes, or before it was accepted,
\* resets the connection; otherwise the peer sees an end of file.
ServerCloses(S) ==
  server_end' = [c \in Clients |->
    IF c \notin S \/ server_end[c] # "open" THEN server_end[c]
    ELSE IF Unread(c) > 0 \/ \E i \in 1..Len(backlog) : backlog[i] = c THEN "rst"
    ELSE "fin"]

ClientCloses(c) ==
  client_end' = [client_end EXCEPT ![c] =
    IF @ # "open" THEN @ ELSE IF Unseen(c) > 0 THEN "rst" ELSE "fin"]

\* Bytes that reach a closed client are answered with a reset.
ResetAfterFin(c) ==
  /\ client_end[c] = "fin" /\ Unseen(c) > 0
  /\ client_end' = [client_end EXCEPT ![c] = "finrst"]
  /\ UNCHANGED <<backlog, sent, got, answered, received, server_end>>

\* Both ends lose the connection: ECONNRESET or ETIMEDOUT.  The server may
\* also lose it after the client has closed its end.
LinkFails(c) ==
  /\ LinksMayFail
  /\ client_end[c] \in {"open", "fin"} /\ server_end[c] = "open"
  /\ client_end' = [client_end EXCEPT ![c] = "rst"]
  /\ server_end' = [server_end EXCEPT ![c] = "rst"]
  /\ UNCHANGED <<backlog, sent, got, answered, received>>

Network == \E c \in Clients : ResetAfterFin(c) \/ LinkFails(c)

NetTypeOK ==
  /\ backlog \in Seq(Clients) /\ Len(backlog) <= ListenQueue
  /\ {sent, got, answered, received} \subseteq [Clients -> Nat]
  /\ client_end \in [Clients -> {"none", "open", "fin", "finrst", "rst"}]
  /\ server_end \in [Clients -> {"none", "open", "fin", "rst"}]
=============================================================================
