----------------------------- MODULE PccClient -----------------------------
(***************************************************************************)
(* pcc_client.c: send the size of a file and its contents, receive the     *)
(* number of printable characters, print it.                               *)
(***************************************************************************)
EXTENDS PccNet

VARIABLES
  cpc,        \* where each client is; its exit status at the end
  all_bytes   \* the loop variable of write_bytes and read_bytes

client == <<cpc, all_bytes>>

ClientInit ==
  /\ cpc = [c \in Clients |-> "file"]
  /\ all_bytes = [c \in Clients |-> 0]

\* The call in progress, and the number of bytes it is to transfer.
value(c) == IF cpc[c] = "writeData" THEN AsInt(Size(c)) ELSE IntBytes

\* exit: the kernel closes the socket, if there is one.
Exits(c, status) ==
  /\ cpc' = [cpc EXCEPT ![c] = status]
  /\ ClientCloses(c)
  /\ UNCHANGED <<backlog, sent, got, answered, received, server_end, all_bytes>>

failed(c) == Exits(c, "failed")

\* The first N bytes of the file are in memory, and there is a socket.  Anything
\* may go wrong: arguments, fopen, malloc, a file that has become shorter.
BufferCreation(c) ==
  /\ cpc[c] = "file"
  /\ \/ cpc' = [cpc EXCEPT ![c] = "connect"] /\ UNCHANGED <<net, all_bytes>>
     \/ MayFail /\ failed(c)

\* connect_socket_to_server; the argument says whether a server listens.
Connect(c, listening) ==
  /\ cpc[c] = "connect"
  /\ listening /\ Len(backlog) < ListenQueue
  /\ backlog' = Append(backlog, c)
  /\ client_end' = [client_end EXCEPT ![c] = "open"]
  /\ server_end' = [server_end EXCEPT ![c] = "open"]
  /\ cpc' = [cpc EXCEPT ![c] = "writeN"]
  /\ UNCHANGED <<sent, got, answered, received, all_bytes>>

ConnectFails(c, listening) ==
  /\ cpc[c] = "connect"
  /\ ~listening \/ MayFail
  /\ failed(c)

\* After N the data follow, unless their number is not positive as an int.
NextCall(c) ==
  IF cpc[c] = "writeN" /\ AsInt(Size(c)) > 0 THEN "writeData" ELSE "readC"

WriteBytes(c) ==
  /\ cpc[c] \in {"writeN", "writeData"}
  /\ server_end[c] \in {"open", "fin"}
  /\ \E k \in 1..(value(c) - all_bytes[c]) :
       /\ sent' = [sent EXCEPT ![c] = @ + k]
       /\ IF all_bytes[c] + k = value(c)
          THEN /\ cpc' = [cpc EXCEPT ![c] = NextCall(c)]
               /\ all_bytes' = [all_bytes EXCEPT ![c] = 0]
          ELSE /\ all_bytes' = [all_bytes EXCEPT ![c] = @ + k]
               /\ UNCHANGED cpc
  /\ UNCHANGED <<backlog, got, answered, received, client_end, server_end>>

\* ECONNRESET is reported; SIGPIPE ends a client that keeps writing to a
\* closed server.
WriteFails(c) ==
  /\ cpc[c] \in {"writeN", "writeData"}
  /\ \/ server_end[c] = "rst" /\ failed(c)
     \/ server_end[c] = "fin" /\ Unread(c) > 0 /\ Exits(c, "killed")

AllReceived_AtEof(c) == server_end[c] = "fin"   \* mutant: read on until it returns 0
AllReceived(c) == received'[c] = IntBytes

\* The last byte of C has come: close, print and exit.
ReadC(c) ==
  /\ cpc[c] = "readC"
  /\ \E k \in 1..(IntBytes - all_bytes[c]) :
       /\ k <= Unseen(c)
       /\ received' = [received EXCEPT ![c] = @ + k]
       /\ all_bytes' = [all_bytes EXCEPT ![c] = @ + k]
  /\ IF AllReceived(c)
     THEN /\ cpc' = [cpc EXCEPT ![c] = "ok"]
          /\ client_end' = [client_end EXCEPT ![c] = IF @ = "open" THEN "fin" ELSE @]
     ELSE UNCHANGED <<cpc, client_end>>
  /\ UNCHANGED <<backlog, sent, got, answered, server_end>>

\* At an end of file read returns 0 for ever and the loop of read_bytes spins.
ReadFails(c) ==
  /\ cpc[c] = "readC"
  /\ server_end[c] = "rst"
  /\ failed(c)

\* The user, or the system, kills the client.
ClientKilled(c) ==
  /\ MayFail
  /\ cpc[c] \in {"writeN", "writeData", "readC"}
  /\ Exits(c, "killed")

ClientStep(c, listening) ==
  \/ BufferCreation(c) \/ Connect(c, listening) \/ ConnectFails(c, listening)
  \/ WriteBytes(c) \/ WriteFails(c) \/ ReadC(c) \/ ReadFails(c)

ClientTypeOK ==
  /\ cpc \in [Clients -> {"file", "connect", "writeN", "writeData", "readC", "ok",
                          "failed", "killed"}]
  /\ all_bytes \in [Clients -> Nat]
=============================================================================
