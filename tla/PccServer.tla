----------------------------- MODULE PccServer -----------------------------
(***************************************************************************)
(* pcc_server.c: one client at a time, counted into pcc_total after it got *)
(* its answer.  SIGINT is handled between any two steps.                   *)
(***************************************************************************)
EXTENDS PccNet

CONSTANT MaxSigint    \* bound on the number of SIGINTs

ASSUME SigintAssumption == MaxSigint \in Nat

VARIABLES
  spc,                \* where main is
  connected_file_fd,  \* the global: the client being processed, or NoClient
  sigint_ind,         \* the global: shut down after this client
  fd,                 \* the socket accept returned; NoClient once closed
  server_bytes,       \* all_bytes: the loop variable of reads and writes
  C,                  \* printable characters of this client
  printable_chars_buffer,   \* the same, per character
  char,               \* the loop variable over characters
  pcc_total,          \* the global: totals per character
  report,             \* lines printed by server_shutdown
  exit_code,          \* -1 while the server runs
  answer,             \* history: the C sent to each client
  counted,            \* history: clients added to pcc_total
  sigints             \* history: SIGINTs delivered

signals == <<sigint_ind, sigints>>
request == <<server_bytes, C, printable_chars_buffer, char, answer>>
stats   == <<pcc_total, counted>>
outcome == <<report, exit_code>>
server == <<spc, connected_file_fd, fd, signals, request, stats, outcome>>

Running == exit_code = -1
streams == <<backlog, sent, got, answered, received, client_end>>

\* How often each character occurs among the N bytes of a client's file.
CharCount(c) ==
  [ch \in Chars |-> Cardinality({i \in 1..Size(c) : File[c][i] = ch}) % UintMod]

LastChar == CHOOSE ch \in Chars : \A d \in Chars : d <= ch

ServerInit ==
  /\ spc = "start"
  /\ connected_file_fd = NoClient
  /\ sigint_ind = 0
  /\ fd = NoClient
  /\ server_bytes = 0
  /\ C = 0
  /\ printable_chars_buffer = [ch \in Chars |-> 0]
  /\ char = 1
  /\ pcc_total = [ch \in Chars |-> 0]
  /\ report = <<>>
  /\ exit_code = -1
  /\ answer = [c \in Clients |-> -1]
  /\ counted = {}
  /\ sigints = 0

\* The process ends; the kernel closes the client's socket and the listener.
Terminate(status, code) ==
  /\ spc' = status
  /\ exit_code' = code
  /\ ServerCloses({fd} \cup {backlog[i] : i \in 1..Len(backlog)})

-----------------------------------------------------------------------------
\* Before the loop: the handler, then a socket that listens.
unchanged_start == <<net, connected_file_fd, fd, signals, request, stats, outcome>>
sigint_init == spc = "start" /\ spc' = "socket" /\ UNCHANGED unchanged_start
create_listen_queue == spc = "socket" /\ spc' = "check_for_open" /\ UNCHANGED unchanged_start

Listening == Running /\ spc \notin {"start", "socket"}

\* check_for_open: act on a SIGINT that came during the last client.
ShutdownRequested_Ignored == FALSE      \* mutant: no test of sigint_ind
ShutdownRequested == sigint_ind = 1

CheckForOpen ==
  /\ spc = "check_for_open"
  /\ IF ShutdownRequested
     THEN spc' = "server_shutdown" /\ char' = 1
     ELSE spc' = "accept" /\ UNCHANGED char
  /\ UNCHANGED <<net, connected_file_fd, fd, signals, server_bytes, C, answer,
                 printable_chars_buffer, stats, outcome>>

\* accept returned; the global is assigned only in main's next statement.
Accept ==
  /\ spc = "accept"
  /\ backlog # <<>>
  /\ fd' = Head(backlog)
  /\ backlog' = Tail(backlog)
  /\ spc' = "accepted"
  /\ UNCHANGED <<sent, got, answered, received, client_end, server_end,
                 connected_file_fd, signals, request, stats, outcome>>

Assign ==
  /\ spc = "accepted"
  /\ connected_file_fd' = fd
  /\ server_bytes' = 0
  /\ spc' = "read_N"
  /\ UNCHANGED <<net, fd, signals, C, printable_chars_buffer, char, answer,
                 stats, outcome>>

\* The third argument of read_byte and write_byte, an int.
num == IF spc = "read_data" THEN AsInt(Size(fd)) ELSE IntBytes

\* The number of bytes a call of read or write asks for.
Wanted_All == num                       \* mutant: forgets what was read
Wanted == num - server_bytes

\* read returns some of the bytes asked for.
ReadBytesFrom ==
  /\ spc \in {"read_N", "read_data"}
  /\ \E k \in 1..Wanted :
       /\ k <= Unread(fd)
       /\ got' = [got EXCEPT ![fd] = @ + k]
       /\ server_bytes' = server_bytes + k
  /\ UNCHANGED <<backlog, sent, answered, received, client_end, server_end, spc,
                 connected_file_fd, fd, signals, C, printable_chars_buffer,
                 char, answer, stats, outcome>>

\* read returns 0: nothing more was asked for, or the client has closed.
EndOfRead_AtEof ==                       \* mutant: waits for the client to close
  Unread(fd) = 0 /\ client_end[fd] = "fin"
EndOfRead ==
  \/ server_bytes = num
  \/ server_bytes < num /\ Unread(fd) = 0 /\ client_end[fd] = "fin"

AllRead_Unchecked == TRUE               \* mutant: no test for a short read
AllRead == server_bytes = num

ReadComplete ==
  /\ spc \in {"read_N", "read_data"}
  /\ EndOfRead
  /\ AllRead
  /\ spc' = IF spc = "read_N" THEN "read_data" ELSE "count"
  /\ server_bytes' = 0
  /\ UNCHANGED <<net, connected_file_fd, fd, signals, C, printable_chars_buffer,
                 char, answer, stats, outcome>>

\* error(): close the socket and go on with the next client.
DropClient ==
  /\ ServerCloses({fd})
  /\ fd' = NoClient
  /\ spc' = "closed"
  /\ UNCHANGED <<streams, connected_file_fd, signals, request, stats, outcome>>

\* A short read, or ECONNRESET or ETIMEDOUT.
ReadError ==
  /\ spc \in {"read_N", "read_data"}
  /\ \/ EndOfRead /\ ~AllRead
     \/ client_end[fd] = "rst" /\ server_bytes < num
  /\ DropClient

\* A byte count that is negative as an int is an EFAULT, and any error other
\* than those of ReadError ends the server.
NegativeCount ==
  /\ spc = "read_data"
  /\ num < 0
  /\ Terminate("ended", 1)
  /\ UNCHANGED <<streams, connected_file_fd, fd, signals, request, stats, report>>

\* Other errors of sigaction, socket, bind, listen, accept, malloc, read and
\* write.
ServerFails ==
  /\ MayFail
  /\ spc \in {"start", "socket", "accept", "read_N", "read_data", "write_C"}
  /\ Terminate("ended", 1)
  /\ UNCHANGED <<streams, connected_file_fd, fd, signals, request, stats, report>>

\* The 95 counters start from zero for every client.
initallize_printable_chars_buffer_Skipped == printable_chars_buffer   \* mutant
initallize_printable_chars_buffer == [ch \in Chars |-> 0]

InitialC_Kept == C                      \* mutant: C of the last client
InitialC == 0

CountCharsRead ==
  /\ spc = "count"
  /\ printable_chars_buffer' =
       [ch \in Chars |-> (initallize_printable_chars_buffer[ch] + CharCount(fd)[ch]) % UintMod]
  /\ C' = (InitialC + Cardinality({i \in 1..Size(fd) : File[fd][i] \in Chars}))
          % UintMod
  /\ answer' = [answer EXCEPT ![fd] = C']
  /\ server_bytes' = 0
  /\ spc' = "write_C"
  /\ UNCHANGED <<net, connected_file_fd, fd, signals, char, stats, outcome>>

WriteC ==
  /\ spc = "write_C"
  /\ client_end[fd] \in {"open", "fin"}
  /\ \E k \in 1..Wanted :
       /\ answered' = [answered EXCEPT ![fd] = @ + k]
       /\ server_bytes' = server_bytes + k
  /\ UNCHANGED <<backlog, sent, got, received, client_end, server_end, spc,
                 connected_file_fd, fd, signals, C, printable_chars_buffer,
                 char, answer, stats, outcome>>

\* The loop ends with a write of no bytes, which returns 0.
WriteComplete ==
  /\ spc = "write_C"
  /\ server_bytes = num
  /\ client_end[fd] \in {"open", "fin"}
  /\ spc' = "update"
  /\ char' = 1
  /\ UNCHANGED <<net, connected_file_fd, fd, signals, server_bytes, C, answer,
                 printable_chars_buffer, stats, outcome>>

WriteError ==
  /\ spc = "write_C"
  /\ client_end[fd] = "rst"
  /\ DropClient

\* EPIPE comes with SIGPIPE, which the server leaves at its default action.
BrokenPipe ==
  /\ spc = "write_C"
  /\ client_end[fd] = "finrst"
  /\ Terminate("killed", 128)
  /\ UNCHANGED <<streams, connected_file_fd, fd, signals, request, stats, report>>

\* update_pcc_total adds character by character; then main closes the socket.
UpdatePccTotal ==
  /\ spc = "update" /\ char \in Chars
  /\ pcc_total' = [pcc_total EXCEPT ![char] =
                     (@ + printable_chars_buffer[char]) % UintMod]
  /\ char' = char + 1
  /\ UNCHANGED <<net, spc, connected_file_fd, fd, signals, server_bytes, C,
                 printable_chars_buffer, answer, counted, outcome>>

CloseClient ==
  /\ spc = "update" /\ char \notin Chars
  /\ counted' = counted \cup {fd}
  /\ ServerCloses({fd})
  /\ fd' = NoClient
  /\ spc' = "closed"
  /\ UNCHANGED <<streams, connected_file_fd, signals, request, pcc_total, outcome>>

ResetConnected ==
  /\ spc = "closed"
  /\ connected_file_fd' = NoClient
  /\ spc' = "check_for_open"
  /\ UNCHANGED <<net, fd, signals, request, stats, outcome>>

-----------------------------------------------------------------------------
Line(ch) == <<ch, pcc_total[ch]>>

\* server_shutdown, called by main, prints line after line and exits.
PrintLine ==
  /\ spc = "server_shutdown" /\ char \in Chars
  /\ report' = Append(report, Line(char))
  /\ char' = char + 1
  /\ UNCHANGED <<net, spc, connected_file_fd, fd, signals, server_bytes, C,
                 printable_chars_buffer, answer, stats, exit_code>>

ExitServer ==
  /\ spc = "server_shutdown" /\ char \notin Chars
  /\ Terminate("ended", 0)
  /\ UNCHANGED <<streams, connected_file_fd, fd, signals, request, stats, report>>

InProcess_Never == FALSE                \* mutant: always shut down at once
InProcess == connected_file_fd # NoClient

\* The default action, until sigint_init.
SigintKills ==
  /\ spc = "start"
  /\ Terminate("ended", 128)
  /\ UNCHANGED <<streams, connected_file_fd, fd, sigint_ind, request, stats, report>>

\* sigint_handler: between clients print and exit, else set the flag.
SigintExits ==
  /\ spc # "start" /\ ~InProcess
  /\ report' = report \o [ch \in Chars |-> Line(ch)]
  /\ Terminate("ended", 0)
  /\ UNCHANGED <<streams, connected_file_fd, fd, sigint_ind, request, stats>>

SigintDeferred ==
  /\ InProcess
  /\ sigint_ind' = 1
  /\ UNCHANGED <<net, spc, connected_file_fd, fd, request, stats, outcome>>

Sigint ==
  /\ Running /\ sigints < MaxSigint
  /\ sigints' = sigints + 1
  /\ SigintKills \/ SigintExits \/ SigintDeferred

ServerStep ==
  \/ sigint_init \/ create_listen_queue \/ CheckForOpen \/ Accept \/ Assign \/ ReadBytesFrom \/ ReadComplete
  \/ ReadError \/ NegativeCount \/ CountCharsRead \/ WriteC \/ WriteComplete \/ WriteError
  \/ BrokenPipe \/ UpdatePccTotal \/ CloseClient \/ ResetConnected
  \/ PrintLine \/ ExitServer

ServerTypeOK ==
  /\ spc \in {"start", "socket", "check_for_open", "accept", "accepted", "read_N", "read_data",
              "count", "write_C", "update", "closed", "server_shutdown",
              "ended", "killed"}
  /\ {connected_file_fd, fd} \subseteq Clients \cup {NoClient}
  /\ sigint_ind \in {0, 1} /\ sigints \in 0..MaxSigint
  /\ server_bytes \in Nat
  /\ spc \in {"read_N", "read_data", "write_C"} /\ num >= 0 => server_bytes <= num
  /\ C \in 0..UintMod - 1
  /\ printable_chars_buffer \in [Chars -> 0..UintMod - 1]
  /\ pcc_total \in [Chars -> 0..UintMod - 1]
  /\ char \in Chars \cup {LastChar + 1}
  /\ report \in Seq(Chars \X (0..UintMod - 1))
  /\ exit_code \in {-1, 0, 1, 128}
  /\ answer \in [Clients -> -1..UintMod - 1]
  /\ counted \subseteq Clients
=============================================================================
