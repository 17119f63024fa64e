-------------------------------- MODULE Pcc --------------------------------
(***************************************************************************)
(* pcc_server and its clients, the network between them, and the user who  *)
(* sends SIGINT to the server and kills clients.                           *)
(***************************************************************************)
EXTENDS PccServer, PccClient, FiniteSetsExt

vars == <<net, server, client>>

Init == NetInit /\ ServerInit /\ ClientInit

Clientele(c) == ClientStep(c, Listening) \/ ClientKilled(c)

Next ==
  \/ Running /\ (ServerStep \/ ServerFails) /\ UNCHANGED client
  \/ Sigint /\ UNCHANGED <<streams, client>>
  \/ \E c \in Clients : Clientele(c) /\ UNCHANGED server
  \/ Network /\ UNCHANGED <<server, client>>

Spec == Init /\ [][Next]_vars

\* The kernel runs the server and every client that can take a step.
Fairness ==
  /\ WF_vars(Running /\ ServerStep /\ UNCHANGED client)
  /\ \A c \in Clients : WF_vars(ClientStep(c, Listening) /\ UNCHANGED server)
FairSpec == Spec /\ Fairness

-----------------------------------------------------------------------------
(* Properties.                                                             *)

TypeOK == NetTypeOK /\ ServerTypeOK /\ ClientTypeOK

Sum(S, ch) == MapThenSumSet(LAMBDA c : CharCount(c)[ch], S)

\* pcc_total is the sum over the clients counted so far, plus what the
\* update in progress has added: nothing of a client that failed before its
\* answer was written, and no client twice.  (pcc_server.c:318-330, 860-896)
TotalsExact ==
  \A ch \in Chars :
    pcc_total[ch] = (Sum(counted, ch) +
                     IF spc = "update" /\ ch < char THEN CharCount(fd)[ch] ELSE 0)
                    % UintMod

\* Whenever SIGINT comes, a server that exits with 0 has reported every
\* character, and every line it printed shows the sum over the clients it
\* has counted, never half of one.  (pcc_server.c:348-366, 404-424, 471-475)
ReportExact ==
  exit_code = 0 =>
    /\ {report[i][1] : i \in 1..Len(report)} = Chars
    /\ \A i \in 1..Len(report) :
         report[i][2] = Sum(counted, report[i][1]) % UintMod

\* A client that got its answer is in the totals, or the server is still
\* busy with it: a SIGINT after the answer does not lose it.  Only a
\* connection that breaks after the answer can.  (pcc_server.c:418-420, 845-900)
AnsweredIsCounted ==
  \A c \in Clients : cpc[c] = "ok" =>
    \/ c \in counted
    \/ fd = c /\ spc \in {"write_C", "update"}
    \/ exit_code > 0
    \/ client_end[c] = "rst"

\* The number a client prints has arrived as a whole and is that of the
\* printable characters in its own file, whatever clients came before.
\* (pcc_server.c:816-852, pcc_client.c:338-352)
AnswersExact ==
  \A c \in Clients : cpc[c] = "ok" =>
    received[c] = IntBytes /\
    answer[c] = Cardinality({i \in 1..Size(c) : File[c][i] \in Chars}) % UintMod

\* Nothing is counted or answered before the whole file has been read, even
\* if the client stops in the middle.  (pcc_server.c:729-735, 802-808)
OnlyWholeFiles ==
  \A c \in Clients :
    c \in counted \/ answer[c] # -1 => got[c] = IntBytes + Size(c)

\* SIGINT ends the server once the current client is done: no client that
\* runs or dies can hold it for ever; one that stalls can, and is not fair.
\* (pcc_server.c:404-424, 471-475)
SigintEndsServer == sigints > 0 ~> ~Running

\* A client that has connected is answered, even if its file is empty and
\* whatever other clients do, unless it is killed or the server ends.
\* (pcc_server.c:662-906, 703-739)
ClientsServed ==
  \A c \in Clients : cpc[c] = "writeN" ~> (cpc[c] \in {"ok", "killed"} \/ ~Running)

\* A client that waits for its answer ends, unless the server has closed the
\* connection before the whole answer: then its loop never ends, and nothing
\* else can hold it.  (pcc_client.c:338-352, 512-546)
ClientEndsOrSpins ==
  \A c \in Clients :
    cpc[c] = "readC" ~> \/ cpc[c] \in {"ok", "failed", "killed"}
                        \/ server_end[c] = "fin" /\ answered[c] < IntBytes

\* The server shuts down only if it is not processing a client.  Comment at
\* pcc_server.c:406, "if the server is not proccessing any client, shutdown
\* the server".
ShutdownWhenIdle == exit_code = 0 => fd = NoClient

\* No client ends the server with a signal.  Comment at pcc_server.c:370,
\* "detects if an unknown error occured": EPIPE is a known one.
ServerNotKilled == spc # "killed"

\* pcc_total before the update in progress, and the report once it is out.
Service == INSTANCE PccService WITH
  Count  <- [c \in Clients |-> CharCount(c)],
  totals <- [ch \in Chars |->
               IF spc = "update" /\ ch < char
               THEN (pcc_total[ch] - printable_chars_buffer[ch]) % UintMod
               ELSE pcc_total[ch]],
  status <- IF Running THEN "open" ELSE IF exit_code = 0 THEN "reported" ELSE "lost",
  report <- [ch \in Chars |->
               IF exit_code # 0 THEN 0
               ELSE report[CHOOSE i \in 1..Len(report) : report[i][1] = ch][2]]

\* The server implements the counting service.
ImplementsService == Service!AbsSpec
=============================================================================
