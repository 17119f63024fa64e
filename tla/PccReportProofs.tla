-------------------------- MODULE PccReportProofs --------------------------
(***************************************************************************)
(* The totals and the report of pcc_server: they are the sums over the     *)
(* clients counted, and the server implements the counting service.        *)
(***************************************************************************)
EXTENDS PccProofs

-----------------------------------------------------------------------------
(* The totals.                                                             *)

\* Only these three actions matter to the totals.
LEMMA TotalsKept ==
  ASSUME CoreInv, [Next]_vars, ~UpdatePccTotal, ~CloseClient, ~WriteComplete
  PROVE  /\ UNCHANGED <<pcc_total, counted>>
         /\ \/ UNCHANGED <<spc, char, fd, printable_chars_buffer>>
            \/ spc # "update" /\ spc' # "update"
<1>1. CASE ServerMoves
  BY <1>1
  DEF ServerMoves, Starts, sigint_init, create_listen_queue, unchanged_start, CheckForOpen, Accept,
      Assign, ReadBytesFrom, ReadComplete, Drops, DropClient, CountCharsRead, WriteC,
      ResetConnected, PrintLine, stats
<1>2. CASE Dies
  BY <1>2 DEF Dies, stats
<1>3. CASE Interrupted
  <2>1. spc # "update"
    BY <1>3, ClientsAssumption DEF Interrupted, SigintExits, InProcess, CoreInv, Serving
  <2> QED
    BY <1>3, <2>1 DEF Interrupted, SigintExits, Terminate, stats
<1>4. CASE Deferred \/ NetworkMoves \/ \E c \in Clients : ClientMoves(c)
  BY <1>4, ClientTouchesNone DEF Deferred, NetworkMoves, server, request, stats
<1> QED
  BY <1>1, <1>2, <1>3, <1>4, StepCases

\* A step of one of the three is made by the server itself.
LEMMA TotalsTypes ==
  ASSUME CoreInv, NEW ch \in Chars
  PROVE  /\ pcc_total[ch] \in 0..UintMod - 1 /\ printable_chars_buffer[ch] \in 0..UintMod - 1
         /\ UintMod \in Nat \ {0}
         /\ Sum(counted, ch) \in Nat /\ ch \in Nat \ {0} /\ char \in Nat
         /\ char \notin Chars => ch < char
<1>1. counted \in SUBSET Clients /\ char \in Chars \cup {LastChar + 1}
  BY DEF CoreInv, TypeOK, ServerTypeOK
<1>2. Sum(counted, ch) \in Nat
  BY <1>1, SumType
<1>3. ch \in Nat \ {0} /\ char \in Nat /\ (char \notin Chars => ch < char)
  BY <1>1, CharsType
<1> QED
  BY <1>2, <1>3, WidthAssumption DEF CoreInv, TypeOK, ServerTypeOK

\* TotalsExact is inductive, given which client is served (pcc_server.c:860-896).
LEMMA TotalsStep ==
  ASSUME ServiceInv, TotalsExact, [Next]_vars
  PROVE  TotalsExact'
<1> USE DEF ServiceInv
<1>0. SUFFICES ASSUME NEW ch \in Chars
               PROVE  pcc_total'[ch] =
                        (Sum(counted', ch) +
                         IF spc' = "update" /\ ch < char' THEN CharCount(fd')[ch] ELSE 0)
                        % UintMod
  BY DEF TotalsExact
<1>1. pcc_total[ch] =
        (Sum(counted, ch) + IF spc = "update" /\ ch < char THEN CharCount(fd)[ch] ELSE 0)
        % UintMod
  BY DEF TotalsExact
<1>2. CASE UpdatePccTotal
  <2>1. /\ spc = "update" /\ spc' = "update" /\ char' = char + 1
        /\ char \in Chars
        /\ pcc_total' = [pcc_total EXCEPT ![char] =
                           (pcc_total[char] + printable_chars_buffer[char]) % UintMod]
        /\ UNCHANGED <<fd, counted>>
    BY <1>2 DEF UpdatePccTotal
  <2>2. CASE ch # char
    <3>1. pcc_total'[ch] = pcc_total[ch]
      BY <2>1, <2>2 DEF CoreInv, TypeOK, ServerTypeOK
    <3>2. ch \in Nat /\ char \in Nat
      BY TotalsTypes
    <3>3. ch < char' <=> ch < char
      BY <2>1, <2>2, <3>2
    <3> QED
      BY <1>1, <2>1, <3>1, <3>3
  <2>3. CASE ch = char
    <3> DEFINE a == Sum(counted, ch)
               b == CharCount(fd)[ch]
    <3>1. ~(ch < char) /\ ch < char'
      BY <2>1, <2>3, TotalsTypes
    <3>2. printable_chars_buffer[ch] = b
      BY <2>1 DEF RequestInv
    <3>3. pcc_total'[ch] = (pcc_total[ch] + b) % UintMod
      BY <2>1, <2>3, <3>2 DEF CoreInv, TypeOK, ServerTypeOK
    <3>4. a \in Nat /\ b \in Nat /\ UintMod \in Nat \ {0}
      BY <3>2, TotalsTypes
    <3>5. pcc_total[ch] = (a + 0) % UintMod
      BY <1>1, <3>1
    <3>6. pcc_total'[ch] = (a + b) % UintMod
      <4> HIDE DEF a, b
      <4>1. pcc_total[ch] = a % UintMod
        BY <3>4, <3>5
      <4>2. ((a % UintMod) + b) % UintMod = (a + b) % UintMod
        BY <3>4, ModAdd
      <4> QED
        BY <3>3, <4>1, <4>2
    <3> QED
      BY <2>1, <3>1, <3>6
  <2> QED
    BY <2>2, <2>3
<1>3. CASE CloseClient
  <2>1. /\ spc = "update" /\ spc' = "closed" /\ char \notin Chars
        /\ counted' = counted \cup {fd} /\ UNCHANGED pcc_total
    BY <1>3 DEF CloseClient
  <2>2. fd \in Clients \ counted /\ counted \in SUBSET Clients
    BY <2>1 DEF RequestInv, Serving, CoreInv, TypeOK, ServerTypeOK
  <2>3. Sum(counted', ch) = Sum(counted, ch) + CharCount(fd)[ch]
    BY <2>1, <2>2, SumAdds
  <2>4. ch < char
    BY <2>1, TotalsTypes
  <2>5. Sum(counted', ch) \in Nat
    BY <2>1, <2>2, SumType
  <2>6. pcc_total'[ch] = Sum(counted', ch) % UintMod
    BY <1>1, <2>1, <2>3, <2>4
  <2>7. Sum(counted', ch) + 0 = Sum(counted', ch)
    BY <2>5
  <2> QED
    BY <2>1, <2>6, <2>7
<1>4. CASE WriteComplete
  <2>1. /\ spc # "update" /\ char' = 1
        /\ UNCHANGED <<counted, pcc_total>>
    BY <1>4 DEF WriteComplete, stats
  <2>2. ~(ch < 1)
    BY TotalsTypes
  <2> QED
    BY <1>1, <2>1, <2>2
<1>5. CASE ~UpdatePccTotal /\ ~CloseClient /\ ~WriteComplete
  BY <1>1, <1>5, TotalsKept
<1> QED
  BY <1>2, <1>3, <1>4, <1>5

\* pcc_total is the sum over the clients counted, modulo 2^32, plus what the update
\* in progress has added: nothing of a client that failed before its answer was
\* written, and no client twice (pcc_server.c:318-330, 860-896).
THEOREM TotalsCorrect == Spec => []TotalsExact
<1>1. Init => TotalsExact
  <2> SUFFICES ASSUME Init, NEW ch \in Chars
               PROVE  pcc_total[ch] = (Sum(counted, ch) + 0) % UintMod
    BY DEF Init, ServerInit, TotalsExact
  <2>1. Sum(counted, ch) = 0
    BY SumEmpty DEF Init, ServerInit
  <2> QED
    BY <2>1, WidthAssumption DEF Init, ServerInit
<1>2. ASSUME ServiceInv, TotalsExact, [Next]_vars PROVE TotalsExact'
  BY <1>2, TotalsStep
<1> QED
  BY <1>1, <1>2, ServiceInvariant, PTL DEF Spec

-----------------------------------------------------------------------------
(* The report.                                                             *)

Reported(ch) == \E i \in 1..Len(report) : report[i][1] = ch

\* The lines printed show the totals, which change no more; between two clients a
\* SIGINT may print all of them, after some that main has printed.
ReportInv ==
  /\ report = <<>> \/ spc = "server_shutdown" \/ exit_code = 0
  /\ \A i \in 1..Len(report) :
       report[i][1] \in Chars /\ report[i][2] = pcc_total[report[i][1]]
  /\ spc = "server_shutdown" => \A ch \in 1..char - 1 : Reported(ch)
  /\ exit_code = 0 => \A ch \in Chars : Reported(ch)

\* ReportInv is inductive (pcc_server.c:348-366).
LEMMA ReportStep ==
  ASSUME CoreInv, ReportInv, [Next]_vars
  PROVE  ReportInv'
<1> USE DEF ReportInv, Reported
<1>0. char \in Chars \cup {LastChar + 1} /\ report \in Seq(Chars \X (0..UintMod - 1))
  BY DEF CoreInv, TypeOK, ServerTypeOK
<1>1. CASE ServerMoves
  <2>0. UNCHANGED exit_code /\ exit_code # 0
    BY <1>1
    DEF ServerMoves, Starts, sigint_init, create_listen_queue, unchanged_start, CheckForOpen,
        Accept, Assign, ReadBytesFrom, ReadComplete, Drops, DropClient, CountCharsRead, WriteC,
        WriteComplete, UpdatePccTotal, CloseClient, ResetConnected, PrintLine, outcome,
        CoreInv, Running
  <2>1. CASE PrintLine
    <3>1. /\ spc = "server_shutdown" /\ spc' = "server_shutdown" /\ char' = char + 1
          /\ char \in Chars /\ UNCHANGED pcc_total
          /\ report' = Append(report, <<char, pcc_total[char]>>)
      BY <2>1 DEF PrintLine, Line, stats
    <3>2. /\ Len(report) \in Nat /\ Len(report') = Len(report) + 1
          /\ report'[Len(report) + 1] = <<char, pcc_total[char]>>
          /\ \A i \in 1..Len(report) : report'[i] = report[i]
      BY <1>0, <3>1
    <3>3. \A i \in 1..Len(report') : i \in 1..Len(report) \/ i = Len(report) + 1
      BY <3>2
    <3>4. \A i \in 1..Len(report') :
            report'[i][1] \in Chars /\ report'[i][2] = pcc_total[report'[i][1]]
      BY <3>1, <3>2, <3>3
    <3>5. char \in Nat
      BY <3>1, CharsType
    <3>6. ASSUME NEW ch \in 1..char' - 1
          PROVE  \E i \in 1..Len(report') : report'[i][1] = ch
      <4>1. CASE ch = char
        BY <3>2, <4>1
      <4>2. CASE ch # char
        <5>1. ch \in 1..char - 1
          BY <3>1, <3>5, <4>2
        <5>2. PICK i \in 1..Len(report) : report[i][1] = ch
          BY <3>1, <5>1
        <5> QED
          BY <3>2, <5>2
      <4> QED
        BY <4>1, <4>2
    <3> QED
      BY <2>0, <3>1, <3>4, <3>6
  <2>2. CASE ~PrintLine
    <3>1. /\ UNCHANGED report /\ spc # "server_shutdown"
          /\ spc' = "server_shutdown" => char' = 1
      BY <1>1, <2>2
      DEF ServerMoves, Starts, sigint_init, create_listen_queue, unchanged_start, CheckForOpen,
          Accept, Assign, ReadBytesFrom, ReadComplete, Drops, DropClient, CountCharsRead, WriteC,
          WriteComplete, UpdatePccTotal, CloseClient, ResetConnected, outcome
    <3>2. report = <<>> /\ report' = <<>>
      BY <2>0, <3>1
    <3> QED
      BY <2>0, <3>1, <3>2
  <2> QED
    BY <2>1, <2>2
<1>2. CASE Dies
  <2>1. UNCHANGED <<report, pcc_total>> /\ spc' # "server_shutdown" /\ exit_code # 0
    BY <1>2 DEF Dies, stats, Running
  <2>2. exit_code' = 0 => spc = "server_shutdown" /\ char = LastChar + 1
    BY <1>0, <1>2 DEF Dies
  <2>3. exit_code' = 0 => \A ch \in Chars : ch \in 1..char - 1
    BY <2>2, CharsType
  <2>4. spc = "server_shutdown" => exit_code' = 0
    BY <1>2 DEF Dies
  <2> QED
    BY <2>1, <2>2, <2>3, <2>4
<1>3. CASE Interrupted
  <2> DEFINE lines == [ch \in Chars |-> Line(ch)]
  <2>1. /\ lines \in Seq(Chars \X (0..UintMod - 1)) /\ Len(lines) = LastChar
        /\ \A ch \in Chars : lines[ch] = <<ch, pcc_total[ch]>>
    <3>1. lines \in [1..LastChar -> Chars \X (0..UintMod - 1)]
      BY CharsType DEF CoreInv, TypeOK, ServerTypeOK, Line
    <3>2. \A ch \in Chars : lines[ch] = <<ch, pcc_total[ch]>>
      BY DEF Line
    <3> HIDE DEF lines
    <3>3. LastChar \in Nat
      BY CharsType
    <3>4. lines \in Seq(Chars \X (0..UintMod - 1)) /\ DOMAIN lines = 1..LastChar
      BY <3>1, <3>3
    <3>5. Len(lines) = LastChar
      BY <3>3, <3>4, LenProperties
    <3> QED
      BY <3>2, <3>4, <3>5
  <2> HIDE DEF lines
  <2>2. report' = report \o lines /\ exit_code' = 0 /\ spc' = "ended" /\ UNCHANGED pcc_total
    BY <1>3 DEF Interrupted, SigintExits, Terminate, stats, lines
  <2>3. /\ Len(report') = Len(report) + LastChar
        /\ \A i \in 1..Len(report) + LastChar :
             report'[i] = IF i <= Len(report) THEN report[i] ELSE lines[i - Len(report)]
    <3> DEFINE T == Chars \X (0..UintMod - 1)
    <3>1. report \in Seq(T) /\ lines \in Seq(T)
      BY <1>0, <2>1
    <3> HIDE DEF T
    <3>2. /\ Len(report \o lines) = Len(report) + Len(lines)
          /\ \A i \in 1..Len(report) + Len(lines) :
               (report \o lines)[i] = IF i <= Len(report) THEN report[i] ELSE lines[i - Len(report)]
      BY <3>1, ConcatProperties
    <3> QED
      BY <2>1, <2>2, <3>2
  <2>4. Len(report) \in Nat /\ LastChar \in Nat /\ Chars = 1..LastChar
    BY <1>0, CharsType
  <2>5. ASSUME NEW i \in 1..Len(report')
        PROVE  report'[i][1] \in Chars /\ report'[i][2] = pcc_total[report'[i][1]]
    <3>1. CASE i \in 1..Len(report)
      <4>1. i \in 1..Len(report) + LastChar /\ i <= Len(report)
        BY <2>4, <3>1
      <4>2. report'[i] = report[i]
        BY <2>3, <4>1
      <4> QED
        BY <2>2, <3>1, <4>2
    <3>2. CASE i - Len(report) \in Chars
      <4>1. i \in 1..Len(report) + LastChar /\ ~(i <= Len(report))
        BY <2>3, <2>4, <3>2
      <4>2. report'[i] = lines[i - Len(report)]
        BY <2>3, <4>1
      <4> QED
        BY <2>1, <2>2, <3>2, <4>2
    <3> QED
      BY <2>3, <2>4, <3>1, <3>2
  <2>6. ASSUME NEW ch \in Chars
        PROVE  \E i \in 1..Len(report') : report'[i][1] = ch
    <3> DEFINE i == Len(report) + ch
    <3>1. i \in 1..Len(report) + LastChar /\ ~(i <= Len(report)) /\ i - Len(report) = ch
      BY <2>4
    <3>2. report'[i] = <<ch, pcc_total[ch]>>
      BY <2>1, <2>3, <3>1
    <3> QED
      BY <2>3, <3>1, <3>2
  <2> QED
    BY <2>2, <2>5, <2>6
<1>4. CASE Deferred \/ NetworkMoves \/ \E c \in Clients : ClientMoves(c)
  <2>1. UNCHANGED <<spc, char, report, exit_code, pcc_total>>
    BY <1>4, ClientTouchesNone DEF Deferred, NetworkMoves, server, request, stats, outcome
  <2> QED
    BY <2>1
<1> QED
  BY <1>1, <1>2, <1>3, <1>4, StepCases

\* The lines printed show totals that change no more (pcc_server.c:348-366, 404-424).
LEMMA ReportInvariant == Spec => []ReportInv
<1>1. Init => ReportInv
  BY DEF Init, ServerInit, ReportInv
<1>2. ASSUME CoreInv, ReportInv, [Next]_vars PROVE ReportInv'
  BY <1>2, ReportStep
<1> QED
  BY <1>1, <1>2, CoreInvariant, PTL DEF Spec

\* A server that exits with 0 has reported every character, and every line it has
\* printed shows the sum over the clients it has counted, never half of one, whenever
\* the SIGINT came (pcc_server.c:348-366, 404-424, 471-475).
THEOREM ReportCorrect == Spec => []ReportExact
<1>1. ASSUME CoreInv, TotalsExact, ReportInv PROVE ReportExact
  <2> SUFFICES ASSUME exit_code = 0 PROVE
         /\ {report[i][1] : i \in 1..Len(report)} = Chars
         /\ \A i \in 1..Len(report) : report[i][2] = Sum(counted, report[i][1]) % UintMod
    BY DEF ReportExact
  <2>1. spc # "update"
    BY <1>1 DEF CoreInv, Running
  <2>2. ASSUME NEW ch \in Chars PROVE pcc_total[ch] = Sum(counted, ch) % UintMod
    <3>1. pcc_total[ch] = (Sum(counted, ch) + 0) % UintMod
      BY <1>1, <2>1 DEF TotalsExact
    <3>2. Sum(counted, ch) \in Nat
      BY <1>1, TotalsTypes
    <3> QED
      BY <3>1, <3>2
  <2>3. \A i \in 1..Len(report) : report[i][1] \in Chars /\ report[i][2] = pcc_total[report[i][1]]
    BY <1>1 DEF ReportInv
  <2>4. \A ch \in Chars : \E i \in 1..Len(report) : report[i][1] = ch
    BY <1>1 DEF ReportInv, Reported
  <2> QED
    BY <2>2, <2>3, <2>4
<1> QED
  BY <1>1, CoreInvariant, TotalsCorrect, ReportInvariant, PTL

-----------------------------------------------------------------------------
(* The counting service.                                                   *)

\* What Service is given for totals, status and report.
Totals == [ch \in Chars |->
            IF spc = "update" /\ ch < char
            THEN (pcc_total[ch] - printable_chars_buffer[ch]) % UintMod
            ELSE pcc_total[ch]]
Status == IF Running THEN "open" ELSE IF exit_code = 0 THEN "reported" ELSE "lost"
Shown == [ch \in Chars |->
           IF exit_code # 0 THEN 0
           ELSE report[CHOOSE i \in 1..Len(report) : report[i][1] = ch][2]]

\* The update in progress does not show in the totals.
LEMMA UpdateHidden ==
  ASSUME ServiceInv, UpdatePccTotal
  PROVE  UNCHANGED <<counted, Totals, exit_code, report>>
<1> USE DEF ServiceInv
<1>1. /\ spc = "update" /\ spc' = "update" /\ char' = char + 1 /\ char \in Chars
      /\ pcc_total' = [pcc_total EXCEPT ![char] =
                         (pcc_total[char] + printable_chars_buffer[char]) % UintMod]
      /\ UNCHANGED <<counted, printable_chars_buffer, exit_code, report>>
  BY DEF UpdatePccTotal, outcome
<1> DEFINE v(ch) == IF ch < char
                    THEN (pcc_total[ch] - printable_chars_buffer[ch]) % UintMod
                    ELSE pcc_total[ch]
           w(ch) == IF ch < char'
                    THEN (pcc_total'[ch] - printable_chars_buffer[ch]) % UintMod
                    ELSE pcc_total'[ch]
<1>2. ASSUME NEW ch \in Chars PROVE w(ch) = v(ch)
  <2>1. CASE ch = char
    <3>1. ~(ch < char) /\ ch < char'
      BY <1>1, <2>1, TotalsTypes
    <3>2. pcc_total'[ch] = (pcc_total[ch] + printable_chars_buffer[ch]) % UintMod
      BY <1>1, <2>1 DEF CoreInv, TypeOK, ServerTypeOK
    <3>3. (((pcc_total[ch] + printable_chars_buffer[ch]) % UintMod) - printable_chars_buffer[ch])
            % UintMod = pcc_total[ch]
      BY TotalsTypes, ModUndo
    <3> QED
      BY <3>1, <3>2, <3>3
  <2>2. CASE ch # char
    <3>1. pcc_total'[ch] = pcc_total[ch]
      BY <1>1, <2>2 DEF CoreInv, TypeOK, ServerTypeOK
    <3>2. ch \in Nat /\ char \in Nat
      BY TotalsTypes
    <3>3. ch < char' <=> ch < char
      BY <1>1, <2>2, <3>2
    <3> QED
      BY <3>1, <3>3
  <2> QED
    BY <2>1, <2>2
<1>3. Totals = [ch \in Chars |-> v(ch)] /\ Totals' = [ch \in Chars |-> w(ch)]
  BY <1>1 DEF Totals
<1> HIDE DEF v, w
<1> QED
  BY <1>1, <1>2, <1>3

\* A client is counted when its update is complete.
LEMMA ClosingServes ==
  ASSUME ServiceInv, CloseClient
  PROVE  /\ fd \in Clients \ counted /\ counted' = counted \cup {fd}
         /\ Totals' = [ch \in Chars |-> (Totals[ch] + CharCount(fd)[ch]) % UintMod]
         /\ UNCHANGED <<exit_code, report>>
<1> USE DEF ServiceInv
<1>1. /\ spc = "update" /\ spc' = "closed" /\ char \notin Chars
      /\ counted' = counted \cup {fd} /\ UNCHANGED <<pcc_total, exit_code, report>>
  BY DEF CloseClient, outcome
<1>2. /\ fd \in Clients \ counted
      /\ printable_chars_buffer = CharCount(fd)
  BY <1>1 DEF RequestInv, Serving, CoreInv
<1>3. ASSUME NEW ch \in Chars
      PROVE  pcc_total[ch] = (Totals[ch] + CharCount(fd)[ch]) % UintMod
  <2>1. Totals[ch] = (pcc_total[ch] - CharCount(fd)[ch]) % UintMod
    BY <1>1, <1>2, TotalsTypes DEF Totals
  <2>2. (((pcc_total[ch] - CharCount(fd)[ch]) % UintMod) + CharCount(fd)[ch]) % UintMod
          = pcc_total[ch]
    BY <1>2, TotalsTypes, ModUndo
  <2> QED
    BY <2>1, <2>2
<1>4. Totals' = [ch \in Chars |-> pcc_total[ch]]
  BY <1>1 DEF Totals
<1> QED
  BY <1>1, <1>2, <1>3, <1>4

\* Between two updates the totals are pcc_total.
LEMMA TotalsSettled ==
  ASSUME CoreInv, [Next]_vars, ~UpdatePccTotal, ~CloseClient
  PROVE  UNCHANGED <<counted, Totals>>
<1>1. CASE WriteComplete
  <2>1. spc # "update" /\ char' = 1 /\ UNCHANGED <<counted, pcc_total>>
    BY <1>1 DEF WriteComplete, stats
  <2>2. \A ch \in Chars : ~(ch < char')
    BY <2>1, TotalsTypes
  <2> QED
    BY <2>1, <2>2 DEF Totals
<1>2. CASE ~WriteComplete
  BY <1>2, TotalsKept DEF Totals
<1> QED
  BY <1>1, <1>2

\* A server that has exited with 0 shows the totals.
ShownInv == exit_code = 0 => Shown = Totals

\* A report shows no part of an update (pcc_server.c:348-366, 860-896).
LEMMA ShownInvariant == Spec => []ShownInv
<1>1. ASSUME CoreInv, ReportInv PROVE ShownInv
  <2> SUFFICES ASSUME exit_code = 0 PROVE Shown = Totals
    BY DEF ShownInv
  <2>1. spc # "update"
    BY <1>1 DEF CoreInv, Running
  <2>2. ASSUME NEW ch \in Chars
        PROVE  report[CHOOSE i \in 1..Len(report) : report[i][1] = ch][2] = pcc_total[ch]
    BY <1>1 DEF ReportInv, Reported
  <2> QED
    BY <2>1, <2>2 DEF Shown, Totals
<1> QED
  BY <1>1, CoreInvariant, ReportInvariant, PTL

\* The server ends, in one of two ways.
LEMMA ServerEnds ==
  ASSUME CoreInv, Dies \/ Interrupted
  PROVE  Running /\ exit_code' \in {0, 1, 128} /\ ~UpdatePccTotal /\ ~CloseClient
<1>1. CASE Dies
  BY <1>1 DEF Dies, Running, UpdatePccTotal, CloseClient
<1>2. CASE Interrupted
  <2>1. spc # "update"
    BY <1>2, ClientsAssumption DEF Interrupted, SigintExits, InProcess, CoreInv, Serving
  <2> QED
    BY <1>2, <2>1
    DEF Interrupted, SigintExits, Terminate, Running, UpdatePccTotal, CloseClient
<1> QED
  BY <1>1, <1>2

\* Nothing else changes the status.
LEMMA StatusKept ==
  ASSUME CoreInv, [Next]_vars, ~Dies, ~Interrupted
  PROVE  UNCHANGED <<Status, Shown>>
<1>1. CASE ServerMoves
  <2>1. UNCHANGED exit_code /\ Running
    BY <1>1
    DEF ServerMoves, Starts, sigint_init, create_listen_queue, unchanged_start, CheckForOpen,
        Accept, Assign, ReadBytesFrom, ReadComplete, Drops, DropClient, CountCharsRead, WriteC,
        WriteComplete, UpdatePccTotal, CloseClient, ResetConnected, PrintLine, outcome, CoreInv
  <2> QED
    BY <2>1 DEF Status, Shown, Running
<1>2. CASE Deferred \/ NetworkMoves \/ \E c \in Clients : ClientMoves(c)
  <2>1. UNCHANGED <<exit_code, report>>
    BY <1>2, ClientTouchesNone DEF Deferred, NetworkMoves, server, outcome
  <2> QED
    BY <2>1 DEF Status, Shown, Running
<1> QED
  BY <1>1, <1>2, StepCases

\* Between two SIGINTs and whatever its clients and the network do, the server is the
\* counting service: a client is counted once and as a whole, and what is reported at
\* the end is the totals of the clients counted (pcc_server.c:348-366, 404-424, 860-896).
THEOREM Refinement == Spec => ImplementsService
<1> USE DEF Service!absvars, Totals, Status, Shown
<1>1. Init => Service!AbsInit
  BY DEF Init, ServerInit, Running, Service!AbsInit
<1>2. ASSUME ServiceInv, ShownInv', [Next]_vars
      PROVE  [Service!AbsNext]_(Service!absvars)
  <2> HIDE DEF Totals, Status, Shown
  <2>1. CASE UpdatePccTotal
    <3>1. Status' = Status /\ Shown' = Shown
      BY <1>2, <2>1, UpdateHidden DEF Status, Shown, Running
    <3>2. counted' = counted /\ Totals' = Totals
      BY <1>2, <2>1, UpdateHidden
    <3> QED
      BY <3>1, <3>2 DEF Totals, Status, Shown
  <2>2. CASE CloseClient
    <3>1. Status' = Status /\ Shown' = Shown
      BY <1>2, <2>2, ClosingServes DEF Status, Shown, Running
    <3>2. Running
      BY <1>2, <2>2 DEF ServiceInv, CoreInv, CloseClient
    <3>3. PICK c \in Clients \ counted :
            /\ counted' = counted \cup {c}
            /\ Totals' = [ch \in Chars |-> (Totals[ch] + CharCount(c)[ch]) % UintMod]
      BY <1>2, <2>2, ClosingServes
    <3>4. Service!Serve(c)
      BY <3>1, <3>2, <3>3 DEF Totals, Status, Shown, Service!Serve
    <3>5. \E d \in Clients : Service!Serve(d)
      BY <3>3, <3>4
    <3> QED
      BY <3>5 DEF Service!AbsNext
  <2>3. CASE Dies \/ Interrupted
    <3>1. Running /\ exit_code' \in {0, 1, 128} /\ counted' = counted /\ Totals' = Totals
      BY <1>2, <2>3, ServerEnds, TotalsSettled DEF ServiceInv
    <3>2. CASE exit_code' = 0
      <4>1. Shown' = Totals /\ Status = "open" /\ Status' = "reported"
        BY <1>2, <3>1, <3>2 DEF ShownInv, Status, Running
      <4>2. Service!Report
        BY <3>1, <4>1 DEF Totals, Status, Shown, Service!Report
      <4> QED
        BY <4>2 DEF Service!AbsNext
    <3>3. CASE exit_code' # 0
      <4>1. Shown' = Shown /\ Status = "open" /\ Status' = "lost"
        BY <3>1, <3>3 DEF Shown, Status, Running
      <4>2. Service!Lose
        BY <3>1, <4>1 DEF Totals, Status, Shown, Service!Lose
      <4> QED
        BY <4>2 DEF Service!AbsNext
    <3> QED
      BY <3>2, <3>3
  <2>4. CASE ~UpdatePccTotal /\ ~CloseClient /\ ~Dies /\ ~Interrupted
    <3>1. /\ counted' = counted /\ Totals' = Totals
          /\ Status' = Status /\ Shown' = Shown
      BY <1>2, <2>4, TotalsSettled, StatusKept DEF ServiceInv
    <3> QED
      BY <3>1 DEF Totals, Status, Shown
  <2> QED
    BY <2>1, <2>2, <2>3, <2>4
<1> QED
  BY <1>1, <1>2, ServiceInvariant, ShownInvariant, PTL
  DEF Spec, ImplementsService, Service!AbsSpec
=============================================================================
