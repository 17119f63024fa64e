----------------------------- MODULE PccProofs -----------------------------
(***************************************************************************)
(* Theorems about Pcc, for every set of clients and files, any widths of   *)
(* integers, and any bound on the connections and signals.                 *)
(*                                                                         *)
(* Sum, the total over a set of clients that the properties are stated     *)
(* with, is a fold: what it adds up to for every set has to be proved from *)
(* its recursion.  The provers cannot instantiate a theorem of induction;  *)
(* the proofs about Sum take a smallest counterexample instead.            *)
(***************************************************************************)
EXTENDS Pcc, FiniteSetTheorems, WellFoundedInduction, SequenceTheorems, TLAPS

-----------------------------------------------------------------------------
(* Counters that wrap.                                                     *)

\* What % leaves is a value of the counter.
LEMMA ModType ==
  ASSUME NEW m \in Nat \ {0}, NEW a \in Int
  PROVE  a % m \in 0..m - 1
  OBVIOUS

\* An addition can be undone.
LEMMA ModUndo ==
  ASSUME NEW m \in Nat \ {0}, NEW a \in 0..m - 1, NEW b \in 0..m - 1
  PROVE  /\ (((a + b) % m) - b) % m = a
         /\ (((a - b) % m) + b) % m = a
  OBVIOUS

\* Reducing a sum before an addition changes nothing.
LEMMA ModAdd ==
  ASSUME NEW m \in Nat \ {0}, NEW a \in Nat, NEW b \in Nat
  PROVE  ((a % m) + b) % m = (a + b) % m
<1> DEFINE q == a \div m
           r == a % m
<1>1. a = m * q + r /\ q \in Nat /\ r \in 0..m - 1
  OBVIOUS
<1> HIDE DEF q, r
<1> DEFINE e == (r + b) \div m
           t == (r + b) % m
<1>2. r + b = m * e + t /\ e \in Nat /\ t \in 0..m - 1
  BY <1>1
<1> DEFINE d == (a + b) \div m
           s == (a + b) % m
<1>3. a + b = m * d + s /\ d \in Nat /\ s \in 0..m - 1
  OBVIOUS
<1> HIDE DEF e, t, d, s
<1>4. m * (q + e) + t = m * d + s
  BY <1>1, <1>2, <1>3
<1> DEFINE k == q + e
<1>5. k \in Nat /\ m * k + t = m * d + s
  BY <1>1, <1>2, <1>4
<1> HIDE DEF k
<1>6. CASE k = d
  BY <1>2, <1>3, <1>5, <1>6 DEF r, s, t
<1>7. CASE k < d
  <2>1. m * (d - k) = t - s /\ m * (d - k) >= m
    BY <1>2, <1>3, <1>5, <1>7
  <2> QED
    BY <1>2, <1>3, <2>1
<1>8. CASE k > d
  <2>1. m * (k - d) = s - t /\ m * (k - d) >= m
    BY <1>2, <1>3, <1>5, <1>8
  <2> QED
    BY <1>2, <1>3, <2>1
<1> QED
  BY <1>3, <1>5, <1>6, <1>7, <1>8

-----------------------------------------------------------------------------
(* Smallest counterexamples.                                               *)

\* A set of numbers that is not empty has a least one.
LEMMA LeastNumber ==
  ASSUME NEW T \in SUBSET Nat, T # {}
  PROVE  \E n \in T : \A m \in T : n <= m
<1>1. PICK n \in T : \A m \in T : <<m, n>> \notin OpToRel(<, Nat)
  BY WFMin, NatLessThanWellFounded
<1>2. ASSUME NEW m \in T, m < n PROVE FALSE
  <2>1. <<m, n>> \in OpToRel(<, Nat)
    BY <1>2 DEF OpToRel
  <2> QED
    BY <1>1, <2>1
<1> QED
  BY <1>2

\* A set of finite sets that is not empty has one of least size.
LEMMA SmallestSet ==
  ASSUME NEW D, D # {}, \A S \in D : IsFiniteSet(S)
  PROVE  \E S \in D : \A T \in D : T \subseteq S => T = S
<1> DEFINE Sizes == {Cardinality(S) : S \in D}
<1>1. Sizes \in SUBSET Nat /\ Sizes # {}
  BY FS_CardinalityType
<1>2. PICK n \in Sizes : \A m \in Sizes : n <= m
  BY <1>1, LeastNumber
<1>3. PICK S \in D : n = Cardinality(S)
  BY <1>2
<1>4. ASSUME NEW T \in D, T \subseteq S PROVE T = S
  <2>1. Cardinality(S) <= Cardinality(T)
    BY <1>2, <1>3
  <2>2. Cardinality(T) <= Cardinality(S) /\ (Cardinality(S) = Cardinality(T) => S = T)
    BY <1>4, FS_Subset
  <2>3. Cardinality(S) \in Nat /\ Cardinality(T) \in Nat
    BY FS_CardinalityType
  <2> QED
    BY <2>1, <2>2, <2>3
<1> QED
  BY <1>4

-----------------------------------------------------------------------------
(* The recursion of Sum.                                                   *)

\* The element the fold takes next.
Chosen(S) == CHOOSE c \in S : TRUE

\* f is the function the fold iterates, over the subsets of S.
Iterates(f, S, ch) ==
  f = [s \in SUBSET S |->
         IF s = {} THEN 0 ELSE CharCount(Chosen(s))[ch] + f[s \ {Chosen(s)}]]

SumOf(S, ch) ==
  IF S = {} THEN 0 ELSE CharCount(Chosen(S))[ch] + Sum(S \ {Chosen(S)}, ch)

\* If there is such a function the sum is its value.
LEMMA SumIterates ==
  ASSUME NEW S, NEW ch, NEW g, Iterates(g, S, ch)
  PROVE  \E f : Iterates(f, S, ch) /\ Sum(S, ch) = f[S]
<1> DEFINE f == CHOOSE f : Iterates(f, S, ch)
<1>1. Iterates(f, S, ch)
  OBVIOUS
<1>2. Sum(S, ch) = f[S]
  BY DEF Sum, MapThenSumSet, MapThenFoldSet, Iterates, Chosen
<1> QED
  BY <1>1, <1>2

\* There is, for every finite set.
LEMMA SumRecursion ==
  ASSUME NEW S, IsFiniteSet(S), NEW ch
  PROVE  Sum(S, ch) = SumOf(S, ch)
<1> DEFINE D == {T \in SUBSET S : Sum(T, ch) # SumOf(T, ch)}
<1> SUFFICES ASSUME D # {} PROVE FALSE
  OBVIOUS
<1>0. \A T \in D : IsFiniteSet(T)
  BY FS_Subset
<1>1. PICK T \in D : \A U \in D : U \subseteq T => U = T
  <2> HIDE DEF D
  <2> QED
    BY <1>0, SmallestSet
<1>2. ASSUME NEW U \in SUBSET T, U # T PROVE Sum(U, ch) = SumOf(U, ch)
  BY <1>1, <1>2
<1> DEFINE g == [s \in SUBSET T |-> SumOf(s, ch)]
<1>3. ASSUME NEW s \in SUBSET T, s # {}
      PROVE  /\ Chosen(s) \in s
             /\ s \ {Chosen(s)} \in SUBSET T /\ s \ {Chosen(s)} # T
             /\ g[s \ {Chosen(s)}] = Sum(s \ {Chosen(s)}, ch)
  <2>1. Chosen(s) \in s
    BY <1>3 DEF Chosen
  <2>2. s \ {Chosen(s)} \in SUBSET T /\ s \ {Chosen(s)} # T
    BY <2>1
  <2> QED
    BY <1>2, <2>1, <2>2
<1>4. Iterates(g, T, ch)
  <2>1. ASSUME NEW s \in SUBSET T
        PROVE  g[s] = IF s = {} THEN 0 ELSE CharCount(Chosen(s))[ch] + g[s \ {Chosen(s)}]
    BY <1>3 DEF SumOf
  <2> HIDE DEF g
  <2>2. g = [s \in SUBSET T |-> g[s]]
    BY DEF g
  <2> QED
    BY <2>1, <2>2 DEF Iterates
<1>5. PICK f : Iterates(f, T, ch) /\ Sum(T, ch) = f[T]
  BY <1>4, SumIterates
<1>6. ASSUME NEW h, Iterates(h, T, ch), NEW s \in SUBSET T
      PROVE  h[s] = IF s = {} THEN 0 ELSE CharCount(Chosen(s))[ch] + h[s \ {Chosen(s)}]
  BY <1>6 DEF Iterates
<1>7. \A s \in SUBSET T : f[s] = g[s]
  <2> HIDE DEF g
  <2> DEFINE E == {s \in SUBSET T : f[s] # g[s]}
  <2> SUFFICES ASSUME E # {} PROVE FALSE
    OBVIOUS
  <2>1. \A s \in E : IsFiniteSet(s)
    BY FS_Subset
  <2>2. PICK s \in E : \A t \in E : t \subseteq s => t = s
    <3> HIDE DEF E
    <3> QED
      BY <2>1, SmallestSet
  <2>3. s # {}
    BY <1>4, <1>5, <1>6, <2>2
  <2>4. f[s \ {Chosen(s)}] = g[s \ {Chosen(s)}]
    BY <1>3, <2>2, <2>3
  <2> QED
    BY <1>4, <1>5, <1>6, <2>2, <2>3, <2>4
<1>8. Sum(T, ch) = SumOf(T, ch)
  BY <1>5, <1>7
<1> QED
  BY <1>1, <1>8

-----------------------------------------------------------------------------
(* What the sum is.                                                        *)

\* The size of a file, as a uint32_t, is a number below UintMod (pcc_server.c:318-330).
LEMMA SizeType ==
  ASSUME NEW c \in Clients
  PROVE  Size(c) \in 0..UintMod - 1 /\ Size(c) \in Nat
<1>1. Len(File[c]) \in Int
  BY FileAssumption
<1>2. UintMod \in Nat \ {0}
  BY WidthAssumption
<1> DEFINE n == Len(File[c])
<1>3. Size(c) = n % UintMod /\ n \in Int
  BY <1>1, Zenon DEF Size
<1> HIDE DEF n
<1>4. n % UintMod \in 0..UintMod - 1
  BY <1>2, <1>3, ModType
<1> QED
  BY <1>2, <1>3, <1>4

\* The number of occurrences of a character in a file, as a uint32_t.
LEMMA CountType ==
  ASSUME NEW c \in Clients, NEW ch \in Chars
  PROVE  CharCount(c)[ch] \in 0..UintMod - 1
<1> DEFINE found == {i \in 1..Size(c) : File[c][i] = ch}
<1>1. Size(c) \in Nat /\ UintMod \in Nat \ {0}
  BY SizeType, WidthAssumption
<1>3. IsFiniteSet(found)
  <2>1. IsFiniteSet(1..Size(c))
    BY <1>1, FS_Interval
  <2> QED
    BY <2>1, FS_Subset
<1>4. Cardinality(found) \in Nat
  BY <1>3, FS_CardinalityType
<1> QED
  BY <1>1, <1>4 DEF CharCount

\* Over no client the sum is 0.
LEMMA SumEmpty == \A ch : Sum({}, ch) = 0
  BY SumRecursion, FS_EmptySet DEF SumOf

\* A sum is a value of the counter.
LEMMA SumType ==
  ASSUME NEW S \in SUBSET Clients, NEW ch \in Chars
  PROVE  Sum(S, ch) \in Nat
<1> DEFINE D == {T \in SUBSET Clients : Sum(T, ch) \notin Nat}
<1> SUFFICES ASSUME D # {} PROVE FALSE
  OBVIOUS
<1>1. \A T \in SUBSET Clients : IsFiniteSet(T)
  BY FS_Subset, ClientsAssumption
<1>2. PICK T \in D : \A U \in D : U \subseteq T => U = T
  <2>1. \A T \in D : IsFiniteSet(T)
    BY <1>1
  <2> HIDE DEF D
  <2> QED
    BY <2>1, SmallestSet
<1>3. Sum(T, ch) = SumOf(T, ch)
  BY <1>1, SumRecursion
<1>4. CASE T = {}
  BY <1>2, <1>3, <1>4 DEF SumOf
<1>5. CASE T # {}
  <2>1. Chosen(T) \in T
    BY <1>5 DEF Chosen
  <2>2. Sum(T \ {Chosen(T)}, ch) \in Nat
    BY <1>2, <2>1
  <2>3. CharCount(Chosen(T))[ch] \in Nat
    BY <2>1, CountType
  <2> QED
    BY <1>2, <1>3, <1>5, <2>2, <2>3 DEF SumOf
<1> QED
  BY <1>4, <1>5

\* A client more adds its own count, whichever the fold takes first.
LEMMA SumAdds ==
  ASSUME NEW S \in SUBSET Clients, NEW c \in Clients \ S, NEW ch \in Chars
  PROVE  Sum(S \cup {c}, ch) = Sum(S, ch) + CharCount(c)[ch]
<1> DEFINE Adds(T, d) == Sum(T \cup {d}, ch) = Sum(T, ch) + CharCount(d)[ch]
           D == {T \in SUBSET Clients : \E d \in Clients \ T : ~Adds(T, d)}
<1> SUFFICES ASSUME D # {} PROVE FALSE
  OBVIOUS
<1>1. \A T \in SUBSET Clients : IsFiniteSet(T)
  BY FS_Subset, ClientsAssumption
<1>2. PICK T \in D : \A U \in D : U \subseteq T => U = T
  <2>1. \A T \in D : IsFiniteSet(T)
    BY <1>1
  <2> HIDE DEF D
  <2> QED
    BY <2>1, SmallestSet
<1>3. PICK d \in Clients \ T : ~Adds(T, d)
  BY <1>2
<1> DEFINE first == Chosen(T \cup {d})
<1>4. Sum(T \cup {d}, ch) = CharCount(first)[ch] + Sum((T \cup {d}) \ {first}, ch)
  BY <1>1, <1>2, <1>3, SumRecursion DEF SumOf
<1>5. first \in T \cup {d}
  BY DEF Chosen
<1> HIDE DEF first
<1>6. /\ Sum(T, ch) \in Nat /\ CharCount(d)[ch] \in Nat /\ CharCount(first)[ch] \in Nat
      /\ Sum(T \ {first}, ch) \in Nat
  BY <1>2, <1>3, <1>5, SumType, CountType
<1>7. CASE first = d
  <2>1. (T \cup {d}) \ {first} = T
    BY <1>3, <1>7
  <2>2. Sum(T \cup {d}, ch) = CharCount(d)[ch] + Sum(T, ch)
    BY <1>4, <1>7, <2>1
  <2> QED
    BY <1>3, <1>6, <2>2
<1>8. CASE first \in T
  <2> DEFINE U == T \ {first}
  <2>1. /\ U \in SUBSET Clients /\ U \subseteq T /\ U # T
        /\ d \in Clients \ U /\ first \in Clients \ U
        /\ (T \cup {d}) \ {first} = U \cup {d} /\ T = U \cup {first}
    BY <1>2, <1>3, <1>8
  <2>2. Adds(U, d) /\ Adds(U, first)
    BY <1>2, <2>1
  <2>3. /\ Sum((T \cup {d}) \ {first}, ch) = Sum(U, ch) + CharCount(d)[ch]
        /\ Sum(T, ch) = Sum(U, ch) + CharCount(first)[ch]
    BY <2>1, <2>2
  <2> QED
    BY <1>3, <1>4, <1>6, <2>3
<1> QED
  BY <1>5, <1>7, <1>8

-----------------------------------------------------------------------------
(* The inductive invariant.                                                *)

\* The server has accepted a client and not closed its socket; then it is the
\* client SIGINT finds in the global.
Serving == spc \in {"read_N", "read_data", "count", "write_C", "update"}

CoreInv ==
  /\ TypeOK
  /\ Running <=> spc \notin {"ended", "killed"}
  /\ spc = "accepted" \/ Serving => fd \in Clients
  /\ Serving => connected_file_fd = fd
  /\ spc = "closed" => connected_file_fd # NoClient

\* Nothing has been read from a client, or written to it.
Fresh(c) == got[c] = 0 /\ answered[c] = 0 /\ answer[c] = -1 /\ c \notin counted

InBacklog(c) == \E i \in 1..Len(backlog) : backlog[i] = c

\* A client connects once, and is accepted once.
ConnectInv ==
  /\ \A c \in Clients :
       cpc[c] \in {"file", "connect"} \/ InBacklog(c) => Fresh(c) /\ c # fd
  /\ \A c \in Clients : cpc[c] \in {"file", "connect"} => ~InBacklog(c)
  /\ \A i, j \in 1..Len(backlog) : backlog[i] = backlog[j] => i = j

\* The number of printable characters of a client's file.
Printable(c) == Cardinality({i \in 1..Size(c) : File[c][i] \in Chars}) % UintMod

\* How much of its request the server has read, and what it keeps of it.
RequestInv ==
  /\ spc = "accepted" => Fresh(fd)
  /\ Serving => fd \notin counted
  /\ spc \in {"read_N", "read_data", "count"} => answer[fd] = -1
  /\ spc = "read_N" => got[fd] = server_bytes
  /\ spc = "read_data" => got[fd] = IntBytes + server_bytes
  /\ spc \in {"count", "write_C", "update"} => got[fd] = IntBytes + Size(fd)
  /\ spc \in {"write_C", "update"} =>
       answer[fd] # -1 /\ printable_chars_buffer = CharCount(fd)

\* What has been counted or answered.
AnswerInv ==
  \A c \in Clients :
    /\ answer[c] # -1 => answer[c] = Printable(c)
    /\ answered[c] > 0 => answer[c] # -1
    /\ received[c] <= answered[c]

ReceiveInv ==
  \A c \in Clients :
    /\ cpc[c] \in {"file", "connect", "writeN", "writeData"} => received[c] = 0
    /\ cpc[c] = "readC" => received[c] = all_bytes[c]
    /\ cpc[c] = "ok" => received[c] = IntBytes

\* A whole answer is followed by the update of the totals.
CompleteInv ==
  \A c \in Clients : answered[c] >= IntBytes =>
    \/ c \in counted
    \/ fd = c /\ spc \in {"write_C", "update"}
    \/ exit_code > 0
    \/ client_end[c] = "rst"

-----------------------------------------------------------------------------
(* The steps.                                                              *)

\* The server ends, by itself or by a signal, and prints nothing more.
Dies ==
  /\ Running
  /\ spc' \in {"ended", "killed"} /\ exit_code' \in {0, 1, 128}
  /\ exit_code' = 0 <=> spc = "server_shutdown"
  /\ exit_code' = 0 => char \notin Chars /\ spc' = "ended"
  /\ spc # "update"
  /\ ServerCloses({fd} \cup {backlog[i] : i \in 1..Len(backlog)})
  /\ sigints' \in {sigints} \cup 0..MaxSigint
  /\ UNCHANGED <<streams, connected_file_fd, fd, sigint_ind, request, stats, report, client>>

\* SIGINT between two clients.
Interrupted ==
  /\ Running /\ sigints < MaxSigint /\ sigints' = sigints + 1
  /\ SigintExits /\ UNCHANGED client

Drops ==
  /\ spc \in {"read_N", "read_data"} \/ (spc = "write_C" /\ client_end[fd] = "rst")
  /\ DropClient

Starts == sigint_init \/ create_listen_queue

ServerMoves ==
  /\ \/ Starts \/ CheckForOpen \/ Accept \/ Assign \/ ReadBytesFrom \/ ReadComplete
     \/ Drops \/ CountCharsRead \/ WriteC \/ WriteComplete \/ UpdatePccTotal
     \/ CloseClient \/ ResetConnected \/ PrintLine
  /\ UNCHANGED client

Deferred ==
  /\ sigint_ind' = 1 /\ sigints < MaxSigint /\ sigints' = sigints + 1
  /\ UNCHANGED <<net, spc, connected_file_fd, fd, request, stats, outcome, client>>

Prepares(c) == BufferCreation(c) /\ cpc' = [cpc EXCEPT ![c] = "connect"]

Leaves(c) == Exits(c, "failed") \/ Exits(c, "killed")

ClientMoves(c) ==
  /\ Prepares(c) \/ Leaves(c) \/ Connect(c, Listening) \/ WriteBytes(c) \/ ReadC(c)
  /\ UNCHANGED server

\* The network, or a step of nobody.
NetworkMoves ==
  /\ client_end' \in [Clients -> {"none", "open", "fin", "finrst", "rst"}]
  /\ server_end' \in [Clients -> {"none", "open", "fin", "rst"}]
  /\ \A c \in Clients : client_end[c] = "rst" => client_end'[c] = "rst"
  /\ UNCHANGED <<backlog, sent, got, answered, received, server, client>>

\* Every step is one of the server, a client, the network, or a signal.
LEMMA StepCases ==
  ASSUME CoreInv, [Next]_vars
  PROVE  \/ ServerMoves \/ Dies \/ Interrupted \/ Deferred
         \/ \E c \in Clients : ClientMoves(c)
         \/ NetworkMoves
<1> USE DEF CoreInv
<1>1. CASE Running /\ ServerStep /\ UNCHANGED client
  <2>1. CASE ReadError \/ WriteError
    BY <1>1, <2>1 DEF ReadError, WriteError, Drops, ServerMoves
  <2>2. CASE NegativeCount
    BY <1>1, <2>2 DEF NegativeCount, Terminate, Dies, signals, stats
  <2>3. CASE BrokenPipe
    BY <1>1, <2>3 DEF BrokenPipe, Terminate, Dies, signals, stats
  <2>4. CASE ExitServer
    BY <1>1, <2>4 DEF ExitServer, Terminate, Dies, signals, stats
  <2> QED
    BY <1>1, <2>1, <2>2, <2>3, <2>4 DEF ServerStep, Starts, ServerMoves
<1>2. CASE Running /\ ServerFails /\ UNCHANGED client
  BY <1>2 DEF ServerFails, Terminate, Dies, signals, stats
<1>3. CASE Sigint /\ UNCHANGED <<streams, client>>
  <2>1. CASE SigintKills
    <3>1. sigints' \in 0..MaxSigint
      BY <1>3, SigintAssumption DEF Sigint, TypeOK, ServerTypeOK
    <3> QED
      BY <1>3, <2>1, <3>1 DEF Sigint, SigintKills, Terminate, Dies
  <2>2. CASE SigintExits
    BY <1>3, <2>2 DEF Sigint, Interrupted
  <2>3. CASE SigintDeferred
    BY <1>3, <2>3 DEF Sigint, SigintDeferred, Deferred
  <2> QED
    BY <1>3, <2>1, <2>2, <2>3 DEF Sigint
<1>4. ASSUME NEW c \in Clients, Clientele(c), UNCHANGED server
      PROVE  ClientMoves(c)
  BY <1>4
  DEF Clientele, ClientStep, BufferCreation, ConnectFails, WriteFails, ReadFails, ClientKilled,
      failed, Prepares, Leaves, ClientMoves
<1>5. CASE Network /\ UNCHANGED <<server, client>>
  <2>1. PICK c \in Clients : ResetAfterFin(c) \/ LinkFails(c)
    BY <1>5 DEF Network
  <2> QED
    BY <1>5, <2>1 DEF ResetAfterFin, LinkFails, NetworkMoves, TypeOK, NetTypeOK
<1>6. CASE UNCHANGED vars
  BY <1>6 DEF vars, net, NetworkMoves, TypeOK, NetTypeOK
<1> QED
  BY <1>1, <1>2, <1>3, <1>4, <1>5, <1>6 DEF Next

-----------------------------------------------------------------------------
(* Types, and where the server is.                                         *)

\* The characters are the numbers from 1.
LEMMA CharsType ==
  LastChar \in Nat \ {0} /\ Chars = 1..LastChar
<1> DEFINE k == Cardinality(Chars)
<1>1. k \in Nat \ {0} /\ Chars = 1..k
  BY CharsAssumption, FS_CardinalityType, FS_EmptySet
<1>2. k \in Chars /\ \A d \in Chars : d <= k
  BY <1>1
<1>3. LastChar \in Chars /\ \A d \in Chars : d <= LastChar
  BY <1>2 DEF LastChar
<1>4. LastChar = k
  BY <1>1, <1>2, <1>3
<1> QED
  BY <1>1, <1>4

\* A character has been dealt with, or comes next, or is still to come.
LEMMA CharSteps ==
  1 \in Chars /\ \A ch \in Chars : ch + 1 \in Chars \cup {LastChar + 1}
  BY CharsType

\* The answer is a number below UintMod.
LEMMA PrintableType ==
  ASSUME NEW c \in Clients
  PROVE  Printable(c) \in 0..UintMod - 1
<1> DEFINE found == {i \in 1..Size(c) : File[c][i] \in Chars}
<1>1. Size(c) \in Nat /\ UintMod \in Nat \ {0}
  BY SizeType, WidthAssumption
<1>2. IsFiniteSet(found)
  <2>1. IsFiniteSet(1..Size(c))
    BY <1>1, FS_Interval
  <2> QED
    BY <2>1, FS_Subset
<1>3. Cardinality(found) \in Nat
  BY <1>2, FS_CardinalityType
<1> QED
  BY <1>1, <1>3 DEF Printable

\* What the server writes is that number, and its counters are those of the
\* client it counts (pcc_server.c:805-822).
LEMMA CountResult ==
  ASSUME CoreInv, CountCharsRead
  PROVE  /\ fd \in Clients
         /\ C' = Printable(fd)
         /\ printable_chars_buffer' = CharCount(fd)
         /\ CharCount(fd) \in [Chars -> 0..UintMod - 1]
<1>1. fd \in Clients
  BY DEF CoreInv, CountCharsRead, Serving
<1> DEFINE n == Cardinality({i \in 1..Size(fd) : File[fd][i] \in Chars})
<1>2. C' = (0 + n) % UintMod /\ n \in Nat
  <2>1. IsFiniteSet(1..Size(fd))
    BY <1>1, SizeType, FS_Interval
  <2>2. IsFiniteSet({i \in 1..Size(fd) : File[fd][i] \in Chars})
    BY <2>1, FS_Subset
  <2> QED
    BY <2>2, FS_CardinalityType DEF CountCharsRead, InitialC
<1>3. C' = Printable(fd)
  <2>1. Printable(fd) = n % UintMod
    BY DEF Printable
  <2> HIDE DEF n
  <2> QED
    BY <1>2, <2>1
<1>4. \A ch \in Chars : CharCount(fd)[ch] \in 0..UintMod - 1
  BY <1>1, CountType
<1>5. \A ch \in Chars : (0 + CharCount(fd)[ch]) % UintMod = CharCount(fd)[ch]
  BY <1>4, WidthAssumption
<1>6. printable_chars_buffer' = [ch \in Chars |-> (0 + CharCount(fd)[ch]) % UintMod]
  BY DEF CountCharsRead, initallize_printable_chars_buffer
<1>7. CharCount(fd) = [ch \in Chars |-> CharCount(fd)[ch]]
  BY DEF CharCount
<1> QED
  BY <1>1, <1>3, <1>4, <1>5, <1>6, <1>7

\* The invariant of the server's place holds at the start.
LEMMA InitCore == Init => CoreInv
<1> SUFFICES ASSUME Init PROVE CoreInv
  OBVIOUS
<1>1. NetTypeOK
  BY QueueAssumption DEF Init, NetInit, NetTypeOK
<1>2. ServerTypeOK
  BY CharsType, WidthAssumption, SigintAssumption DEF Init, ServerInit, ServerTypeOK
<1>3. ClientTypeOK
  BY DEF Init, ClientInit, ClientTypeOK
<1> QED
  BY <1>1, <1>2, <1>3 DEF Init, ServerInit, CoreInv, TypeOK, Running, Serving

\* Closing sockets keeps the types of the network.
LEMMA ClosesType ==
  ASSUME NetTypeOK, NEW S, ServerCloses(S)
  PROVE  server_end' \in [Clients -> {"none", "open", "fin", "rst"}]
  BY DEF NetTypeOK, ServerCloses

\* A count as an int is itself, or negative.
LEMMA IntType ==
  ASSUME NEW c \in Clients
  PROVE  AsInt(Size(c)) \in Int /\ (AsInt(Size(c)) >= 0 => AsInt(Size(c)) = Size(c))
  BY SizeType, WidthAssumption DEF AsInt

\* What a client sends as N is its size.
LEMMA NumType ==
  ASSUME CoreInv
  PROVE  /\ num \in Int /\ Wanted \in Int /\ Wanted = num - server_bytes
         /\ spc # "read_data" => num = IntBytes
         /\ spc = "read_data" /\ num >= 0 => num = Size(fd)
<1>1. spc = "read_data" => fd \in Clients
  BY DEF CoreInv, Serving
<1> QED
  BY <1>1, IntType, WidthAssumption DEF CoreInv, TypeOK, ServerTypeOK, num, Wanted

\* k bytes more.
LEMMA BytesMore ==
  ASSUME NEW f \in [Clients -> Nat], NEW c \in Clients, NEW k \in Nat, NEW g,
         g = [f EXCEPT ![c] = @ + k]
  PROVE  /\ g \in [Clients -> Nat]
         /\ g[c] = f[c] + k
         /\ \A d \in Clients \ {c} : g[d] = f[d]
  OBVIOUS

\* A read of the server keeps the types of the network.
LEMMA BytesRead ==
  ASSUME CoreInv, ReadBytesFrom
  PROVE  /\ fd \in Clients
         /\ \E k \in Nat \ {0} :
              /\ k <= num - server_bytes /\ server_bytes' = server_bytes + k
              /\ got' \in [Clients -> Nat] /\ got'[fd] = got[fd] + k
              /\ \A d \in Clients \ {fd} : got'[d] = got[d]
<1>1. fd \in Clients /\ got \in [Clients -> Nat]
  BY DEF ReadBytesFrom, CoreInv, Serving, TypeOK, NetTypeOK
<1>2. PICK k \in 1..Wanted : got' = [got EXCEPT ![fd] = @ + k] /\ server_bytes' = server_bytes + k
  BY DEF ReadBytesFrom
<1>3. k \in Nat \ {0} /\ k <= num - server_bytes
  BY NumType
<1> QED
  BY <1>1, <1>2, <1>3, BytesMore

\* A write of the server keeps the types of the network.
LEMMA BytesWritten ==
  ASSUME CoreInv, WriteC
  PROVE  /\ fd \in Clients
         /\ \E k \in Nat \ {0} :
              /\ k <= num - server_bytes /\ server_bytes' = server_bytes + k
              /\ answered' \in [Clients -> Nat] /\ answered'[fd] = answered[fd] + k
              /\ \A d \in Clients \ {fd} : answered'[d] = answered[d]
<1>1. fd \in Clients /\ answered \in [Clients -> Nat]
  BY DEF WriteC, CoreInv, Serving, TypeOK, NetTypeOK
<1>2. PICK k \in 1..Wanted :
        answered' = [answered EXCEPT ![fd] = @ + k] /\ server_bytes' = server_bytes + k
  BY DEF WriteC
<1>3. k \in Nat \ {0} /\ k <= num - server_bytes
  BY NumType
<1> QED
  BY <1>1, <1>2, <1>3, BytesMore

\* Every step of the server keeps the types of the network.
LEMMA ServerNetTypes ==
  ASSUME CoreInv, ServerMoves
  PROVE  NetTypeOK'
<1> USE DEF CoreInv, TypeOK, NetTypeOK
<1>1. CASE Accept
  <2>1. Tail(backlog) \in Seq(Clients) /\ Len(Tail(backlog)) = Len(backlog) - 1
    BY <1>1, HeadTailProperties DEF Accept
  <2> QED
    BY <1>1, <2>1, QueueAssumption DEF Accept
<1>2. CASE ReadBytesFrom
  BY ZenonT(60), <1>2, BytesRead DEF ReadBytesFrom
<1>3. CASE WriteC
  BY ZenonT(60), <1>3, BytesWritten DEF WriteC
<1>4. CASE Drops \/ CloseClient
  <2>1. ServerCloses({fd}) /\ UNCHANGED streams
    BY <1>4 DEF Drops, DropClient, CloseClient
  <2> QED
    BY <2>1, ClosesType DEF streams
<1>5. CASE UNCHANGED net
  BY <1>5 DEF net
<1> QED
  BY <1>1, <1>2, <1>3, <1>4, <1>5
  DEF ServerMoves, Starts, sigint_init, create_listen_queue, unchanged_start, CheckForOpen, Assign,
      ReadComplete, CountCharsRead, WriteComplete, UpdatePccTotal, ResetConnected, PrintLine

\* The types of what the server keeps, and the place it is at.
LEMMA ServerTypes ==
  ASSUME CoreInv, ServerMoves
  PROVE  ServerTypeOK'
<1> USE DEF CoreInv, TypeOK, ServerTypeOK, signals, stats, outcome, request
<1>1. CASE Starts
  BY SMTT(30), <1>1 DEF Starts, sigint_init, create_listen_queue, unchanged_start
<1>2. CASE CheckForOpen \/ ResetConnected
  BY SMTT(30), <1>2, CharSteps DEF CheckForOpen, ResetConnected
<1>3. CASE Accept
  <2>1. Head(backlog) \in Clients
    BY <1>3, HeadTailProperties DEF Accept, NetTypeOK
  <2> QED
    BY <1>3, <2>1 DEF Accept
<1>4. CASE Assign
  BY <1>4, WidthAssumption DEF Assign, num
<1>5. CASE ReadBytesFrom
  <2>1. num' = num
    BY <1>5 DEF ReadBytesFrom, num
  <2>2. server_bytes' \in Nat /\ server_bytes' <= num
    <3>1. PICK k \in Nat \ {0} : k <= num - server_bytes /\ server_bytes' = server_bytes + k
      BY <1>5, BytesRead
    <3>2. server_bytes \in Nat /\ num \in Int
      BY NumType
    <3> QED
      BY <3>1, <3>2
  <2> QED
    BY <1>5, <2>1, <2>2 DEF ReadBytesFrom
<1>6. CASE ReadComplete
  BY <1>6, WidthAssumption DEF ReadComplete
<1>7. CASE Drops \/ CloseClient
  BY <1>7 DEF Drops, DropClient, CloseClient, Serving
<1>8. CASE CountCharsRead
  <2>1. C' \in 0..UintMod - 1 /\ printable_chars_buffer' \in [Chars -> 0..UintMod - 1]
    BY <1>8, CountResult, PrintableType
  <2>2. answer' \in [Clients -> -1..UintMod - 1]
    BY SMTT(30), <1>8, <2>1, CountResult, WidthAssumption DEF CountCharsRead
  <2> QED
    BY <1>8, <2>1, <2>2, WidthAssumption DEF CountCharsRead, num
<1>9. CASE WriteC
  <2>1. num' = num
    BY <1>9 DEF WriteC, num
  <2>2. server_bytes' \in Nat /\ server_bytes' <= num
    <3>1. PICK k \in Nat \ {0} : k <= num - server_bytes /\ server_bytes' = server_bytes + k
      BY <1>9, BytesWritten
    <3>2. server_bytes \in Nat /\ num \in Int
      BY NumType
    <3> QED
      BY <3>1, <3>2
  <2> QED
    BY <1>9, <2>1, <2>2 DEF WriteC
<1>10. CASE WriteComplete
  BY <1>10, CharSteps DEF WriteComplete
<1>11. CASE UpdatePccTotal
  <2>1. pcc_total' \in [Chars -> 0..UintMod - 1]
    <3> DEFINE sum == pcc_total[char] + printable_chars_buffer[char]
    <3>0. sum \in Int
      BY <1>11, WidthAssumption DEF UpdatePccTotal
    <3>1. sum % UintMod \in 0..UintMod - 1
      <4> HIDE DEF sum
      <4> QED
        BY <3>0, WidthAssumption, ModType
    <3> QED
      BY <1>11, <3>1 DEF UpdatePccTotal
  <2> QED
    BY <1>11, <2>1, CharSteps DEF UpdatePccTotal
<1>12. CASE PrintLine
  <2>1. Line(char) \in Chars \X (0..UintMod - 1)
    BY <1>12 DEF PrintLine, Line
  <2>2. report' \in Seq(Chars \X (0..UintMod - 1))
    BY <1>12, <2>1 DEF PrintLine
  <2> QED
    BY <1>12, <2>2, CharSteps DEF PrintLine
<1> QED
  BY <1>1, <1>2, <1>3, <1>4, <1>5, <1>6, <1>7, <1>8, <1>9, <1>10, <1>11, <1>12 DEF ServerMoves

\* Nothing a client does, but for how it ends, is outside the types.
LEMMA ClosingType ==
  ASSUME NetTypeOK, NEW c \in Clients, ClientCloses(c)
  PROVE  /\ client_end' \in [Clients -> {"none", "open", "fin", "finrst", "rst"}]
         /\ \A d \in Clients : client_end[d] = "rst" => client_end'[d] = "rst"
  BY DEF NetTypeOK, ClientCloses

\* A write of a client keeps the types of the network.
LEMMA BytesSent ==
  ASSUME CoreInv, NEW c \in Clients, WriteBytes(c)
  PROVE  /\ sent' \in [Clients -> Nat] /\ all_bytes' \in [Clients -> Nat]
         /\ \/ UNCHANGED cpc
            \/ cpc' = [cpc EXCEPT ![c] = NextCall(c)] /\ all_bytes' = [all_bytes EXCEPT ![c] = 0]
<1> USE DEF CoreInv, TypeOK, NetTypeOK, ClientTypeOK
<1>1. value(c) \in Int
  BY IntType, WidthAssumption DEF value
<1>2. PICK k \in 1..(value(c) - all_bytes[c]) :
        /\ sent' = [sent EXCEPT ![c] = @ + k]
        /\ \/ cpc' = [cpc EXCEPT ![c] = NextCall(c)] /\ all_bytes' = [all_bytes EXCEPT ![c] = 0]
           \/ all_bytes' = [all_bytes EXCEPT ![c] = @ + k] /\ UNCHANGED cpc
  BY DEF WriteBytes
<1>3. k \in Nat
  BY <1>1
<1>4. sent' \in [Clients -> Nat]
  BY <1>2, <1>3, BytesMore
<1>5. all_bytes' \in [Clients -> Nat]
  <2>1. CASE all_bytes' = [all_bytes EXCEPT ![c] = 0]
    BY <2>1
  <2>2. CASE all_bytes' = [all_bytes EXCEPT ![c] = @ + k]
    BY <1>3, <2>2, BytesMore
  <2> QED
    BY <1>2, <2>1, <2>2
<1> QED
  BY <1>2, <1>4, <1>5

\* A read of a client keeps the types of the network.
LEMMA BytesReceived ==
  ASSUME CoreInv, NEW c \in Clients, ReadC(c)
  PROVE  \E k \in Nat \ {0} :
           /\ k <= Unseen(c)
           /\ received' \in [Clients -> Nat] /\ received'[c] = received[c] + k
           /\ \A d \in Clients \ {c} : received'[d] = received[d]
           /\ all_bytes' \in [Clients -> Nat] /\ all_bytes'[c] = all_bytes[c] + k
           /\ \A d \in Clients \ {c} : all_bytes'[d] = all_bytes[d]
<1> USE DEF CoreInv, TypeOK, NetTypeOK, ClientTypeOK
<1>1. PICK k \in 1..(IntBytes - all_bytes[c]) :
        /\ k <= Unseen(c)
        /\ received' = [received EXCEPT ![c] = @ + k]
        /\ all_bytes' = [all_bytes EXCEPT ![c] = @ + k]
  BY DEF ReadC
<1>2. k \in Nat \ {0}
  BY <1>1, WidthAssumption
<1>3. /\ received' \in [Clients -> Nat] /\ received'[c] = received[c] + k
      /\ \A d \in Clients \ {c} : received'[d] = received[d]
  BY <1>1, <1>2, BytesMore
<1>4. /\ all_bytes' \in [Clients -> Nat] /\ all_bytes'[c] = all_bytes[c] + k
      /\ \A d \in Clients \ {c} : all_bytes'[d] = all_bytes[d]
  BY <1>1, <1>2, BytesMore
<1> QED
  BY <1>1, <1>2, <1>3, <1>4

\* A step of a client keeps the types (pcc_client.c:200-352).
LEMMA ClientTypes ==
  ASSUME CoreInv, NEW c \in Clients, ClientMoves(c)
  PROVE  NetTypeOK' /\ ClientTypeOK'
<1> USE DEF CoreInv, TypeOK, NetTypeOK, ClientTypeOK
<1>1. CASE Prepares(c)
  BY <1>1 DEF Prepares, BufferCreation, Exits, failed, net
<1>2. CASE Leaves(c)
  <2>1. client_end' \in [Clients -> {"none", "open", "fin", "finrst", "rst"}]
    BY <1>2, ClosingType DEF Leaves, Exits
  <2>2. cpc' \in [Clients -> {"file", "connect", "writeN", "writeData", "readC", "ok",
                              "failed", "killed"}]
    BY <1>2 DEF Leaves, Exits
  <2>3. UNCHANGED <<backlog, sent, got, answered, received, server_end, all_bytes>>
    BY <1>2 DEF Leaves, Exits
  <2> QED
    BY <2>1, <2>2, <2>3
<1>3. CASE Connect(c, Listening)
  <2>1. backlog' \in Seq(Clients) /\ Len(backlog') = Len(backlog) + 1
    BY <1>3 DEF Connect
  <2>2. Len(backlog') <= ListenQueue
    BY <1>3, <2>1, QueueAssumption DEF Connect
  <2> QED
    BY <1>3, <2>1, <2>2 DEF Connect
<1>4. CASE WriteBytes(c)
  <2>1. cpc' \in [Clients -> {"file", "connect", "writeN", "writeData", "readC", "ok",
                              "failed", "killed"}]
    BY <1>4, BytesSent DEF NextCall
  <2>2. sent' \in [Clients -> Nat] /\ all_bytes' \in [Clients -> Nat]
    BY <1>4, BytesSent
  <2>3. UNCHANGED <<backlog, got, answered, received, client_end, server_end>>
    BY <1>4 DEF WriteBytes
  <2> QED
    BY <2>1, <2>2, <2>3
<1>5. CASE ReadC(c)
  <2>1. received' \in [Clients -> Nat] /\ all_bytes' \in [Clients -> Nat]
    BY <1>5, BytesReceived
  <2>2. cpc' \in [Clients -> {"file", "connect", "writeN", "writeData", "readC", "ok",
                              "failed", "killed"}]
    BY ZenonT(60), <1>5 DEF ReadC
  <2>3. client_end' \in [Clients -> {"none", "open", "fin", "finrst", "rst"}]
    BY <1>5 DEF ReadC
  <2>4. UNCHANGED <<backlog, sent, got, answered, server_end>>
    BY <1>5 DEF ReadC
  <2> QED
    BY <2>1, <2>2, <2>3, <2>4
<1> QED
  BY <1>1, <1>2, <1>3, <1>4, <1>5 DEF ClientMoves

\* Where the server is and whom it serves.
LEMMA CoreInvariant == Spec => []CoreInv
<1>1. ASSUME CoreInv, [Next]_vars PROVE CoreInv'
  <2>1. CASE ServerMoves
    <3>1. TypeOK'
      BY <1>1, <2>1, ServerNetTypes, ServerTypes
      DEF ServerMoves, CoreInv, TypeOK, ClientTypeOK, client
    <3>2. Accept => Head(backlog) \in Clients
      BY <1>1, HeadTailProperties DEF Accept, CoreInv, TypeOK, NetTypeOK
    <3> QED
      BY <1>1, <2>1, <3>1, <3>2, ClientsAssumption
      DEF CoreInv, Running, Serving, outcome, unchanged_start,
          ServerMoves, Starts, sigint_init, create_listen_queue, CheckForOpen, Accept, Assign,
          ReadBytesFrom, ReadComplete, Drops, DropClient, CountCharsRead, WriteC, WriteComplete,
          UpdatePccTotal, CloseClient, ResetConnected, PrintLine
  <2>2. CASE Dies
    <3>1. NetTypeOK'
      BY <1>1, <2>2, ClosesType DEF Dies, streams, CoreInv, TypeOK, NetTypeOK
    <3>2. ServerTypeOK' /\ ClientTypeOK'
      BY SMTT(30), <1>1, <2>2
      DEF Dies, CoreInv, TypeOK, ServerTypeOK, ClientTypeOK, client, request, stats
    <3> QED
      BY <2>2, <3>1, <3>2 DEF Dies, CoreInv, TypeOK, Running, Serving
  <2>3. CASE Interrupted
    <3>1. NetTypeOK'
      BY <1>1, <2>3, ClosesType
      DEF Interrupted, SigintExits, Terminate, streams, CoreInv, TypeOK, NetTypeOK
    <3>2. report' \in Seq(Chars \X (0..UintMod - 1))
      <4> DEFINE lines == [ch \in Chars |-> Line(ch)]
      <4>1. lines \in Seq(Chars \X (0..UintMod - 1))
        BY SMTT(30), <1>1, CharsType DEF CoreInv, TypeOK, ServerTypeOK, Line
      <4> HIDE DEF lines
      <4>2. report' = report \o lines
        BY <2>3 DEF Interrupted, SigintExits, lines
      <4> QED
        BY <1>1, <4>1, <4>2, ConcatProperties DEF CoreInv, TypeOK, ServerTypeOK
    <3>3. sigints' \in 0..MaxSigint
      BY <1>1, <2>3, SigintAssumption DEF Interrupted, CoreInv, TypeOK, ServerTypeOK
    <3>4. ServerTypeOK' /\ ClientTypeOK'
      BY <1>1, <2>3, <3>2, <3>3
      DEF Interrupted, SigintExits, Terminate, CoreInv, TypeOK, ServerTypeOK, ClientTypeOK,
          client, request, stats
    <3> QED
      BY <2>3, <3>1, <3>4
      DEF Interrupted, SigintExits, Terminate, CoreInv, TypeOK, Running, Serving
  <2>4. CASE Deferred
    <3>1. sigints' \in 0..MaxSigint
      BY <1>1, <2>4, SigintAssumption DEF Deferred, CoreInv, TypeOK, ServerTypeOK
    <3> QED
      BY ZenonT(60), <1>1, <2>4, <3>1
      DEF Deferred, CoreInv, TypeOK, NetTypeOK, ServerTypeOK, ClientTypeOK, net, client, request,
          stats, outcome, num, Running, Serving
  <2>5. ASSUME NEW c \in Clients, ClientMoves(c) PROVE CoreInv'
    <3>1. NetTypeOK' /\ ClientTypeOK'
      BY <1>1, <2>5, ClientTypes
    <3> QED
      BY <1>1, <2>5, <3>1
      DEF ClientMoves, CoreInv, TypeOK, ServerTypeOK, server, signals, request, stats, outcome,
          num, Running, Serving
  <2>6. CASE NetworkMoves
    <3>1. NetTypeOK'
      BY <1>1, <2>6 DEF NetworkMoves, CoreInv, TypeOK, NetTypeOK
    <3>2. ServerTypeOK' /\ ClientTypeOK'
      BY <1>1, <2>6
      DEF NetworkMoves, CoreInv, TypeOK, ServerTypeOK, ClientTypeOK, server, client, signals,
          request, stats, outcome, num
    <3> QED
      BY <1>1, <2>6, <3>1, <3>2
      DEF NetworkMoves, CoreInv, TypeOK, server, outcome, Running, Serving
  <2> QED
    BY <1>1, <2>1, <2>2, <2>3, <2>4, <2>5, <2>6, StepCases
<1> QED
  BY <1>1, InitCore, PTL DEF Spec

\* Every counter, every number sent and every line of the report is of its type,
\* and no more bytes are asked for than a buffer holds (pcc_server.c:318-366,
\* 662-906, pcc_client.c:200-352).
THEOREM TypeCorrect == Spec => []TypeOK
<1>1. CoreInv => TypeOK
  BY DEF CoreInv
<1> QED
  BY <1>1, CoreInvariant, PTL

-----------------------------------------------------------------------------
(* One client at a time, from its first byte to its last.                  *)

\* What the server has of a client.
Untouched(c) ==
  /\ got'[c] = got[c] /\ answered'[c] = answered[c] /\ answer'[c] = answer[c]
  /\ c \in counted' <=> c \in counted

\* Between two calls of accept the server touches nobody but its client.
LEMMA OthersUntouched ==
  ASSUME CoreInv, ServerMoves
  PROVE  /\ \A c \in Clients \ {fd} : Untouched(c)
         /\ ~Accept => UNCHANGED backlog /\ fd' \in {fd, NoClient}
<1> USE DEF Untouched, stats, request, streams
<1>1. CASE Accept
  BY <1>1 DEF Accept
<1>2. CASE ReadBytesFrom
  BY <1>2, BytesRead DEF ReadBytesFrom
<1>3. CASE WriteC
  BY <1>3, BytesWritten DEF WriteC
<1>4. CASE Drops \/ CloseClient
  BY <1>4 DEF Drops, DropClient, CloseClient
<1>5. CASE CountCharsRead
  BY <1>5 DEF CountCharsRead, CoreInv, TypeOK, ServerTypeOK, net
<1>6. CASE UNCHANGED <<net, fd, answer, counted>>
  BY <1>6 DEF net
<1> QED
  BY <1>1, <1>2, <1>3, <1>4, <1>5, <1>6
  DEF ServerMoves, Starts, sigint_init, create_listen_queue, unchanged_start, CheckForOpen, Assign,
      ReadComplete, WriteComplete, UpdatePccTotal, ResetConnected, PrintLine

\* Nobody else touches anybody.
LEMMA NobodyTouched ==
  ASSUME Dies \/ Interrupted \/ Deferred \/ NetworkMoves
  PROVE  UNCHANGED <<backlog, fd, got, answered, received, answer, counted, cpc, all_bytes>>
  BY DEF Dies, Interrupted, SigintExits, Deferred, NetworkMoves, streams, net, request, stats,
         server, client

\* ConnectInv is inductive (pcc_server.c:676-700).
LEMMA ConnectStep ==
  ASSUME CoreInv, ConnectInv, [Next]_vars
  PROVE  ConnectInv'
<1> USE DEF ConnectInv, InBacklog, Fresh
<1>1. CASE ServerMoves /\ ~Accept
  <2>1. UNCHANGED <<backlog, cpc>> /\ fd' \in {fd, NoClient}
    BY <1>1, OthersUntouched DEF ServerMoves, client
  <2>2. \A c \in Clients \ {fd} : Untouched(c)
    BY <1>1, OthersUntouched
  <2> QED
    BY <2>1, <2>2, ClientsAssumption DEF Untouched
<1>2. CASE ServerMoves /\ Accept
  <2>1. /\ fd' = backlog[1] /\ Len(backlog') = Len(backlog) - 1 /\ Len(backlog) \in Nat \ {0}
        /\ \A i \in 1..Len(backlog') : backlog'[i] = backlog[i + 1]
    BY <1>2, HeadTailProperties DEF Accept, CoreInv, TypeOK, NetTypeOK
  <2>2. UNCHANGED <<got, answered, answer, counted, cpc>>
    BY <1>2 DEF Accept, ServerMoves, client, request, stats
  <2>3. \A i \in 1..Len(backlog') :
          i + 1 \in 1..Len(backlog) /\ i + 1 # 1 /\ backlog'[i] = backlog[i + 1]
    BY <2>1
  <2>4. 1 \in 1..Len(backlog)
    BY <2>1
  <2>5. ASSUME NEW c \in Clients, cpc[c] \in {"file", "connect"} \/ InBacklog(c)'
        PROVE  Fresh(c) /\ c # fd'
    BY <2>1, <2>2, <2>3, <2>4, <2>5
  <2>6. ASSUME NEW c \in Clients, cpc[c] \in {"file", "connect"} PROVE ~InBacklog(c)'
    BY <2>3, <2>6
  <2>7. ASSUME NEW i \in 1..Len(backlog'), NEW j \in 1..Len(backlog'), backlog'[i] = backlog'[j]
        PROVE  i = j
    <3>1. i + 1 = j + 1
      BY <2>3, <2>7
    <3> QED
      BY <3>1
  <2> QED
    BY <2>2, <2>5, <2>6, <2>7
<1>3. CASE Dies \/ Interrupted \/ Deferred \/ NetworkMoves
  BY <1>3, NobodyTouched
<1>4. ASSUME NEW c \in Clients, ClientMoves(c) PROVE ConnectInv'
  <2>1. UNCHANGED <<fd, got, answered, answer, counted>>
    BY <1>4
    DEF ClientMoves, server, request, stats, Prepares, BufferCreation, Exits, net, failed, Leaves,
        Connect, WriteBytes, ReadC
  <2>2. CASE Connect(c, Listening)
    <3>1. /\ Len(backlog) \in Nat /\ Len(backlog') = Len(backlog) + 1
          /\ \A i \in 1..Len(backlog) : backlog'[i] = backlog[i]
          /\ backlog'[Len(backlog) + 1] = c
      BY SMTT(30), <2>2 DEF Connect, CoreInv, TypeOK, NetTypeOK
    <3>2. \A i \in 1..Len(backlog') :
            \/ i \in 1..Len(backlog) /\ backlog'[i] = backlog[i]
            \/ i = Len(backlog) + 1 /\ backlog'[i] = c
      BY <3>1
    <3>3. cpc[c] = "connect" /\ cpc' = [cpc EXCEPT ![c] = "writeN"]
      BY <2>2 DEF Connect
    <3> QED
      BY SMTT(30), <2>1, <3>2, <3>3 DEF CoreInv, TypeOK, ClientTypeOK
  <2>3. CASE ~Connect(c, Listening)
    <3>1. UNCHANGED backlog
      BY <1>4, <2>3
      DEF ClientMoves, Prepares, BufferCreation, Exits, net, failed, Leaves, WriteBytes, ReadC
    <3>2. \A d \in Clients : cpc'[d] \in {"file", "connect"} => cpc[d] \in {"file", "connect"}
      BY <1>4, <2>3, BytesSent
      DEF ClientMoves, Prepares, BufferCreation, Leaves, Exits, failed, NextCall, WriteBytes, ReadC,
          CoreInv, TypeOK, ClientTypeOK
    <3> QED
      BY <2>1, <3>1, <3>2
  <2> QED
    BY <2>2, <2>3
<1> QED
  BY <1>1, <1>2, <1>3, <1>4, StepCases

\* A client leaves what the server has of it alone.
LEMMA ClientTouchesNone ==
  ASSUME NEW c \in Clients, ClientMoves(c)
  PROVE  UNCHANGED <<got, answered, server>>
  BY DEF ClientMoves, Prepares, BufferCreation, Exits, net, failed, Leaves, Connect, WriteBytes,
         ReadC

\* The server counts bytes as it reads them, and goes on when it has them all.
LEMMA RequestStep ==
  ASSUME CoreInv, ConnectInv, RequestInv, [Next]_vars
  PROVE  RequestInv'
<1> USE DEF RequestInv, Fresh, Serving
<1>1. CASE ServerMoves
  <2> USE <1>1 DEF stats, request, streams
  <2>1. CASE Starts \/ CheckForOpen \/ ResetConnected \/ PrintLine \/ Drops \/ CloseClient
    BY <2>1
    DEF Starts, sigint_init, create_listen_queue, unchanged_start, CheckForOpen, ResetConnected,
        PrintLine, Drops, DropClient, CloseClient
  <2>2. CASE Accept
    <3>1. fd' \in Clients /\ InBacklog(fd')
      BY <2>2, HeadTailProperties DEF Accept, InBacklog, CoreInv, TypeOK, NetTypeOK
    <3>2. Fresh(fd')
      BY <3>1 DEF ConnectInv
    <3> QED
      BY <2>2, <3>2 DEF Accept
  <2>3. CASE Assign
    BY <2>3 DEF Assign, net
  <2>4. CASE ReadBytesFrom
    <3>1. PICK k \in Nat : server_bytes' = server_bytes + k /\ got'[fd] = got[fd] + k
      BY <2>4, BytesRead
    <3>2. server_bytes \in Nat /\ got[fd] \in Nat /\ IntBytes \in Nat
      BY <2>4, BytesRead, WidthAssumption DEF CoreInv, TypeOK, NetTypeOK, ServerTypeOK
    <3> QED
      BY <2>4, <3>1, <3>2 DEF ReadBytesFrom
  <2>5. CASE ReadComplete
    <3>1. server_bytes = num /\ server_bytes \in Nat /\ fd \in Clients
      BY <2>5 DEF ReadComplete, AllRead, CoreInv, TypeOK, ServerTypeOK
    <3>2. spc = "read_N" => num = IntBytes
      BY NumType
    <3>3. spc = "read_data" => num = Size(fd)
      BY <3>1, NumType
    <3> QED
      BY <2>5, <3>1, <3>2, <3>3, WidthAssumption DEF ReadComplete, net
  <2>6. CASE CountCharsRead
    <3>1. fd \in Clients /\ C' \in 0..UintMod - 1 /\ printable_chars_buffer' = CharCount(fd)
      BY <2>6, CountResult, PrintableType
    <3>2. answer'[fd] = C'
      BY <2>6, <3>1 DEF CountCharsRead, CoreInv, TypeOK, ServerTypeOK
    <3>3. C' # -1
      BY <3>1, WidthAssumption
    <3> QED
      BY <2>6, <3>1, <3>2, <3>3 DEF CountCharsRead, net
  <2>7. CASE WriteC \/ WriteComplete
    BY <2>7 DEF WriteC, WriteComplete, net
  <2>8. CASE UpdatePccTotal
    BY <2>8 DEF UpdatePccTotal, net
  <2> QED
    BY <2>1, <2>2, <2>3, <2>4, <2>5, <2>6, <2>7, <2>8 DEF ServerMoves
<1>2. CASE Dies \/ Interrupted
  BY <1>2 DEF Dies, Interrupted, SigintExits, Terminate
<1>3. CASE Deferred \/ NetworkMoves
  BY <1>3 DEF Deferred, NetworkMoves, net, request, stats, server
<1>4. ASSUME NEW c \in Clients, ClientMoves(c) PROVE RequestInv'
  BY <1>4, ClientTouchesNone DEF server, request, stats
<1> QED
  BY <1>1, <1>2, <1>3, <1>4, StepCases

\* OnlyWholeFiles is inductive, given what has been read of the request.
LEMMA WholeStep ==
  ASSUME CoreInv, RequestInv, OnlyWholeFiles, [Next]_vars
  PROVE  OnlyWholeFiles'
<1> USE DEF OnlyWholeFiles
<1>1. CASE ServerMoves
  <2>1. ASSUME NEW c \in Clients \ {fd}, c \in counted' \/ answer'[c] # -1
        PROVE  got'[c] = IntBytes + Size(c)
    BY <1>1, <2>1, OthersUntouched DEF Untouched
  <2>2. ASSUME fd \in Clients, fd \in counted' \/ answer'[fd] # -1
        PROVE  got'[fd] = IntBytes + Size(fd)
    <3>1. CASE ReadBytesFrom
      <4>1. fd \notin counted' /\ answer'[fd] = -1
        BY <3>1 DEF ReadBytesFrom, stats, RequestInv, Serving
      <4> QED
        BY <2>2, <4>1
    <3>2. CASE CountCharsRead \/ CloseClient
      BY <3>2 DEF CountCharsRead, CloseClient, net, streams, RequestInv
    <3>3. CASE ~ReadBytesFrom /\ ~CountCharsRead /\ ~CloseClient
      <4>1. UNCHANGED <<got, answer, counted>>
        BY <1>1, <3>3
        DEF ServerMoves, Starts, sigint_init, create_listen_queue, unchanged_start, CheckForOpen,
            Accept, Assign, ReadComplete, Drops, DropClient, WriteC, WriteComplete, UpdatePccTotal,
            ResetConnected, PrintLine, net, streams, request, stats
      <4> QED
        BY <2>2, <4>1
    <3> QED
      BY <3>1, <3>2, <3>3
  <2> QED
    BY <2>1, <2>2
<1>2. CASE Dies \/ Interrupted \/ Deferred \/ NetworkMoves
  BY <1>2, NobodyTouched
<1>3. ASSUME NEW c \in Clients, ClientMoves(c) PROVE OnlyWholeFiles'
  BY <1>3, ClientTouchesNone DEF server, request, stats
<1> QED
  BY <1>1, <1>2, <1>3, StepCases

ServiceInv == CoreInv /\ ConnectInv /\ RequestInv

\* A client is accepted once, and its request is what it has sent.
LEMMA ServiceInvariant == Spec => []ServiceInv
<1>1. Init => ConnectInv /\ RequestInv
  BY ClientsAssumption
  DEF Init, NetInit, ServerInit, ClientInit, ConnectInv, RequestInv, InBacklog, Fresh, Serving
<1>2. ASSUME CoreInv, CoreInv', ServiceInv, [Next]_vars PROVE ServiceInv'
  BY <1>2, ConnectStep, RequestStep DEF ServiceInv
<1> QED
  BY <1>1, <1>2, InitCore, CoreInvariant, PTL DEF Spec, ServiceInv

\* Nothing is counted or answered before the whole file has been read, even if
\* the client stops in the middle (pcc_server.c:729-735, 802-808).
THEOREM WholeFiles == Spec => []OnlyWholeFiles
<1>1. Init => OnlyWholeFiles
  BY DEF Init, ServerInit, OnlyWholeFiles
<1>2. ASSUME ServiceInv, OnlyWholeFiles, [Next]_vars PROVE OnlyWholeFiles'
  BY <1>2, WholeStep DEF ServiceInv
<1> QED
  BY <1>1, <1>2, ServiceInvariant, PTL DEF Spec

-----------------------------------------------------------------------------
(* The answer.                                                             *)

\* AnswerInv is inductive (pcc_server.c:816-852).
LEMMA AnswerStep ==
  ASSUME ServiceInv, AnswerInv, [Next]_vars
  PROVE  AnswerInv'
<1> USE DEF AnswerInv, ServiceInv
<1>0. \A c \in Clients : answered[c] \in Nat /\ received[c] \in Nat
  BY DEF CoreInv, TypeOK, NetTypeOK
<1>1. CASE ServerMoves
  <2>1. UNCHANGED received
    BY <1>1
    DEF ServerMoves, Starts, sigint_init, create_listen_queue, unchanged_start, CheckForOpen,
        Accept, Assign, ReadBytesFrom, ReadComplete, Drops, DropClient, CountCharsRead, WriteC,
        WriteComplete, UpdatePccTotal, CloseClient, ResetConnected, PrintLine, net, streams
  <2>2. CASE CountCharsRead
    <3>1. fd \in Clients /\ answer' = [answer EXCEPT ![fd] = Printable(fd)] /\ UNCHANGED answered
      BY <2>2, CountResult DEF CountCharsRead, net
    <3>2. Printable(fd) \in Nat /\ answer \in [Clients -> -1..UintMod - 1]
      BY <3>1, PrintableType, WidthAssumption DEF CoreInv, TypeOK, ServerTypeOK
    <3> QED
      BY <2>1, <3>1, <3>2
  <2>3. CASE WriteC
    <3>1. UNCHANGED answer /\ answer[fd] # -1
      BY <2>3 DEF WriteC, RequestInv
    <3>2. PICK k \in Nat \ {0} :
            /\ answered'[fd] = answered[fd] + k
            /\ \A d \in Clients \ {fd} : answered'[d] = answered[d]
      BY <2>3, BytesWritten
    <3> QED
      BY <1>0, <2>1, <3>1, <3>2
  <2>4. CASE ~CountCharsRead /\ ~WriteC
    <3>1. UNCHANGED <<answer, answered>>
      BY <1>1, <2>4
      DEF ServerMoves, Starts, sigint_init, create_listen_queue, unchanged_start, CheckForOpen,
          Accept, Assign, ReadBytesFrom, ReadComplete, Drops, DropClient, WriteComplete,
          UpdatePccTotal, CloseClient, ResetConnected, PrintLine, net, streams, request
    <3> QED
      BY <2>1, <3>1
  <2> QED
    BY <2>2, <2>3, <2>4
<1>2. CASE Dies \/ Interrupted \/ Deferred \/ NetworkMoves
  BY <1>2, NobodyTouched
<1>3. ASSUME NEW c \in Clients, ClientMoves(c) PROVE AnswerInv'
  <2>1. UNCHANGED <<answer, answered>>
    BY <1>3, ClientTouchesNone DEF server, request
  <2>2. CASE ReadC(c)
    <3>1. PICK k \in Nat \ {0} :
            /\ k <= Unseen(c) /\ received'[c] = received[c] + k
            /\ \A d \in Clients \ {c} : received'[d] = received[d]
      BY <2>2, BytesReceived
    <3> QED
      BY <1>0, <2>1, <3>1 DEF Unseen
  <2>3. CASE ~ReadC(c)
    <3>1. UNCHANGED received
      BY <1>3, <2>3
      DEF ClientMoves, Prepares, BufferCreation, Exits, net, failed, Leaves, Connect, WriteBytes
    <3> QED
      BY <2>1, <3>1
  <2> QED
    BY <2>2, <2>3
<1> QED
  BY <1>1, <1>2, <1>3, StepCases

\* ReceiveInv is inductive (pcc_client.c:338-352).
LEMMA ReceiveStep ==
  ASSUME CoreInv, ReceiveInv, [Next]_vars
  PROVE  ReceiveInv'
<1> USE DEF ReceiveInv
<1>1. CASE ServerMoves
  <2>1. UNCHANGED <<received, cpc, all_bytes>>
    BY <1>1
    DEF ServerMoves, Starts, sigint_init, create_listen_queue, unchanged_start, CheckForOpen,
        Accept, Assign, ReadBytesFrom, ReadComplete, Drops, DropClient, CountCharsRead, WriteC,
        WriteComplete, UpdatePccTotal, CloseClient, ResetConnected, PrintLine, net, streams, client
  <2> QED
    BY <2>1
<1>2. CASE Dies \/ Interrupted \/ Deferred \/ NetworkMoves
  BY <1>2, NobodyTouched
<1>3. ASSUME NEW c \in Clients, ClientMoves(c) PROVE ReceiveInv'
  <2> USE DEF CoreInv, TypeOK, ClientTypeOK
  <2>1. CASE ReadC(c)
    <3>1. PICK k \in Nat \ {0} :
            /\ received'[c] = received[c] + k /\ all_bytes'[c] = all_bytes[c] + k
            /\ \A d \in Clients \ {c} : received'[d] = received[d] /\ all_bytes'[d] = all_bytes[d]
      BY <2>1, BytesReceived
    <3>2. cpc[c] = "readC" /\ (cpc' = cpc \/ (received'[c] = IntBytes /\ cpc' = [cpc EXCEPT ![c] = "ok"]))
      BY <2>1 DEF ReadC, AllReceived
    <3> QED
      BY <3>1, <3>2
  <2>2. CASE WriteBytes(c)
    <3>1. UNCHANGED received /\ cpc[c] \in {"writeN", "writeData"}
      BY <2>2 DEF WriteBytes
    <3>2. \/ UNCHANGED cpc /\ all_bytes' \in [Clients -> Nat]
          \/ cpc' = [cpc EXCEPT ![c] = NextCall(c)] /\ all_bytes' = [all_bytes EXCEPT ![c] = 0]
      BY <2>2, BytesSent
    <3>3. \A d \in Clients \ {c} : all_bytes'[d] = all_bytes[d]
      BY <2>2 DEF WriteBytes
    <3> QED
      BY <3>1, <3>2, <3>3 DEF NextCall
  <2>3. CASE Prepares(c) \/ Leaves(c) \/ Connect(c, Listening)
    BY <2>3 DEF Prepares, BufferCreation, Exits, net, failed, Leaves, Connect
  <2> QED
    BY <1>3, <2>1, <2>2, <2>3 DEF ClientMoves
<1> QED
  BY <1>1, <1>2, <1>3, StepCases

\* The number a client prints has arrived as a whole and is that of the printable
\* characters of its own file, whatever clients came before it (pcc_server.c:816-852,
\* pcc_client.c:338-352).
THEOREM AnswersCorrect == Spec => []AnswersExact
<1>1. Init => AnswerInv /\ ReceiveInv
  BY DEF Init, NetInit, ServerInit, ClientInit, AnswerInv, ReceiveInv
<1>2. ASSUME ServiceInv, AnswerInv, ReceiveInv, [Next]_vars PROVE AnswerInv' /\ ReceiveInv'
  BY <1>2, AnswerStep, ReceiveStep DEF ServiceInv
<1>3. ASSUME ServiceInv, AnswerInv, ReceiveInv PROVE AnswersExact
  <2>1. ASSUME NEW c \in Clients, cpc[c] = "ok"
        PROVE  received[c] = IntBytes /\ answer[c] = Printable(c)
    <3>1. received[c] = IntBytes /\ received[c] <= answered[c] /\ answered[c] \in Nat
      BY <1>3, <2>1 DEF ReceiveInv, AnswerInv, ServiceInv, CoreInv, TypeOK, NetTypeOK
    <3>2. answered[c] > 0
      BY <3>1, WidthAssumption
    <3> QED
      BY <1>3, <3>1, <3>2 DEF AnswerInv
  <2> QED
    BY <2>1 DEF AnswersExact, Printable
<1> QED
  BY <1>1, <1>2, <1>3, ServiceInvariant, PTL DEF Spec

\* CompleteInv is inductive (pcc_server.c:845-900).
LEMMA CompleteStep ==
  ASSUME ServiceInv, CompleteInv, [Next]_vars
  PROVE  CompleteInv'
<1> USE DEF CompleteInv, ServiceInv
<1>0. \A c \in Clients : answered[c] \in Nat
  BY DEF CoreInv, TypeOK, NetTypeOK
<1>1. CASE ServerMoves
  <2>1. UNCHANGED <<exit_code, client_end>>
    BY <1>1
    DEF ServerMoves, Starts, sigint_init, create_listen_queue, unchanged_start, CheckForOpen,
        Accept, Assign, ReadBytesFrom, ReadComplete, Drops, DropClient, CountCharsRead, WriteC,
        WriteComplete, UpdatePccTotal, CloseClient, ResetConnected, PrintLine, net, streams, outcome
  <2>2. ASSUME NEW c \in Clients, ~(fd = c /\ spc \in {"write_C", "update"}),
               answered'[c] >= IntBytes
        PROVE  c \in counted' \/ exit_code > 0 \/ client_end[c] = "rst"
    <3>1. answered'[c] = answered[c]
      BY <1>1, <2>2, OthersUntouched
      DEF Untouched, ServerMoves, Starts, sigint_init, create_listen_queue, unchanged_start,
          CheckForOpen, Accept, Assign, ReadBytesFrom, ReadComplete, Drops, DropClient,
          CountCharsRead, WriteC, WriteComplete, UpdatePccTotal, CloseClient, ResetConnected,
          PrintLine, net, streams
    <3>2. counted \subseteq counted'
      BY <1>1
      DEF ServerMoves, Starts, sigint_init, create_listen_queue, unchanged_start,
          CheckForOpen, Accept, Assign, ReadBytesFrom, ReadComplete, Drops, DropClient,
          CountCharsRead, WriteC, WriteComplete, UpdatePccTotal, CloseClient, ResetConnected,
          PrintLine, stats
    <3> QED
      BY <2>2, <3>1, <3>2
  <2>3. ASSUME spc \in {"write_C", "update"}
        PROVE  \/ fd' = fd /\ spc' \in {"write_C", "update"}
               \/ fd \in counted' \/ client_end[fd] = "rst"
    BY <1>1, <2>3
    DEF ServerMoves, Starts, sigint_init, create_listen_queue, unchanged_start, CheckForOpen,
        Accept, Assign, ReadBytesFrom, ReadComplete, Drops, DropClient, CountCharsRead, WriteC,
        WriteComplete, UpdatePccTotal, CloseClient, ResetConnected, PrintLine
  <2> QED
    BY <2>1, <2>2, <2>3
<1>2. CASE Dies
  BY <1>2 DEF Dies, stats, streams, CoreInv, Running
<1>3. CASE Interrupted
  <2>1. ~(fd \in Clients /\ spc \in {"write_C", "update"})
    BY <1>3, ClientsAssumption DEF Interrupted, SigintExits, InProcess, CoreInv, Serving
  <2>2. UNCHANGED <<answered, counted, client_end>> /\ ~(exit_code > 0)
    BY <1>3 DEF Interrupted, SigintExits, streams, stats, Running
  <2> QED
    BY <2>1, <2>2
<1>4. CASE Deferred
  BY <1>4 DEF Deferred, net, stats, outcome
<1>5. CASE NetworkMoves
  BY <1>5 DEF NetworkMoves, server, stats, outcome
<1>6. ASSUME NEW c \in Clients, ClientMoves(c) PROVE CompleteInv'
  <2>1. UNCHANGED <<answered, counted, fd, spc, exit_code>>
    BY <1>6, ClientTouchesNone DEF server, stats, outcome
  <2>2. CASE Connect(c, Listening)
    <3>1. cpc[c] = "connect" /\ client_end' = [client_end EXCEPT ![c] = "open"]
      BY <2>2 DEF Connect
    <3>2. answered[c] = 0
      BY <3>1 DEF ConnectInv, Fresh
    <3> QED
      BY <2>1, <3>1, <3>2, WidthAssumption DEF CoreInv, TypeOK, NetTypeOK
  <2>3. CASE ~Connect(c, Listening)
    <3>1. \A d \in Clients : client_end[d] = "rst" => client_end'[d] = "rst"
      BY <1>6, <2>3, ClosingType
      DEF ClientMoves, Prepares, BufferCreation, Exits, net, failed, Leaves, WriteBytes, ReadC,
          CoreInv, TypeOK, NetTypeOK
    <3> QED
      BY <2>1, <3>1
  <2> QED
    BY <2>2, <2>3
<1> QED
  BY <1>1, <1>2, <1>3, <1>4, <1>5, <1>6, StepCases

\* A client that got its answer is counted, or will be unless the server fails or
\* the connection is lost: a SIGINT does not come between (pcc_server.c:418-420,
\* 845-900).
THEOREM AnsweredCounted == Spec => []AnsweredIsCounted
<1>1. Init => AnswerInv /\ ReceiveInv /\ CompleteInv
  BY WidthAssumption
  DEF Init, NetInit, ServerInit, ClientInit, AnswerInv, ReceiveInv, CompleteInv
<1>2. ASSUME ServiceInv, AnswerInv, ReceiveInv, CompleteInv, [Next]_vars
      PROVE  AnswerInv' /\ ReceiveInv' /\ CompleteInv'
  BY <1>2, AnswerStep, ReceiveStep, CompleteStep DEF ServiceInv
<1>3. AnswerInv /\ ReceiveInv /\ CompleteInv => AnsweredIsCounted
  BY DEF AnswerInv, ReceiveInv, CompleteInv, AnsweredIsCounted
<1> QED
  BY <1>1, <1>2, <1>3, ServiceInvariant, PTL DEF Spec
=============================================================================
