----------------------------- MODULE PccService -----------------------------
(***************************************************************************)
(* What the counting server promises, without sockets and signals: a       *)
(* client is counted at most once and as a whole, and a report shows       *)
(* exactly the clients counted by then.                                    *)
(***************************************************************************)
EXTENDS Integers

CONSTANTS Clients, Chars, UintMod,
          Count     \* [Clients -> [Chars -> 0..UintMod - 1]]

VARIABLES counted,  \* clients served
          totals,   \* per character
          status,   \* "open", "reported", or "lost"
          report    \* the totals reported, zero before

absvars == <<counted, totals, status, report>>

AbsInit ==
  /\ counted = {}
  /\ totals = [ch \in Chars |-> 0]
  /\ status = "open"
  /\ report = [ch \in Chars |-> 0]

Serve(c) ==
  /\ status = "open"
  /\ c \notin counted
  /\ counted' = counted \cup {c}
  /\ totals' = [ch \in Chars |-> (totals[ch] + Count[c][ch]) % UintMod]
  /\ UNCHANGED <<status, report>>

Report ==
  /\ status = "open"
  /\ status' = "reported"
  /\ report' = totals
  /\ UNCHANGED <<counted, totals>>

\* The server ends on an error and the totals are lost.
Lose ==
  /\ status = "open"
  /\ status' = "lost"
  /\ UNCHANGED <<counted, totals, report>>

AbsNext == (\E c \in Clients : Serve(c)) \/ Report \/ Lose
AbsSpec == AbsInit /\ [][AbsNext]_absvars
=============================================================================
