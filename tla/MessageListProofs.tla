------------------------- MODULE MessageListProofs -------------------------
(***************************************************************************)
(* The lists of message files: what the loop of cleanup reaches is the     *)
(* least set that has the head and is closed under next, and how it grows  *)
(* when a message file is added.                                           *)
(***************************************************************************)
EXTENDS MessageUsers, FiniteSetTheorems, WellFoundedInduction, TLAPS

\* Induction over the numbers that are in a set.
LEMMA AllNumbers ==
  ASSUME NEW T, 0 \in T, \A k \in Nat : k \in T => k + 1 \in T
  PROVE  Nat \subseteq T
<1> DEFINE Missing == Nat \ T
<1> SUFFICES ASSUME Missing # {} PROVE FALSE
  OBVIOUS
<1>1. PICK n \in Missing : \A m \in Missing : <<m, n>> \notin OpToRel(<, Nat)
  BY WFMin, NatLessThanWellFounded
<1>2. n \in Nat \ {0} /\ n - 1 \in Nat /\ n - 1 \notin T
  <2>1. n \in Nat /\ n \notin T
    OBVIOUS
  <2>2. n # 0
    BY <2>1
  <2>3. n - 1 \in Nat /\ (n - 1) + 1 = n
    BY <2>1, <2>2
  <2>4. n - 1 \notin T
    BY <2>1, <2>3
  <2> QED
    BY <2>1, <2>2, <2>3, <2>4
<1>3. <<n - 1, n>> \in OpToRel(<, Nat)
  BY <1>2 DEF OpToRel
<1> QED
  BY <1>1, <1>2, <1>3

-----------------------------------------------------------------------------
(* The recursion of LinkedFrom.                                            *)

Grown(S, nodes) ==
  S \cup ({nodes[n].next : n \in {x \in S : nodes[x] # None}} \cap Nodes)

\* f gives the message files reached in up to k rounds.
Rounds(f, k, head, nodes) ==
  f = [j \in 0..k |-> IF j = 0 THEN {head} \cap Nodes ELSE Grown(f[j - 1], nodes)]

\* There is a function that counts out the rounds of the loop, up to any number.
LEMMA RoundsExist ==
  ASSUME NEW head, NEW nodes, NEW k \in Nat
  PROVE  \E f : Rounds(f, k, head, nodes)
<1> DEFINE T == {j \in Nat : \E f : Rounds(f, j, head, nodes)}
<1>1. 0 \in T
  <2> DEFINE f == [j \in 0..0 |-> {head} \cap Nodes]
  <2>1. Rounds(f, 0, head, nodes)
    BY DEF Rounds
  <2> QED
    BY <2>1
<1>2. ASSUME NEW j \in Nat, j \in T PROVE j + 1 \in T
  <2>1. PICK f : Rounds(f, j, head, nodes)
    BY <1>2
  <2> DEFINE g == [i \in 0..j + 1 |-> IF i = j + 1 THEN Grown(f[j], nodes) ELSE f[i]]
  <2>2. ASSUME NEW i \in 0..j + 1
        PROVE  g[i] = IF i = 0 THEN {head} \cap Nodes ELSE Grown(g[i - 1], nodes)
    <3>1. CASE i = j + 1
      <4>1. i # 0 /\ j \in 0..j + 1 /\ j # j + 1 /\ i - 1 = j
        BY <3>1
      <4>2. g[i] = Grown(f[j], nodes) /\ g[j] = f[j]
        BY <3>1, <4>1
      <4> QED
        BY <4>1, <4>2
    <3>2. CASE i # j + 1
      <4>1. i \in 0..j /\ (i # 0 => i - 1 \in 0..j + 1 /\ i - 1 # j + 1)
        BY <3>2
      <4>2. g[i] = f[i] /\ (i # 0 => g[i - 1] = f[i - 1])
        BY <3>2, <4>1
      <4>3. f[i] = IF i = 0 THEN {head} \cap Nodes ELSE Grown(f[i - 1], nodes)
        BY <2>1, <4>1 DEF Rounds
      <4> QED
        BY <4>2, <4>3
    <3> QED
      BY <3>1, <3>2
  <2>3. g = [i \in 0..j + 1 |-> IF i = 0 THEN {head} \cap Nodes ELSE Grown(g[i - 1], nodes)]
    <3>1. g = [i \in 0..j + 1 |-> g[i]]
      OBVIOUS
    <3> HIDE DEF g
    <3> QED
      BY <2>2, <3>1
  <2>4. Rounds(g, j + 1, head, nodes)
    BY <2>3 DEF Rounds
  <2> HIDE DEF g
  <2> QED
    BY <2>4
<1> QED
  BY <1>1, <1>2, AllNumbers

\* There are finitely many addresses.
LEMMA NodesFinite == Cardinality(Nodes) \in Nat
  BY BoundsAssumption, FS_CardinalityType

\* LinkedFrom is what the last round has reached (message_slot.c:436-449).
LEMMA LinkedRounds ==
  ASSUME NEW head, NEW nodes
  PROVE  \E f : Rounds(f, Cardinality(Nodes), head, nodes)
                /\ LinkedFrom(head, nodes) = f[Cardinality(Nodes)]
<1> DEFINE k == Cardinality(Nodes)
           f == CHOOSE f : Rounds(f, k, head, nodes)
<1>1. Rounds(f, k, head, nodes)
  BY NodesFinite, RoundsExist
<1>2. LinkedFrom(head, nodes) = f[k]
  BY DEF LinkedFrom, Rounds, Grown
<1> QED
  BY <1>1, <1>2

\* Each round adds what the one before is linked to.
LEMMA RoundValues ==
  ASSUME NEW head, NEW nodes, NEW k \in Nat, NEW f, Rounds(f, k, head, nodes)
  PROVE  /\ f[0] = {head} \cap Nodes
         /\ \A j \in 1..k : f[j] = Grown(f[j - 1], nodes)
         /\ \A j \in 0..k : f[j] \in SUBSET Nodes
<1>1. f[0] = {head} \cap Nodes /\ \A j \in 1..k : f[j] = Grown(f[j - 1], nodes)
  <2>1. \A j \in 0..k : f[j] = IF j = 0 THEN {head} \cap Nodes ELSE Grown(f[j - 1], nodes)
    BY DEF Rounds
  <2>2. 0 \in 0..k /\ \A j \in 1..k : j \in 0..k /\ j # 0
    OBVIOUS
  <2> QED
    BY <2>1, <2>2
<1>2. \A j \in 0..k : f[j] \in SUBSET Nodes
  <2> DEFINE T == {j \in Nat : j <= k => f[j] \in SUBSET Nodes}
  <2>1. 0 \in T
    BY <1>1
  <2>2. ASSUME NEW j \in Nat, j \in T PROVE j + 1 \in T
    <3> SUFFICES ASSUME j + 1 <= k PROVE f[j + 1] \in SUBSET Nodes
      OBVIOUS
    <3>1. f[j] \in SUBSET Nodes /\ f[j + 1] = Grown(f[j], nodes)
      <4>1. j <= k /\ j + 1 \in 1..k /\ (j + 1) - 1 = j
        OBVIOUS
      <4> QED
        BY <1>1, <2>2, <4>1
    <3> QED
      BY <3>1 DEF Grown
  <2>3. Nat \subseteq T
    <3> HIDE DEF T
    <3> QED
      BY <2>1, <2>2, AllNumbers
  <2>4. \A j \in 0..k : j \in Nat /\ j <= k
    OBVIOUS
  <2> QED
    BY <2>3, <2>4
<1> QED
  BY <1>1, <1>2

-----------------------------------------------------------------------------
(* The least closed set.                                                   *)

Closed(S, nodes) ==
  \A n \in S : nodes[n] # None /\ nodes[n].next \in Nodes => nodes[n].next \in S

\* There are rounds enough: each but the last finds another address.
LEMMA LinkedClosed ==
  ASSUME NEW head, NEW nodes
  PROVE  /\ LinkedFrom(head, nodes) \in SUBSET Nodes
         /\ head \in Nodes => head \in LinkedFrom(head, nodes)
         /\ Closed(LinkedFrom(head, nodes), nodes)
<1> DEFINE N == Cardinality(Nodes)
<1>1. N \in Nat
  BY NodesFinite
<1>2. PICK f : Rounds(f, N, head, nodes) /\ LinkedFrom(head, nodes) = f[N]
  BY LinkedRounds
<1> HIDE DEF N
<1>3. /\ f[0] = {head} \cap Nodes
      /\ \A j \in 1..N : f[j] = Grown(f[j - 1], nodes)
      /\ \A j \in 0..N : f[j] \in SUBSET Nodes
  BY <1>1, <1>2, RoundValues
<1>4. \A j \in 0..N : IsFiniteSet(f[j]) /\ Cardinality(f[j]) \in Nat
  BY <1>3, BoundsAssumption, FS_Subset, FS_CardinalityType
<1> DEFINE T == {j \in Nat : j <= N =>
                   /\ head \in Nodes => head \in f[j]
                   /\ Grown(f[j], nodes) = f[j] \/ Cardinality(f[j]) >= j + 1}
<1>5. 0 \in T
  <2>1. CASE head \in Nodes
    <3>1. f[0] = {head}
      BY <1>3, <2>1
    <3> QED
      BY <2>1, <3>1, FS_Singleton
  <2>2. CASE head \notin Nodes
    <3>1. f[0] = {}
      BY <1>3, <2>2
    <3> QED
      BY <2>2, <3>1 DEF Grown
  <2> QED
    BY <2>1, <2>2
<1>6. ASSUME NEW j \in Nat, j \in T PROVE j + 1 \in T
  <2> SUFFICES ASSUME j + 1 <= N
               PROVE  /\ head \in Nodes => head \in f[j + 1]
                      /\ Grown(f[j + 1], nodes) = f[j + 1] \/ Cardinality(f[j + 1]) >= j + 2
    OBVIOUS
  <2>1. j \in 0..N /\ j + 1 \in 0..N /\ f[j + 1] = Grown(f[j], nodes)
    <3>1. j \in 0..N /\ j + 1 \in 1..N /\ (j + 1) - 1 = j
      BY <1>1
    <3> QED
      BY <1>3, <3>1
  <2>2. f[j] \subseteq f[j + 1]
    BY <2>1 DEF Grown
  <2>3. /\ head \in Nodes => head \in f[j]
        /\ Grown(f[j], nodes) = f[j] \/ Cardinality(f[j]) >= j + 1
    BY <1>6, <2>1
  <2>4. CASE f[j + 1] = f[j]
    BY <2>1, <2>3, <2>4
  <2>5. CASE f[j + 1] # f[j]
    <3>1. Cardinality(f[j]) >= j + 1
      BY <2>1, <2>3, <2>5
    <3>2. Cardinality(f[j]) <= Cardinality(f[j + 1]) /\ Cardinality(f[j]) # Cardinality(f[j + 1])
      BY <1>4, <2>1, <2>2, <2>5, FS_Subset
    <3>3. Cardinality(f[j]) \in Nat /\ Cardinality(f[j + 1]) \in Nat
      BY <1>4, <2>1
    <3> QED
      BY <2>2, <2>3, <3>1, <3>2, <3>3
  <2> QED
    BY <2>4, <2>5
<1>7. N \in T
  BY <1>1, <1>5, <1>6, AllNumbers
<1>8. Cardinality(f[N]) <= N /\ Cardinality(f[N]) \in Nat
  BY <1>1, <1>3, <1>4, BoundsAssumption, FS_Subset DEF N
<1>9. Grown(f[N], nodes) = f[N] /\ (head \in Nodes => head \in f[N])
  BY <1>1, <1>7, <1>8
<1>10. Closed(f[N], nodes)
  BY <1>9 DEF Grown, Closed
<1> QED
  BY <1>1, <1>2, <1>3, <1>9, <1>10

\* Whatever has the head and is closed under next has all that is reached from it.
LEMMA LinkedLeast ==
  ASSUME NEW head, NEW nodes, NEW S, Closed(S, nodes), head \in Nodes => head \in S
  PROVE  LinkedFrom(head, nodes) \subseteq S
<1> DEFINE N == Cardinality(Nodes)
<1>1. N \in Nat
  BY NodesFinite
<1>2. PICK f : Rounds(f, N, head, nodes) /\ LinkedFrom(head, nodes) = f[N]
  BY LinkedRounds
<1> HIDE DEF N
<1>3. /\ f[0] = {head} \cap Nodes
      /\ \A j \in 1..N : f[j] = Grown(f[j - 1], nodes)
      /\ \A j \in 0..N : f[j] \in SUBSET Nodes
  BY <1>1, <1>2, RoundValues
<1> DEFINE T == {j \in Nat : j <= N => f[j] \subseteq S}
<1>4. 0 \in T
  BY <1>3
<1>5. ASSUME NEW j \in Nat, j \in T PROVE j + 1 \in T
  <2> SUFFICES ASSUME j + 1 <= N PROVE f[j + 1] \subseteq S
    OBVIOUS
  <2>1. j <= N /\ j + 1 \in 1..N /\ (j + 1) - 1 = j
    BY <1>1
  <2>2. f[j] \subseteq S /\ f[j + 1] = Grown(f[j], nodes)
    BY <1>3, <1>5, <2>1
  <2> QED
    BY <2>2 DEF Grown, Closed
<1>6. N \in T
  BY <1>1, <1>4, <1>5, AllNumbers
<1> QED
  BY <1>1, <1>2, <1>6

\* Nothing is reached from a null pointer.
LEMMA LinkedNone ==
  ASSUME NEW head, NEW nodes, head \notin Nodes
  PROVE  LinkedFrom(head, nodes) = {}
<1>1. Closed({}, nodes)
  BY DEF Closed
<1> QED
  BY <1>1, LinkedLeast

\* The list from an address is this address and the list from the next.
LEMMA LinkedNext ==
  ASSUME NEW nodes, NEW head \in Nodes, nodes[head] # None
  PROVE  LinkedFrom(head, nodes) = {head} \cup LinkedFrom(nodes[head].next, nodes)
<1> DEFINE next == nodes[head].next
           S == {head} \cup LinkedFrom(next, nodes)
<1>1. /\ head \in LinkedFrom(head, nodes) /\ Closed(LinkedFrom(head, nodes), nodes)
      /\ Closed(LinkedFrom(next, nodes), nodes) /\ (next \in Nodes => next \in LinkedFrom(next, nodes))
  BY LinkedClosed
<1>2. Closed(S, nodes)
  BY <1>1 DEF Closed
<1>3. LinkedFrom(head, nodes) \subseteq S
  BY <1>2, LinkedLeast
<1>4. next \in Nodes => next \in LinkedFrom(head, nodes)
  BY <1>1 DEF Closed
<1>5. LinkedFrom(next, nodes) \subseteq LinkedFrom(head, nodes)
  BY <1>1, <1>4, LinkedLeast
<1> QED
  BY <1>1, <1>3, <1>5

-----------------------------------------------------------------------------
(* How the lists change.                                                   *)

\* Two heaps have the same links at n.
SameLink(n, nodes, after) ==
  /\ nodes[n] # None <=> after[n] # None
  /\ nodes[n] # None => \/ after[n].next = nodes[n].next
                        \/ after[n].next \notin Nodes /\ nodes[n].next \notin Nodes

\* A list depends on its own message files only.
LEMMA LinkedSame ==
  ASSUME NEW head, NEW nodes, NEW after,
         \A n \in LinkedFrom(head, nodes) : SameLink(n, nodes, after)
  PROVE  LinkedFrom(head, after) = LinkedFrom(head, nodes)
<1> DEFINE A == LinkedFrom(head, nodes)
           B == LinkedFrom(head, after)
<1>1. /\ Closed(A, nodes) /\ (head \in Nodes => head \in A)
      /\ Closed(B, after) /\ (head \in Nodes => head \in B)
  BY LinkedClosed
<1>2. Closed(A, after)
  BY <1>1 DEF Closed, SameLink
<1>3. B \subseteq A
  BY <1>1, <1>2, LinkedLeast
<1>4. Closed(A \cap B, nodes)
  BY <1>1 DEF Closed, SameLink
<1>5. A \subseteq A \cap B
  BY <1>1, <1>4, LinkedLeast
<1> QED
  BY <1>3, <1>5

\* A new message file n after the last one, t, is in the lists t is in.
LEMMA LinkedGrows ==
  ASSUME NEW head, NEW nodes, NEW after, NEW t \in Nodes, NEW n \in Nodes,
         nodes[t] # None, nodes[t].next \notin Nodes,
         nodes[n] = None, after[n] # None, after[n].next \notin Nodes,
         after[t] # None, after[t].next = n,
         \A k \in Nodes \ {t, n} : SameLink(k, nodes, after),
         \A k \in LinkedFrom(head, nodes) : nodes[k] # None
  PROVE  LinkedFrom(head, after) =
           LinkedFrom(head, nodes) \cup (IF t \in LinkedFrom(head, nodes) THEN {n} ELSE {})
<1> DEFINE A == LinkedFrom(head, nodes)
           B == LinkedFrom(head, after)
<1>1. /\ A \in SUBSET Nodes /\ Closed(A, nodes) /\ (head \in Nodes => head \in A)
      /\ Closed(B, after) /\ (head \in Nodes => head \in B)
  BY LinkedClosed
<1>2. n \notin A /\ n # t
  OBVIOUS
<1>3. CASE t \notin A
  <2>1. \A k \in A : SameLink(k, nodes, after)
    BY <1>1, <1>2, <1>3
  <2> QED
    BY <1>3, <2>1, LinkedSame
<1>4. CASE t \in A
  <2>1. Closed(A \cup {n}, after)
    BY <1>1, <1>2 DEF Closed, SameLink
  <2>2. B \subseteq A \cup {n}
    BY <1>1, <2>1, LinkedLeast
  <2>3. Closed(A \cap B, nodes)
    BY <1>1, <1>2 DEF Closed, SameLink
  <2>4. A \subseteq A \cap B
    BY <1>1, <2>3, LinkedLeast
  <2>5. n \in B
    BY <1>1, <1>4, <2>4 DEF Closed
  <2> QED
    BY <1>4, <2>2, <2>4, <2>5
<1> QED
  BY <1>3, <1>4
=============================================================================
