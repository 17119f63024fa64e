----------------------------- MODULE MCMessage -----------------------------
(* Small instances of MessageUsers: messages of up to two bytes.           *)
EXTENDS MessageUsers, TLC

CONSTANTS s, r, u,       \* a sender, a reader and another user
          fs, fr, fu     \* their files

Args(kinds, channel) ==
  [kinds |-> kinds, minor |-> 0, channel |-> channel, message |-> <<1>>]

\* r reads what s sends.
SenderAndReader == s :> Args({"sender"}, 1) @@ r :> Args({"reader"}, 1)
                   @@ u :> Args({"any"}, 1)

\* s sends or reads, and u may do anything.
EitherAndUser == s :> Args({"sender", "reader"}, 1) @@ u :> Args({"any"}, 1)

OwnFiles == s :> {fs} @@ r :> {fr} @@ u :> {fu}

AllLengths == {<<>>, <<2, 2>>, <<3, 3, 3>>}

NodeSymmetry == Permutations(Nodes)
=============================================================================
