--------------------------- MODULE MCAudioThread ---------------------------
(* Small instances of the audio threads for TLC.                            *)
EXTENDS AudioThread, TLC

CONSTANTS a, b, anon, card

\* identities of which none is the beginning of another
Distinct == [s \in Client |-> {s}]
\* the identity of b begins with the identity of a (ports 504 and 5040)
Prefix == (a :> {a, b}) @@ (b :> {b})

TwoClients == {a, b}
Card == {card}
\* the one device plays, or it plays or records
AllPlay == {[d \in Device |-> "OUTPUT"]}
EitherWay == [Device -> {"INPUT", "OUTPUT"}]
None == {}

Symmetry == Permutations(TwoClients)
=============================================================================
