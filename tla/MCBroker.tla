------------------------------ MODULE MCBroker ------------------------------
(* Small instances of the broker for TLC.                                   *)
EXTENDS Broker, TLC

CONSTANTS a, b, anon, card

\* identities of which none is the beginning of another
Distinct == [s \in Client |-> {s}]

TwoClients == {a, b}
WithAnon == {a, anon}
Card == {card}
None == {}

Symmetry == Permutations(TwoClients)
=============================================================================
