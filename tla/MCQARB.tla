------------------------------- MODULE MCQARB -------------------------------
(* A small instance of the ring buffer for TLC.                             *)
EXTENDS QARB, TLC

CONSTANTS a, b

TwoClients == {a, b}
OneToAll == 1..DataLen
OneToThree == 1..3
Symmetry == Permutations(TwoClients)
=============================================================================
