----------------------------- MODULE MCCommand -----------------------------
(* A small instance of the command channel for TLC: with 4 values to a byte *)
(* the list of a, b and c is 16 bytes long, just too long for a short; that *)
(* of a, b and d is longer, and that of all overflows its buffer as well.   *)
EXTENDS Command, TLC

CONSTANTS a, b, c, d

FourClients == {a, b, c, d}
InOrder == <<a, b, c, d>>
Lengths == [k \in Client |-> IF k = d THEN 5 ELSE 4]
=============================================================================
