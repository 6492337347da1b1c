------------------------------- MODULE MCMesh -------------------------------
(* A small mesh for TLC.  Two instances target each other, and a has the    *)
(* address of b twice among its options: the shortest circle, requests that *)
(* are left from an earlier call of the same run, and a peer that is        *)
(* already outbound where it asks.                                          *)
EXTENDS Mesh, TLC

CONSTANTS a, b

Two == {a, b}
Mutual == (a :> <<b, b>>) @@ (b :> <<a>>)

=============================================================================
