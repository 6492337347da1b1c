----------------------------- MODULE MCPopuset -----------------------------
(* Small instances of a whole process for TLC.                              *)
EXTENDS Popuset, TLC

CONSTANTS a, b, anon, speaker, mic

\* identities of which none is the beginning of another
Distinct == [s \in Client |-> {s}]

OneClient == {a}
Speaker == {speaker}
Mic == {mic}
Both == {speaker, mic}
Peers == {b}
None == {}

\* what speaker and mic are opened for
AsNamed == {[d \in Device |-> IF d = mic THEN "INPUT" ELSE "OUTPUT"]}
=============================================================================
