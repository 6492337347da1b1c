------------------------------ MODULE Timeline ------------------------------
(***************************************************************************)
(* What a buffer that mixes the audio of several clients promises: ahead   *)
(* of the reader lies a timeline on which every client has a position of   *)
(* its own.  What a client writes goes to its position, together with what *)
(* the others have put there; what is read is played once; a client that   *)
(* the reader has overtaken goes on at the reader.                         *)
(*                                                                         *)
(* The promise holds for clients that stay within the room of the buffer.  *)
(* A client that overruns it voids the promise, until a reader has taken   *)
(* out everything there is room for.                                       *)
(***************************************************************************)
EXTENDS Integers, Sequences

CONSTANTS
  Client,      \* who writes
  Room,        \* how far ahead of the reader a client may write
  MaxSamples   \* bound: samples per client

VARIABLES
  pending,   \* the samples at each place ahead of the reader
  ahead,     \* how far ahead of the reader each known client is
  written,   \* how many samples each client has written
  output,    \* what has been read last
  overrun    \* the promise is void

Sample == [from : Client, seq : 1..MaxSamples]
Silence == {}

TimelineInit ==
  /\ pending = <<>>
  /\ ahead = [c \in {} |-> 0]
  /\ written = [c \in Client |-> 0]
  /\ output = <<>>
  /\ overrun = FALSE

Larger(m, n) == IF m > n THEN m ELSE n
Place(i) == IF i \in DOMAIN pending THEN pending[i] ELSE Silence
Position(c) == IF c \in DOMAIN ahead THEN ahead[c] ELSE 0

(* The next n samples of c, the first of them at place p + 1.               *)
Chunk(c, p, n, i) ==
  IF i \in (p + 1)..(p + n) THEN {[from |-> c, seq |-> written[c] + (i - p)]} ELSE Silence

Play(n) ==
  /\ ~overrun /\ UNCHANGED <<overrun, written>>
  /\ output' = [i \in 1..n |-> Place(i)]
  /\ pending' = [i \in 1..Larger(Len(pending) - n, 0) |-> pending[i + n]]
  /\ ahead' = [c \in DOMAIN ahead |-> Larger(ahead[c] - n, 0)]

Mix(c, n) ==
  /\ ~overrun /\ UNCHANGED <<overrun, output>>
  /\ Position(c) + n <= Room
  /\ pending' = [i \in 1..Larger(Len(pending), Position(c) + n) |->
                   Place(i) \cup Chunk(c, Position(c), n, i)]
  /\ ahead' = [k \in DOMAIN ahead \cup {c} |-> IF k = c THEN Position(c) + n ELSE ahead[k]]
  /\ written' = [written EXCEPT ![c] = @ + n]

Forget(c) ==
  /\ ~overrun
  /\ ahead' = [k \in DOMAIN ahead \ {c} |-> ahead[k]]
  /\ UNCHANGED <<pending, written, output, overrun>>

(* Only a client that writes further than there is room voids the promise.  *)
Overrun ==
  /\ ~overrun /\ overrun'
  /\ \E c \in Client : Position(c) + (written'[c] - written[c]) > Room

Void == overrun /\ overrun'

(* Having taken out all there may be, the reader is at an empty timeline.   *)
Recover ==
  /\ overrun /\ ~overrun'
  /\ Len(output') > Room
  /\ pending' = <<>>
  /\ ahead' = [c \in DOMAIN ahead |-> 0]
  /\ UNCHANGED written

TimelineNext ==
  \/ Play(Len(output'))
  \/ \E c \in Client, n \in 0..MaxSamples : Mix(c, n)
  \/ \E c \in Client : Forget(c)
  \/ Overrun \/ Void \/ Recover

TimelineSpec == TimelineInit /\ [][TimelineNext]_<<pending, ahead, written, output, overrun>>

=============================================================================
