------------------------------ MODULE Playout ------------------------------
(***************************************************************************)
(* What a speaker owes to the peers it plays: of the frames that a peer    *)
(* publishes each is heard at most once, in the order of publication, and  *)
(* nothing that was lost or passed over is ever heard later.  Between      *)
(* publication and loudspeaker a frame waits; where, and in how many       *)
(* sockets, backlogs and buffers, is left open.                            *)
(***************************************************************************)
EXTENDS Integers

CONSTANTS Client, Device,
  MaxSeq     \* bound: the frames of each peer

VARIABLES
  published, \* the last frame that each peer has published
  waiting,   \* the frames of a peer that a device may still play
  heard      \* the last frame of a peer that a device has played

vars == <<published, waiting, heard>>

Init ==
  /\ published = [c \in Client |-> 0]
  /\ waiting = [d \in Device |-> [c \in Client |-> {}]]
  /\ heard = [d \in Device |-> [c \in Client |-> 0]]

(* A frame reaches some of the devices.  Numbers may be skipped.            *)
PublishFrame(c) ==
  /\ \E n \in (published[c] + 1)..MaxSeq :
       /\ published' = [published EXCEPT ![c] = n]
       /\ \E D \in SUBSET Device :
            waiting' = [d \in Device |->
              IF d \in D THEN [waiting[d] EXCEPT ![c] = @ \cup {n}] ELSE waiting[d]]
  /\ UNCHANGED heard

(* Errors, full sockets, kicks and the end of a thread lose frames.         *)
Lose(d) ==
  /\ UNCHANGED <<published, heard>>
  /\ waiting' \in [Device -> [Client -> SUBSET (1..MaxSeq)]]
  /\ \A c \in Client : waiting'[d][c] \subseteq waiting[d][c]
  /\ \A e \in Device \ {d} : waiting'[e] = waiting[e]

(* A buffer is played: of a peer that is in it, nothing as old waits then.  *)
Play(d) ==
  /\ UNCHANGED published
  /\ \E h \in [Client -> 0..MaxSeq] :
       /\ heard' = [heard EXCEPT ![d] = h]
       /\ \A c \in Client : h[c] \in {heard[d][c]} \cup waiting[d][c]
       /\ waiting' = [waiting EXCEPT ![d] =
            [c \in Client |-> {n \in waiting[d][c] : n > h[c]}]]

Next == (\E c \in Client : PublishFrame(c)) \/ \E d \in Device : Lose(d) \/ Play(d)

Spec == Init /\ [][Next]_vars

=============================================================================
