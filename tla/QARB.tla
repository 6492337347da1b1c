-------------------------------- MODULE QARB --------------------------------
(***************************************************************************)
(* QueueingAdditiveRingBuffer: a ring buffer that one reader empties and   *)
(* that every client adds into at an index of its own.  A read moves the   *)
(* indices that it overtakes and clears what it has read; a write never    *)
(* looks whether there is room.  The calls exclude each other here: the    *)
(* class takes no lock, so its callers have to.                            *)
(*                                                                         *)
(* A sample is a client and a number, a cell the set of the samples that   *)
(* have been added up in it.                                               *)
(***************************************************************************)
EXTENDS Integers, Sequences

CONSTANTS
  Client,
  DataLen,     \* datalen, the number of cells
  ReadSizes,   \* the num_samples of a read, never more than there are cells
  WriteSizes,  \* the num_samples of a write
  MaxSamples   \* bound: samples per client

ASSUME QARBAssumption ==
  /\ DataLen \in Nat \ {0}
  /\ ReadSizes \subseteq 1..DataLen
  /\ WriteSizes \subseteq Nat /\ MaxSamples \in Nat

VARIABLES
  data,              \* the cells
  idx,               \* where the next read begins
  farthest_write_idx,
  write_idxs,        \* where the next write of each known client begins
  written,           \* how many samples each client has written
  output,            \* what has been read last
  overrun            \* history: somebody has filled the buffer

indices == <<idx, farthest_write_idx, write_idxs>>
vars == <<data, indices, written, output, overrun>>

Cell == 0..(DataLen - 1)
Sample == [from : Client, seq : 1..MaxSamples]

Init ==
  /\ data = [i \in Cell |-> {}]
  /\ idx = 0
  /\ farthest_write_idx = 0
  /\ write_idxs = [c \in {} |-> 0]
  /\ written = [c \in Client |-> 0]
  /\ output = <<>>
  /\ overrun = FALSE

circularDistance(start, end) == IF start <= end THEN end - start ELSE end - start + DataLen

getMaxReadable == circularDistance(idx, farthest_write_idx)

(* Faulty variant: an index that has been overtaken stays where it is.      *)
LeftBehind(at, w, n) == w

(* An index after n cells from at on have been read: if it was one of them, *)
(* it goes on where the next read begins.                                   *)
CaughtUp(at, w, n) == IF circularDistance(at, w) < n THEN (at + n) % DataLen ELSE w

(* A read that wraps around is two reads, the second one from cell 0.       *)
FirstBatch(n) == IF idx + n > DataLen THEN DataLen - idx ELSE n
Overtaken(w, n) ==
  LET first == FirstBatch(n)
      w1 == CaughtUp(idx, w, first)
  IN IF first = n THEN w1 ELSE CaughtUp(0, w1, n - first)

read(n) ==
  LET cells == [i \in 1..n |-> (idx + i - 1) % DataLen] IN
  /\ idx' = (idx + n) % DataLen
  /\ write_idxs' = [c \in DOMAIN write_idxs |-> Overtaken(write_idxs[c], n)]
  /\ farthest_write_idx' = Overtaken(farthest_write_idx, n)
  /\ output' = [i \in 1..n |-> data[cells[i]]]
  /\ data' = [j \in Cell |-> IF \E i \in 1..n : cells[i] = j THEN {} ELSE data[j]]
  /\ overrun' = (overrun /\ n < DataLen)
  /\ UNCHANGED written

(* A new client begins where the reader is.                                 *)
WriteIdx(c) == IF c \in DOMAIN write_idxs THEN write_idxs[c] ELSE idx

(* Faulty variant: the last writer is taken for the farthest.               *)
NewFarthest(w) == w

(* The farthest index when a write has ended at w.                          *)
Farthest(w) ==
  IF circularDistance(idx, w) > getMaxReadable THEN w ELSE farthest_write_idx

(* Faulty variant: an index may run off the end of the buffer.              *)
CellUnwrapped(i) == i

CellAt(i) == i % DataLen

write(c, n) ==
  LET start == WriteIdx(c)
      added(j) == {[from |-> c, seq |-> written[c] + i + 1] : i \in {k \in 0..(n - 1) : CellAt(start + k) = j}}
      end == CellAt(start + n)
  IN
  /\ written[c] + n <= MaxSamples
  /\ data' = [j \in Cell |-> data[j] \cup added(j)]
  /\ write_idxs' = [k \in DOMAIN write_idxs \cup {c} |-> IF k = c THEN end ELSE write_idxs[k]]
  /\ farthest_write_idx' = Farthest(end)
  /\ written' = [written EXCEPT ![c] = @ + n]
  /\ overrun' = (overrun \/ circularDistance(idx, start) + n >= DataLen)
  /\ UNCHANGED <<idx, output>>

clearClient(c) ==
  /\ c \in DOMAIN write_idxs
  /\ write_idxs' = [k \in DOMAIN write_idxs \ {c} |-> write_idxs[k]]
  /\ UNCHANGED <<data, idx, farthest_write_idx, written, output, overrun>>

Next ==
  \/ \E n \in ReadSizes : read(n)
  \/ \E c \in Client : clearClient(c) \/ \E n \in WriteSizes : write(c, n)

Spec == Init /\ [][Next]_vars

-----------------------------------------------------------------------------
(* Types, and every index in the buffer: no legal sequence of calls makes a *)
(* read or write leave it.                                                  *)
QARBTypeOK ==
  /\ data \in [Cell -> SUBSET Sample]
  /\ idx \in Cell /\ farthest_write_idx \in Cell
  /\ DOMAIN write_idxs \subseteq Client /\ write_idxs \in [DOMAIN write_idxs -> Cell]
  /\ written \in [Client -> 0..MaxSamples]
  /\ overrun \in BOOLEAN

(* Nobody is ahead of what getMaxReadable reports (qarb.cpp:76-83), not     *)
(* even after an overrun: reading it out overtakes every client.            *)
NobodyBeyondFarthest ==
  \A c \in DOMAIN write_idxs : circularDistance(idx, write_idxs[c]) <= getMaxReadable

(* The buffer keeps what Timeline promises: every sample is played once, at *)
(* the place of its client and mixed with what belongs there, as long as    *)
(* nobody is a whole buffer ahead (qarb.h:5-14).                            *)
Ahead == [c \in DOMAIN write_idxs |-> circularDistance(idx, write_idxs[c])]
Pending == [i \in 1..getMaxReadable |-> data[(idx + i - 1) % DataLen]]

TL == INSTANCE Timeline WITH pending <- Pending, ahead <- Ahead, Room <- DataLen - 1
ImplementsTimeline == TL!TimelineSpec

=============================================================================
