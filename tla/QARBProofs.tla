----------------------------- MODULE QARBProofs -----------------------------
(***************************************************************************)
(* Theorems about the ring buffer, for any number of cells, any clients    *)
(* and any sizes of reads and writes: no call lets an index leave the      *)
(* buffer, no client is ever beyond what getMaxReadable reports, and the   *)
(* buffer implements Timeline.                                             *)
(***************************************************************************)
EXTENDS QARB, SequenceTheorems, TLAPS

(* What the indices of the code are computed with: % wraps around once.     *)
LEMMA WrapsOnce ==
  ASSUME NEW x \in 0..(2 * DataLen - 1)
  PROVE  x % DataLen = IF x < DataLen THEN x ELSE x - DataLen
<1>1. DataLen \in Nat \ {0}
  BY QARBAssumption
<1>2. CASE x < DataLen
  BY <1>1, <1>2, SMT
<1>3. CASE x >= DataLen
  <2>1. x - DataLen \in 0..(DataLen - 1)
    BY <1>1, <1>3
  <2>2. x % DataLen = x - DataLen
    BY <1>1, <1>3, <2>1, SMT
  <2> QED BY <1>1, <1>3, <2>2
<1> QED BY <1>1, <1>2, <1>3

(* An index is wrapped around into the buffer.                              *)
LEMMA InCell ==
  ASSUME NEW x \in Nat
  PROVE  x % DataLen \in Cell
BY QARBAssumption, SMT DEF Cell

(* So is a distance.                                                        *)
LEMMA Distance ==
  ASSUME NEW i \in Cell, NEW j \in Cell
  PROVE  circularDistance(i, j) \in Cell
BY QARBAssumption DEF circularDistance, Cell

(* What a read of n cells does to an index that is d ahead of the reader:   *)
(* it is d - n ahead of where the reader goes on, or is there.              *)
LEMMA OvertakenDistance ==
  ASSUME idx \in Cell, NEW w \in Cell, NEW n \in 1..DataLen
  PROVE  /\ Overtaken(w, n) \in Cell
         /\ circularDistance((idx + n) % DataLen, Overtaken(w, n)) =
              IF circularDistance(idx, w) < n THEN 0 ELSE circularDistance(idx, w) - n
<1>1. DataLen \in Nat \ {0} /\ idx \in 0..(DataLen - 1) /\ w \in 0..(DataLen - 1) /\ n \in 1..DataLen
  BY QARBAssumption DEF Cell
<1>2. (idx + n) % DataLen = IF idx + n < DataLen THEN idx + n ELSE idx + n - DataLen
  <2>1. idx + n \in 0..(2 * DataLen - 1)
    BY <1>1
  <2> QED BY <1>1, <2>1, WrapsOnce
<1>3. CASE idx + n <= DataLen
  <2>1. FirstBatch(n) = n /\ Overtaken(w, n) = CaughtUp(idx, w, n)
    BY <1>1, <1>3 DEF FirstBatch, Overtaken
  <2> QED BY <1>1, <1>2, <1>3, <2>1 DEF CaughtUp, circularDistance, Cell
<1>4. CASE idx + n > DataLen
  <2>1. FirstBatch(n) = DataLen - idx /\ DataLen - idx # n
    BY <1>1, <1>4 DEF FirstBatch
  <2>2. (idx + (DataLen - idx)) % DataLen = 0
    <3>1. idx + (DataLen - idx) = DataLen /\ DataLen \in 0..(2 * DataLen - 1)
      BY <1>1
    <3> QED BY <1>1, <3>1, WrapsOnce
  <2>3. (0 + (n - (DataLen - idx))) % DataLen = idx + n - DataLen
    <3>1. 0 + (n - (DataLen - idx)) = idx + n - DataLen /\ idx + n - DataLen \in 0..(DataLen - 1)
      BY <1>1, <1>4
    <3>2. idx + n - DataLen \in 0..(2 * DataLen - 1)
      BY <1>1, <3>1
    <3> QED BY <1>1, <3>1, <3>2, WrapsOnce
  <2> DEFINE w1 == IF circularDistance(idx, w) < DataLen - idx THEN 0 ELSE w
  <2>4. Overtaken(w, n) =
          IF circularDistance(0, w1) < n - (DataLen - idx) THEN idx + n - DataLen ELSE w1
    BY <2>1, <2>2, <2>3 DEF Overtaken, CaughtUp
  <2> QED BY <1>1, <1>2, <1>4, <2>4 DEF circularDistance, Cell
<1> QED BY <1>1, <1>3, <1>4

-----------------------------------------------------------------------------
(* Every index stays in the buffer, whatever calls are made.                *)
QARBInv == QARBTypeOK /\ NobodyBeyondFarthest

(* A read moves the indices it overtakes to where the next one begins.      *)
LEMMA ReadStep == ASSUME QARBInv, NEW n \in ReadSizes, read(n) PROVE QARBInv'
<1>1. n \in 1..DataLen /\ DataLen \in Nat \ {0} /\ n \in Nat
  BY QARBAssumption
<1>2. idx \in Cell /\ farthest_write_idx \in Cell /\ DOMAIN write_idxs \subseteq Client
      /\ \A c \in DOMAIN write_idxs : write_idxs[c] \in Cell
  BY DEF QARBInv, QARBTypeOK
<1>3. idx' = (idx + n) % DataLen /\ idx' \in Cell
  <2>1. idx + n \in Nat
    BY <1>1, <1>2 DEF Cell
  <2> QED BY <2>1, InCell DEF read
<1>4. farthest_write_idx' = Overtaken(farthest_write_idx, n)
      /\ write_idxs' = [c \in DOMAIN write_idxs |-> Overtaken(write_idxs[c], n)]
  BY DEF read
<1>5. \A w \in Cell :
        /\ Overtaken(w, n) \in Cell
        /\ circularDistance(idx', Overtaken(w, n)) =
             IF circularDistance(idx, w) < n THEN 0 ELSE circularDistance(idx, w) - n
  BY <1>1, <1>2, <1>3, OvertakenDistance
<1>6. QARBTypeOK'
  <2>1. data' \in [Cell -> SUBSET Sample] /\ written' = written /\ overrun' \in BOOLEAN
    BY DEF read, QARBInv, QARBTypeOK
  <2>2. farthest_write_idx' \in Cell
    BY <1>2, <1>4, <1>5
  <2>3. DOMAIN write_idxs' \subseteq Client /\ write_idxs' \in [DOMAIN write_idxs' -> Cell]
    BY <1>2, <1>4, <1>5
  <2> QED BY <1>3, <2>1, <2>2, <2>3 DEF QARBInv, QARBTypeOK
<1>7. NobodyBeyondFarthest'
  <2> SUFFICES ASSUME NEW c \in DOMAIN write_idxs'
               PROVE  circularDistance(idx', write_idxs'[c]) <= circularDistance(idx', farthest_write_idx')
    BY DEF NobodyBeyondFarthest, getMaxReadable, circularDistance
  <2>1. c \in DOMAIN write_idxs /\ write_idxs[c] \in Cell /\ write_idxs'[c] = Overtaken(write_idxs[c], n)
    BY <1>2, <1>4
  <2>2. circularDistance(idx, write_idxs[c]) <= circularDistance(idx, farthest_write_idx)
    BY <2>1 DEF QARBInv, NobodyBeyondFarthest, getMaxReadable
  <2>3. circularDistance(idx, write_idxs[c]) \in Cell /\ circularDistance(idx, farthest_write_idx) \in Cell
    BY <1>2, <2>1, Distance
  <2> QED BY <1>1, <1>2, <1>4, <1>5, <2>1, <2>2, <2>3 DEF Cell
<1> QED BY <1>6, <1>7 DEF QARBInv

(* A write moves the index of its client, and the farthest with it.         *)
LEMMA WriteStep ==
  ASSUME QARBInv, NEW c \in Client, NEW n \in WriteSizes, write(c, n) PROVE QARBInv'
<1>1. n \in Nat /\ DataLen \in Nat \ {0} /\ MaxSamples \in Nat
  BY QARBAssumption
<1>2. idx \in Cell /\ farthest_write_idx \in Cell /\ WriteIdx(c) \in Cell
  BY DEF QARBInv, QARBTypeOK, WriteIdx
<1> DEFINE end == CellAt(WriteIdx(c) + n)
<1>3. end \in Cell
  <2>1. WriteIdx(c) + n \in Nat
    BY <1>1, <1>2 DEF Cell
  <2> QED BY <2>1, InCell DEF CellAt
<1>4. /\ write_idxs' = [k \in DOMAIN write_idxs \cup {c} |-> IF k = c THEN end ELSE write_idxs[k]]
      /\ farthest_write_idx' = Farthest(end)
      /\ idx' = idx /\ written' = [written EXCEPT ![c] = @ + n] /\ written[c] + n <= MaxSamples
  BY DEF write
<1> HIDE DEF end
<1>5. farthest_write_idx' \in Cell
  BY <1>2, <1>3, <1>4 DEF Farthest
<1>6. QARBTypeOK'
  <2>1. written' \in [Client -> 0..MaxSamples] /\ written[c] \in Nat
    BY <1>1, <1>4 DEF QARBInv, QARBTypeOK
  <2>2. DOMAIN write_idxs' \subseteq Client /\ write_idxs' \in [DOMAIN write_idxs' -> Cell]
    BY <1>3, <1>4 DEF QARBInv, QARBTypeOK
  <2>3. \A i \in 0..(n - 1) : [from |-> c, seq |-> written[c] + i + 1] \in Sample
    BY <1>1, <1>4, <2>1 DEF Sample
  <2> DEFINE added(j) == {[from |-> c, seq |-> written[c] + i + 1] :
                            i \in {k \in 0..(n - 1) : CellAt(WriteIdx(c) + k) = j}}
  <2>4. \A j \in Cell : added(j) \subseteq Sample
    BY <2>3
  <2>5. data' = [j \in Cell |-> data[j] \cup added(j)]
    BY DEF write
  <2> HIDE DEF added
  <2>6. data' \in [Cell -> SUBSET Sample]
    BY <2>4, <2>5 DEF QARBInv, QARBTypeOK
  <2>7. overrun' \in BOOLEAN
    BY DEF write, QARBInv, QARBTypeOK
  <2> QED BY <1>2, <1>4, <1>5, <2>1, <2>2, <2>6, <2>7 DEF QARBTypeOK
<1>7. NobodyBeyondFarthest'
  <2> SUFFICES ASSUME NEW k \in DOMAIN write_idxs'
               PROVE  circularDistance(idx, write_idxs'[k]) <= circularDistance(idx, farthest_write_idx')
    BY <1>4 DEF NobodyBeyondFarthest, getMaxReadable, circularDistance
  <2>1. /\ circularDistance(idx, end) \in Cell
        /\ circularDistance(idx, farthest_write_idx) \in Cell
    BY <1>2, <1>3, Distance
  <2>2. /\ circularDistance(idx, end) <= circularDistance(idx, farthest_write_idx')
        /\ circularDistance(idx, farthest_write_idx) <= circularDistance(idx, farthest_write_idx')
    BY <1>1, <1>4, <2>1 DEF Farthest, getMaxReadable, Cell
  <2>3. CASE k = c
    BY <1>4, <2>2, <2>3
  <2>4. CASE k # c
    <3>1. k \in DOMAIN write_idxs /\ write_idxs'[k] = write_idxs[k] /\ write_idxs[k] \in Cell
      BY <1>4, <2>4 DEF QARBInv, QARBTypeOK
    <3>2. circularDistance(idx, write_idxs[k]) <= circularDistance(idx, farthest_write_idx)
      BY <3>1 DEF QARBInv, NobodyBeyondFarthest, getMaxReadable
    <3>3. circularDistance(idx, write_idxs[k]) \in Cell /\ circularDistance(idx, farthest_write_idx') \in Cell
      BY <1>2, <1>5, <3>1, Distance
    <3> QED BY <1>1, <2>1, <2>2, <3>1, <3>2, <3>3 DEF Cell
  <2> QED BY <2>3, <2>4
<1> QED BY <1>6, <1>7 DEF QARBInv

(* The buffer begins with all indices at its first cell.                    *)
LEMMA QARBInvInit == Init => QARBInv
<1>1. 0 \in Cell
  BY QARBAssumption DEF Cell
<1> QED BY <1>1, QARBAssumption DEF Init, QARBInv, QARBTypeOK, NobodyBeyondFarthest

(* QARBInv is inductive.                                                    *)
LEMMA QARBInvStep == QARBInv /\ [Next]_vars => QARBInv'
<1> SUFFICES ASSUME QARBInv, [Next]_vars PROVE QARBInv'
  OBVIOUS
<1>1. ASSUME NEW n \in ReadSizes, read(n) PROVE QARBInv'
  BY <1>1, ReadStep
<1>2. ASSUME NEW c \in Client, NEW n \in WriteSizes, write(c, n) PROVE QARBInv'
  BY <1>2, WriteStep
<1>3. ASSUME NEW c \in Client, clearClient(c) PROVE QARBInv'
  BY <1>3 DEF clearClient, QARBInv, QARBTypeOK, NobodyBeyondFarthest, getMaxReadable, circularDistance
<1>4. CASE UNCHANGED vars
  BY <1>4 DEF vars, indices, QARBInv, QARBTypeOK, NobodyBeyondFarthest, getMaxReadable, circularDistance
<1> QED BY <1>1, <1>2, <1>3, <1>4 DEF Next

(* No legal sequence of calls makes an index leave the buffer, so no read   *)
(* or write is outside of data (qarb.cpp:36, 65-70).                        *)
THEOREM IndicesInBuffer == Spec => []QARBTypeOK
BY QARBInvInit, QARBInvStep, PTL DEF Spec, QARBInv

(* getMaxReadable never misses what a client has written: no client is      *)
(* ahead of farthest_write_idx (qarb.cpp:43-46, 76-83).                     *)
THEOREM MaxReadableCoversAll == Spec => []NobodyBeyondFarthest
BY QARBInvInit, QARBInvStep, PTL DEF Spec, QARBInv

-----------------------------------------------------------------------------
(* The ring is a timeline that begins at the reader.                        *)

(* The k-th cell from i on.                                                 *)
From(i, k) == (i + k) % DataLen

(* Indices wrap around once.                                                *)
LEMMA FromCases ==
  ASSUME NEW i \in Cell, NEW k \in 0..DataLen
  PROVE  /\ From(i, k) = IF i + k < DataLen THEN i + k ELSE i + k - DataLen
         /\ From(i, k) \in Cell
<1>1. DataLen \in Nat \ {0} /\ i \in 0..(DataLen - 1) /\ k \in 0..DataLen
  BY QARBAssumption DEF Cell
<1>2. i + k \in 0..(2 * DataLen - 1)
  BY <1>1
<1>3. From(i, k) = IF i + k < DataLen THEN i + k ELSE i + k - DataLen
  BY <1>1, <1>2, WrapsOnce DEF From
<1> QED BY <1>1, <1>3 DEF Cell

(* All cells are met from anywhere, each once.                              *)
LEMMA FromOnce ==
  ASSUME NEW i \in Cell
  PROVE  /\ \A k \in Cell, l \in Cell : From(i, k) = From(i, l) => k = l
         /\ \A w \in Cell : From(i, circularDistance(i, w)) = w
         /\ \A k \in Cell : circularDistance(i, From(i, k)) = k
<1>1. DataLen \in Nat \ {0} /\ Cell = 0..(DataLen - 1)
  BY QARBAssumption DEF Cell
<1>2. \A k \in Cell : From(i, k) = IF i + k < DataLen THEN i + k ELSE i + k - DataLen
  <2>1. \A k \in Cell : k \in 0..DataLen
    BY <1>1
  <2> QED BY <2>1, FromCases
<1>3. \A k \in Cell, l \in Cell : From(i, k) = From(i, l) => k = l
  BY <1>1, <1>2
<1>4. ASSUME NEW w \in Cell PROVE From(i, circularDistance(i, w)) = w
  <2>1. circularDistance(i, w) \in Cell
    BY Distance
  <2> QED BY <1>1, <1>2, <2>1 DEF circularDistance
<1>5. \A k \in Cell : circularDistance(i, From(i, k)) = k
  BY <1>1, <1>2 DEF circularDistance
<1> QED BY <1>3, <1>4, <1>5

(* To go on from the n-th cell from i is to go further from i.              *)
LEMMA FromFrom ==
  ASSUME NEW i \in Cell, NEW n \in 0..DataLen, NEW k \in Cell
  PROVE  From(From(i, n), k) = From(i, IF n + k < DataLen THEN n + k ELSE n + k - DataLen)
<1>1. DataLen \in Nat \ {0} /\ Cell = 0..(DataLen - 1)
  BY QARBAssumption DEF Cell
<1> DEFINE j == From(i, n)
           m == IF n + k < DataLen THEN n + k ELSE n + k - DataLen
<1>2. j = (IF i + n < DataLen THEN i + n ELSE i + n - DataLen) /\ j \in Cell
  BY FromCases
<1>3. m \in 0..DataLen /\ k \in 0..DataLen
  BY <1>1
<1> HIDE DEF j
<1>4. From(j, k) = IF j + k < DataLen THEN j + k ELSE j + k - DataLen
  BY <1>2, <1>3, FromCases
<1>5. From(i, m) = IF i + m < DataLen THEN i + m ELSE i + m - DataLen
  BY <1>3, FromCases
<1>6. From(j, k) = From(i, m)
  BY <1>1, <1>2, <1>3, <1>4, <1>5
<1> QED BY <1>6 DEF j

(* As long as nobody has overrun the buffer, what lies beyond what can be   *)
(* read is clear.                                                           *)
ClearBeyond ==
  ~overrun => \A k \in Cell : k >= getMaxReadable => data[From(idx, k)] = {}

TimelineInv == QARBInv /\ ClearBeyond

(* The timeline, typed, and where its places are in the ring.               *)
LEMMA TimelineTypes ==
  ASSUME TimelineInv
  PROVE  /\ idx \in Cell /\ farthest_write_idx \in Cell /\ getMaxReadable \in Cell
         /\ Cell = 0..(DataLen - 1) /\ DataLen \in Nat \ {0}
         /\ Pending \in Seq(SUBSET Sample) /\ Len(Pending) = getMaxReadable
         /\ DOMAIN Pending = 1..getMaxReadable
         /\ \A i \in 1..getMaxReadable : Pending[i] = data[From(idx, i - 1)]
         /\ \A c \in DOMAIN write_idxs : c \in Client /\ write_idxs[c] \in Cell /\ Ahead[c] \in Cell
                                         /\ Ahead[c] = circularDistance(idx, write_idxs[c])
                                         /\ Ahead[c] <= getMaxReadable
<1>1. /\ idx \in Cell /\ farthest_write_idx \in Cell /\ Cell = 0..(DataLen - 1) /\ DataLen \in Nat \ {0}
      /\ data \in [Cell -> SUBSET Sample]
  BY QARBAssumption DEF TimelineInv, QARBInv, QARBTypeOK, Cell
<1>2. getMaxReadable \in Cell
  BY <1>1, Distance DEF getMaxReadable
<1>3. \A i \in 1..getMaxReadable : i - 1 \in Cell /\ i - 1 \in 0..DataLen /\ idx + (i - 1) = idx + i - 1
  BY <1>1, <1>2
<1>4. \A i \in 1..getMaxReadable : From(idx, i - 1) \in Cell /\ From(idx, i - 1) = (idx + i - 1) % DataLen
  <2>1. \A i \in 1..getMaxReadable : From(idx, i - 1) \in Cell
    BY <1>1, <1>3, FromCases
  <2> QED BY <1>3, <2>1 DEF From
<1>5. DOMAIN Pending = 1..getMaxReadable /\ \A i \in 1..getMaxReadable : Pending[i] = data[From(idx, i - 1)]
  BY <1>4 DEF Pending
<1>6. Pending \in [1..getMaxReadable -> SUBSET Sample]
  <2>1. Pending = [i \in 1..getMaxReadable |-> Pending[i]]
    BY DEF Pending
  <2>2. \A i \in 1..getMaxReadable : Pending[i] \in SUBSET Sample
    BY <1>1, <1>4, <1>5
  <2> QED BY <2>1, <2>2
<1>7. Pending \in Seq(SUBSET Sample) /\ Len(Pending) = getMaxReadable
  BY <1>1, <1>2, <1>6, LenProperties, SeqDef
<1>8. ASSUME NEW c \in DOMAIN write_idxs
      PROVE  c \in Client /\ write_idxs[c] \in Cell /\ Ahead[c] \in Cell
             /\ Ahead[c] = circularDistance(idx, write_idxs[c]) /\ Ahead[c] <= getMaxReadable
  BY <1>1, Distance DEF TimelineInv, QARBInv, QARBTypeOK, NobodyBeyondFarthest, Ahead
<1> QED BY <1>1, <1>2, <1>5, <1>7, <1>8

(* What a read of n samples leaves: the cells it has read are clear, and    *)
(* the others are met n earlier.                                            *)
LEMMA ReadMoves ==
  ASSUME TimelineInv, NEW n \in ReadSizes, read(n)
  PROVE  /\ n \in 1..DataLen /\ idx' = From(idx, n)
         /\ getMaxReadable' = IF getMaxReadable < n THEN 0 ELSE getMaxReadable - n
         /\ DOMAIN write_idxs' = DOMAIN write_idxs
         /\ \A c \in DOMAIN write_idxs :
              circularDistance(idx', write_idxs'[c]) = IF Ahead[c] < n THEN 0 ELSE Ahead[c] - n
         /\ \A k \in Cell : data'[From(idx, k)] = IF k < n THEN {} ELSE data[From(idx, k)]
         /\ \A k \in Cell :
              data'[From(idx', k)] = IF n + k < DataLen THEN data[From(idx, n + k)] ELSE {}
         /\ output' = [i \in 1..n |-> data[From(idx, i - 1)]]
<1>1. n \in 1..DataLen /\ n \in 0..DataLen /\ DataLen \in Nat \ {0} /\ Cell = 0..(DataLen - 1)
  BY QARBAssumption DEF Cell
<1>2. idx' = From(idx, n)
  BY DEF read, From
<1>3. \A w \in Cell :
        circularDistance(idx', Overtaken(w, n)) =
          IF circularDistance(idx, w) < n THEN 0 ELSE circularDistance(idx, w) - n
  BY <1>1, TimelineTypes, OvertakenDistance DEF read
<1>4. getMaxReadable' = IF getMaxReadable < n THEN 0 ELSE getMaxReadable - n
  <2>1. getMaxReadable' = circularDistance(idx', Overtaken(farthest_write_idx, n))
    BY DEF read, getMaxReadable, circularDistance
  <2> QED BY <1>3, <2>1, TimelineTypes DEF getMaxReadable
<1>5. /\ DOMAIN write_idxs' = DOMAIN write_idxs
      /\ \A c \in DOMAIN write_idxs :
           circularDistance(idx', write_idxs'[c]) = IF Ahead[c] < n THEN 0 ELSE Ahead[c] - n
  <2>1. write_idxs' = [c \in DOMAIN write_idxs |-> Overtaken(write_idxs[c], n)]
    BY DEF read
  <2> QED BY <1>3, <2>1, TimelineTypes
<1>6. \A i \in 1..n : i - 1 \in Cell /\ (idx + i - 1) % DataLen = From(idx, i - 1)
  <2>1. idx \in Int
    BY <1>1, TimelineTypes
  <2>2. \A i \in 1..n : i - 1 \in Cell /\ idx + i - 1 = idx + (i - 1)
    BY <1>1, <2>1
  <2> QED BY <2>2 DEF From
<1> DEFINE cells == [i \in 1..n |-> (idx + i - 1) % DataLen]
<1>7. \A i \in 1..n : cells[i] = From(idx, i - 1)
  BY <1>6
<1>8. /\ output' = [i \in 1..n |-> data[cells[i]]]
      /\ data' = [j \in Cell |-> IF \E i \in 1..n : cells[i] = j THEN {} ELSE data[j]]
  BY DEF read
<1> HIDE DEF cells
<1>9. output' = [i \in 1..n |-> data[From(idx, i - 1)]]
  BY <1>7, <1>8
<1>10. ASSUME NEW k \in Cell
       PROVE  data'[From(idx, k)] = IF k < n THEN {} ELSE data[From(idx, k)]
  <2>1. idx \in Cell /\ k \in 0..DataLen
    BY <1>1, TimelineTypes
  <2>2. From(idx, k) \in Cell
    BY <2>1, FromCases
  <2>3. (\E i \in 1..n : cells[i] = From(idx, k)) <=> k < n
    <3>1. ASSUME k < n PROVE \E i \in 1..n : cells[i] = From(idx, k)
      <4>1. k + 1 \in 1..n /\ (k + 1) - 1 = k
        BY <1>1, <3>1
      <4> QED BY <1>7, <4>1
    <3>2. ASSUME NEW i \in 1..n, cells[i] = From(idx, k) PROVE k < n
      <4>1. i - 1 = k
        BY <1>6, <1>7, <2>1, <3>2, FromOnce
      <4> QED BY <1>1, <4>1
    <3> QED BY <3>1, <3>2
  <2> QED BY <1>8, <2>2, <2>3
<1>11. ASSUME NEW k \in Cell
       PROVE  data'[From(idx', k)] = IF n + k < DataLen THEN data[From(idx, n + k)] ELSE {}
  <2> DEFINE m == IF n + k < DataLen THEN n + k ELSE n + k - DataLen
  <2>1. idx \in Cell
    BY TimelineTypes
  <2>2. From(From(idx, n), k) = From(idx, m)
    BY <1>1, <2>1, FromFrom
  <2>3. m \in Cell /\ (m < n <=> ~(n + k < DataLen))
    BY <1>1
  <2> HIDE DEF m
  <2>4. data'[From(idx', k)] = IF n + k < DataLen THEN data[From(idx, m)] ELSE {}
    BY <1>2, <1>10, <2>2, <2>3
  <2> QED BY <2>4 DEF m
<1> QED BY <1>1, <1>2, <1>4, <1>5, <1>9, <1>10, <1>11

(* A read plays the beginning of the timeline, or ends an overrun.          *)
LEMMA ReadMaps ==
  ASSUME TimelineInv, NEW n \in ReadSizes, read(n)
  PROVE  ClearBeyond' /\ TL!TimelineNext
<1> DEFINE g == getMaxReadable
           h == getMaxReadable'
<1>1. /\ n \in 1..DataLen /\ idx' = From(idx, n) /\ h = IF g < n THEN 0 ELSE g - n
      /\ DOMAIN write_idxs' = DOMAIN write_idxs
      /\ \A c \in DOMAIN write_idxs :
           circularDistance(idx', write_idxs'[c]) = IF Ahead[c] < n THEN 0 ELSE Ahead[c] - n
      /\ \A k \in Cell :
           data'[From(idx', k)] = IF n + k < DataLen THEN data[From(idx, n + k)] ELSE {}
      /\ output' = [i \in 1..n |-> data[From(idx, i - 1)]]
  BY ReadMoves
<1>2. /\ g \in Cell /\ Cell = 0..(DataLen - 1) /\ DataLen \in Nat \ {0}
      /\ Len(Pending) = g /\ DOMAIN Pending = 1..g
      /\ \A i \in 1..g : Pending[i] = data[From(idx, i - 1)]
      /\ \A c \in DOMAIN write_idxs : Ahead[c] \in Cell /\ Ahead[c] <= g
  BY TimelineTypes
<1>3. /\ ~overrun => \A k \in Cell : k >= g => data[From(idx, k)] = {}
      /\ overrun' = (overrun /\ n < DataLen) /\ written' = written
      /\ overrun \in BOOLEAN
  BY DEF TimelineInv, QARBInv, QARBTypeOK, ClearBeyond, read
<1>4. DOMAIN Ahead' = DOMAIN write_idxs /\ DOMAIN Ahead = DOMAIN write_idxs
      /\ \A c \in DOMAIN write_idxs : Ahead'[c] = IF Ahead[c] < n THEN 0 ELSE Ahead[c] - n
  BY <1>1 DEF Ahead, circularDistance
<1>5. Ahead' = [c \in DOMAIN write_idxs |-> IF Ahead[c] < n THEN 0 ELSE Ahead[c] - n]
  BY <1>1, <1>4 DEF Ahead
<1>6. h \in Cell /\ Pending' = [i \in 1..h |-> data'[From(idx', i - 1)]]
  <2>1. h \in Cell
    BY <1>1, <1>2
  <2>2. Pending' = [i \in 1..h |-> data'[(idx' + i - 1) % DataLen]]
    BY DEF Pending
  <2>3. idx' \in Cell
    BY <1>1, <1>2, TimelineTypes, FromCases
  <2>4. \A i \in 1..h : idx' + i - 1 = idx' + (i - 1)
    BY <1>2, <2>1, <2>3
  <2> QED BY <2>1, <2>2, <2>4 DEF From
<1>7. Len(output') = n
  <2> DEFINE S == {data[From(idx, i - 1)] : i \in 1..n}
  <2>1. output' \in [1..n -> S]
    BY <1>1
  <2>2. n \in Nat
    BY <1>1
  <2> HIDE DEF S
  <2>3. output' \in Seq(S) /\ DOMAIN output' = 1..n
    BY <2>1, <2>2, SeqDef
  <2> QED BY <2>2, <2>3, LenProperties
<1> HIDE DEF g, h
<1>8. \A i \in 1..h : i - 1 \in Cell /\ n + (i - 1) < DataLen /\ i + n \in 1..g /\ (i + n) - 1 = n + (i - 1)
  BY <1>1, <1>2
<1>9. \A i \in 1..h : data'[From(idx', i - 1)] = Pending[i + n]
  BY <1>1, <1>2, <1>8
<1>10. ClearBeyond'
  <2> SUFFICES ASSUME ~overrun', NEW k \in Cell, k >= h PROVE data'[From(idx', k)] = {}
    BY DEF ClearBeyond, h, getMaxReadable, circularDistance, From
  <2>1. CASE n + k < DataLen
    <3>1. ~overrun /\ n + k \in Cell /\ n + k >= g
      BY <1>1, <1>2, <1>3, <2>1
    <3> QED BY <1>1, <1>3, <2>1, <3>1
  <2>2. CASE ~(n + k < DataLen)
    BY <1>1, <2>2
  <2> QED BY <2>1, <2>2
<1>11. CASE ~overrun
  <2>1. \A i \in 1..n : output'[i] = TL!Place(i)
    <3> SUFFICES ASSUME NEW i \in 1..n PROVE data[From(idx, i - 1)] = TL!Place(i)
      BY <1>1
    <3>1. CASE i \in 1..g
      BY <1>2, <3>1 DEF TL!Place
    <3>2. CASE i \notin 1..g
      <4>1. i - 1 \in Cell /\ i - 1 >= g
        BY <1>1, <1>2, <3>2
      <4> QED BY <1>2, <1>3, <1>11, <3>2, <4>1 DEF TL!Place, TL!Silence
    <3> QED BY <3>1, <3>2
  <2>2. output' = [i \in 1..n |-> TL!Place(i)]
    BY <1>1, <2>1
  <2>3. TL!Larger(Len(Pending) - n, 0) = h
    BY <1>1, <1>2 DEF TL!Larger
  <2>4. Pending' = [i \in 1..h |-> Pending[i + n]]
    BY <1>6, <1>9
  <2>5. Ahead' = [c \in DOMAIN Ahead |-> TL!Larger(Ahead[c] - n, 0)]
    <3>1. \A c \in DOMAIN write_idxs : TL!Larger(Ahead[c] - n, 0) = IF Ahead[c] < n THEN 0 ELSE Ahead[c] - n
      BY <1>1, <1>2 DEF TL!Larger
    <3> QED BY <1>4, <1>5, <3>1
  <2>6. ~overrun /\ UNCHANGED <<overrun, written>>
    BY <1>3, <1>11
  <2>7. TL!Play(n)
    BY <2>2, <2>3, <2>4, <2>5, <2>6 DEF TL!Play
  <2> QED BY <1>7, <1>10, <2>7 DEF TL!TimelineNext
<1>12. CASE overrun /\ overrun'
  BY <1>10, <1>12 DEF TL!TimelineNext, TL!Void
<1>13. CASE overrun /\ ~overrun'
  <2>1. n = DataLen
    <3>1. ~(n < DataLen)
      BY <1>3, <1>13, Zenon
    <3> QED BY <1>1, <1>2, <3>1
  <2>2. h = 0 /\ \A c \in DOMAIN write_idxs : Ahead[c] < n
    BY <1>1, <1>2, <2>1
  <2>3. Pending' = <<>>
    <3>1. Pending' \in [1..0 -> {}]
      BY <1>6, <2>2
    <3>2. Pending' \in Seq({}) /\ DOMAIN Pending' = 1..0
      BY <3>1, SeqDef
    <3> QED BY <3>2, LenProperties, EmptySeq
  <2>4. Ahead' = [c \in DOMAIN Ahead |-> 0]
    BY <1>4, <1>5, <2>2
  <2>5. Len(output') > DataLen - 1
    BY <1>2, <1>7, <2>1
  <2>6. TL!Recover
    BY <1>3, <1>13, <2>3, <2>4, <2>5 DEF TL!Recover
  <2> QED BY <1>10, <2>6 DEF TL!TimelineNext
<1> QED BY <1>3, <1>11, <1>12, <1>13

(* What a write of n samples changes: the cells from the position of c on.  *)
LEMMA WriteMoves ==
  ASSUME TimelineInv, NEW c \in Client, NEW n \in WriteSizes, write(c, n),
         NEW p, p = circularDistance(idx, WriteIdx(c)), p + n < DataLen
  PROVE  /\ n \in Nat /\ p \in Cell /\ idx' = idx
         /\ getMaxReadable' = IF p + n > getMaxReadable THEN p + n ELSE getMaxReadable
         /\ DOMAIN write_idxs' = DOMAIN write_idxs \cup {c}
         /\ circularDistance(idx, write_idxs'[c]) = p + n
         /\ \A k \in DOMAIN write_idxs \ {c} : write_idxs'[k] = write_idxs[k]
         /\ \A k \in Cell : data'[From(idx, k)] = data[From(idx, k)] \cup
              (IF k \in p..(p + n - 1) THEN {[from |-> c, seq |-> written[c] + (k - p) + 1]} ELSE {})
<1>1. /\ n \in Nat /\ DataLen \in Nat \ {0} /\ Cell = 0..(DataLen - 1) /\ idx \in Cell
      /\ getMaxReadable \in Cell /\ farthest_write_idx \in Cell
  BY QARBAssumption, TimelineTypes
<1>2. WriteIdx(c) \in Cell /\ p \in Cell
  <2>1. WriteIdx(c) \in Cell
    BY <1>1, TimelineTypes DEF WriteIdx
  <2> QED BY <1>1, <2>1, Distance
<1>3. WriteIdx(c) = From(idx, p)
  BY <1>1, <1>2, FromOnce
<1>4. \A i \in 0..n : p + i \in Cell /\ CellAt(WriteIdx(c) + i) = From(idx, p + i)
  <2> SUFFICES ASSUME NEW i \in 0..n PROVE p + i \in Cell /\ CellAt(WriteIdx(c) + i) = From(idx, p + i)
    OBVIOUS
  <2>1. p + i \in Cell /\ i \in Cell /\ p \in 0..DataLen /\ p + i < DataLen
    BY <1>1, <1>2
  <2>2. From(From(idx, p), i) = From(idx, p + i)
    BY <1>1, <2>1, FromFrom
  <2> QED BY <1>3, <2>1, <2>2 DEF CellAt, From
<1> DEFINE end == CellAt(WriteIdx(c) + n)
<1>5. end = From(idx, p + n) /\ p + n \in Cell /\ end \in Cell
  <2>1. n \in 0..n
    BY <1>1
  <2>2. end = From(idx, p + n) /\ p + n \in Cell
    BY <1>4, <2>1
  <2>3. p + n \in 0..DataLen
    BY <1>1, <2>2
  <2> QED BY <1>1, <2>2, <2>3, FromCases
<1>6. circularDistance(idx, end) = p + n
  BY <1>1, <1>5, FromOnce
<1>7. /\ write_idxs' = [k \in DOMAIN write_idxs \cup {c} |-> IF k = c THEN end ELSE write_idxs[k]]
      /\ farthest_write_idx' = Farthest(end) /\ idx' = idx
  BY DEF write
<1> DEFINE added(j) == {[from |-> c, seq |-> written[c] + i + 1] :
                          i \in {k \in 0..(n - 1) : CellAt(WriteIdx(c) + k) = j}}
<1>8. data' = [j \in Cell |-> data[j] \cup added(j)]
  BY DEF write
<1>9. ASSUME NEW k \in Cell
      PROVE  added(From(idx, k)) =
               IF k \in p..(p + n - 1) THEN {[from |-> c, seq |-> written[c] + (k - p) + 1]} ELSE {}
  <2>1. \A i \in 0..(n - 1) : CellAt(WriteIdx(c) + i) = From(idx, k) <=> p + i = k
    <3>1. \A i \in 0..(n - 1) : i \in 0..n
      BY <1>1
    <3> QED BY <1>1, <1>4, <3>1, FromOnce
  <2>2. \A i \in 0..(n - 1) : p + i = k <=> i = k - p
    BY <1>1, <1>2
  <2>3. {i \in 0..(n - 1) : CellAt(WriteIdx(c) + i) = From(idx, k)} =
          IF k \in p..(p + n - 1) THEN {k - p} ELSE {}
    <3>1. k \in p..(p + n - 1) <=> k - p \in 0..(n - 1)
      BY <1>1, <1>2
    <3> QED BY <2>1, <2>2, <3>1
  <2> QED BY <2>3
<1>10. \A k \in Cell : From(idx, k) \in Cell
  <2>1. \A k \in Cell : k \in 0..DataLen
    BY <1>1
  <2> QED BY <1>1, <2>1, FromCases
<1> HIDE DEF added, end
<1>11. \A k \in Cell : data'[From(idx, k)] = data[From(idx, k)] \cup added(From(idx, k))
  BY <1>8, <1>10
<1>12. getMaxReadable' = IF p + n > getMaxReadable THEN p + n ELSE getMaxReadable
  <2>1. getMaxReadable' = circularDistance(idx, Farthest(end))
    BY <1>7 DEF getMaxReadable, circularDistance
  <2> QED BY <1>6, <2>1 DEF Farthest, getMaxReadable
<1> QED BY <1>1, <1>2, <1>6, <1>7, <1>9, <1>11, <1>12

(* A write is mixed into the timeline, unless it overruns the buffer.       *)
LEMMA WriteMaps ==
  ASSUME TimelineInv, NEW c \in Client, NEW n \in WriteSizes, write(c, n)
  PROVE  ClearBeyond' /\ TL!TimelineNext
<1> DEFINE p == circularDistance(idx, WriteIdx(c))
           g == getMaxReadable
           h == getMaxReadable'
<1>1. /\ n \in Nat /\ MaxSamples \in Nat /\ written[c] \in 0..MaxSamples /\ n \in 0..MaxSamples
      /\ written' = [written EXCEPT ![c] = @ + n] /\ written'[c] = written[c] + n
      /\ output' = output /\ overrun' = (overrun \/ p + n >= DataLen) /\ overrun \in BOOLEAN
      /\ DOMAIN write_idxs' = DOMAIN write_idxs \cup {c}
  BY QARBAssumption DEF write, TimelineInv, QARBInv, QARBTypeOK
<1>2. /\ g \in Cell /\ Cell = 0..(DataLen - 1) /\ DataLen \in Nat \ {0} /\ idx \in Cell
      /\ Len(Pending) = g /\ DOMAIN Pending = 1..g
      /\ \A i \in 1..g : Pending[i] = data[From(idx, i - 1)]
      /\ \A k \in DOMAIN write_idxs :
           Ahead[k] = circularDistance(idx, write_idxs[k]) /\ Ahead[k] \in Cell
  BY TimelineTypes
<1>3. DOMAIN Ahead = DOMAIN write_idxs /\ p = TL!Position(c) /\ p \in Cell
  <2>1. DOMAIN Ahead = DOMAIN write_idxs
    BY DEF Ahead
  <2>2. CASE c \in DOMAIN write_idxs
    BY <1>2, <2>1, <2>2 DEF WriteIdx, TL!Position
  <2>3. CASE c \notin DOMAIN write_idxs
    <3>1. circularDistance(idx, idx) = 0 /\ 0 \in Cell
      BY <1>2 DEF circularDistance
    <3> QED BY <2>1, <2>3, <3>1 DEF WriteIdx, TL!Position
  <2> QED BY <2>1, <2>2, <2>3
<1> HIDE DEF p, g, h
<1>4. CASE overrun
  <2>1. overrun'
    BY <1>1, <1>4, Zenon
  <2> QED BY <1>4, <2>1 DEF ClearBeyond, TL!TimelineNext, TL!Void
<1>5. CASE ~overrun /\ p + n >= DataLen
  <2>1. overrun'
    BY <1>1, <1>5, Zenon
  <2>2. TL!Position(c) + (written'[c] - written[c]) > DataLen - 1
    BY <1>1, <1>2, <1>3, <1>5
  <2> QED BY <1>5, <2>1, <2>2 DEF ClearBeyond, TL!TimelineNext, TL!Overrun
<1>6. CASE ~overrun /\ ~(p + n >= DataLen)
  <2>1. p + n < DataLen
    BY <1>1, <1>2, <1>3, <1>6
  <2>2. ~overrun' /\ overrun' = overrun
    <3>1. ~overrun'
      BY <1>1, <1>6, Zenon
    <3>2. overrun' \in BOOLEAN
      BY <1>1
    <3> QED BY <1>1, <1>6, <3>1, <3>2
  <2>3. /\ idx' = idx /\ h = IF p + n > g THEN p + n ELSE g
        /\ circularDistance(idx, write_idxs'[c]) = p + n
        /\ \A k \in DOMAIN write_idxs \ {c} : write_idxs'[k] = write_idxs[k]
        /\ \A k \in Cell : data'[From(idx, k)] = data[From(idx, k)] \cup
             (IF k \in p..(p + n - 1) THEN {[from |-> c, seq |-> written[c] + (k - p) + 1]} ELSE {})
    BY <2>1, WriteMoves DEF p, g, h
  <2>4. \A k \in Cell : k >= g => data[From(idx, k)] = {}
    BY <1>6 DEF TimelineInv, ClearBeyond, g
  <2>5. ClearBeyond'
    <3> SUFFICES ASSUME NEW k \in Cell, k >= h PROVE data'[From(idx, k)] = {}
      BY <2>3 DEF ClearBeyond, h, getMaxReadable, circularDistance, From
    <3>1. k >= g /\ k \notin p..(p + n - 1)
      BY <1>1, <1>2, <1>3, <2>3
    <3> QED BY <2>3, <2>4, <3>1
  <2>6. TL!Larger(g, p + n) = h /\ h \in Cell
    BY <1>1, <1>2, <1>3, <2>1, <2>3 DEF TL!Larger
  <2>7. \A i \in 1..h : i - 1 \in Cell /\ idx + i - 1 = idx + (i - 1)
    BY <1>2, <2>6
  <2>8. Pending' = [i \in 1..h |-> data'[From(idx, i - 1)]]
    <3>1. Pending' = [i \in 1..h |-> data'[(idx + i - 1) % DataLen]]
      BY <2>3 DEF Pending, h
    <3> QED BY <2>7, <3>1 DEF From
  <2>9. ASSUME NEW i \in 1..h
        PROVE  data'[From(idx, i - 1)] = TL!Place(i) \cup TL!Chunk(c, p, n, i)
    <3>1. data[From(idx, i - 1)] = TL!Place(i)
      <4>1. CASE i \in 1..g
        BY <1>2, <4>1 DEF TL!Place
      <4>2. CASE i \notin 1..g
        <5>1. i - 1 >= g
          BY <1>2, <2>6, <4>2
        <5> QED BY <1>2, <2>4, <2>7, <4>2, <5>1 DEF TL!Place, TL!Silence
      <4> QED BY <4>1, <4>2
    <3>2. /\ i - 1 \in p..(p + n - 1) <=> i \in (p + 1)..(p + n)
          /\ written[c] + ((i - 1) - p) + 1 = written[c] + (i - p)
      <4>1. i \in Int /\ p \in Int /\ n \in Int /\ written[c] \in Int
        BY <1>1, <1>2, <1>3, <2>6
      <4> HIDE DEF p
      <4> QED BY <4>1
    <3>3. data'[From(idx, i - 1)] = data[From(idx, i - 1)] \cup
             (IF i - 1 \in p..(p + n - 1) THEN {[from |-> c, seq |-> written[c] + ((i - 1) - p) + 1]} ELSE {})
      BY <2>3, <2>7
    <3>4. TL!Chunk(c, p, n, i) =
             IF i - 1 \in p..(p + n - 1) THEN {[from |-> c, seq |-> written[c] + ((i - 1) - p) + 1]} ELSE {}
      BY <3>2 DEF TL!Chunk, TL!Silence
    <3> QED BY <3>1, <3>3, <3>4
  <2>10. Pending' = [i \in 1..h |-> TL!Place(i) \cup TL!Chunk(c, p, n, i)]
    BY <2>8, <2>9
  <2>11. Ahead' = [k \in DOMAIN Ahead \cup {c} |-> IF k = c THEN p + n ELSE Ahead[k]]
    <3>1. Ahead' = [k \in DOMAIN write_idxs \cup {c} |-> circularDistance(idx, write_idxs'[k])]
      BY <1>1, <2>3 DEF Ahead, circularDistance
    <3>2. \A k \in DOMAIN write_idxs \cup {c} :
            circularDistance(idx, write_idxs'[k]) = IF k = c THEN p + n ELSE Ahead[k]
      BY <1>2, <2>3
    <3> QED BY <1>3, <3>1, <3>2
  <2>12. p + n <= DataLen - 1
    BY <1>1, <1>2, <1>3, <2>1
  <2>13. TL!Mix(c, n)
    BY <1>1, <1>2, <1>3, <1>6, <2>2, <2>6, <2>10, <2>11, <2>12 DEF TL!Mix
  <2> QED BY <1>1, <2>5, <2>13 DEF TL!TimelineNext
<1> QED BY <1>4, <1>5, <1>6

(* A client that is cleared leaves the timeline as it is.                   *)
LEMMA ClearMaps ==
  ASSUME TimelineInv, NEW c \in Client, clearClient(c)
  PROVE  ClearBeyond' /\ TL!TimelineNext
<1>1. /\ write_idxs' = [k \in DOMAIN write_idxs \ {c} |-> write_idxs[k]]
      /\ UNCHANGED <<data, idx, farthest_write_idx, written, output, overrun>>
  BY DEF clearClient
<1>2. getMaxReadable' = getMaxReadable /\ Pending' = Pending /\ ClearBeyond'
  BY <1>1 DEF getMaxReadable, circularDistance, Pending, ClearBeyond, TimelineInv, From
<1>3. Ahead' = [k \in DOMAIN Ahead \ {c} |-> Ahead[k]]
  BY <1>1 DEF Ahead, circularDistance
<1>4. CASE overrun
  BY <1>1, <1>2, <1>4 DEF TL!TimelineNext, TL!Void
<1>5. CASE ~overrun
  BY <1>1, <1>2, <1>3, <1>5 DEF TL!TimelineNext, TL!Forget
<1> QED BY <1>2, <1>4, <1>5

(* The empty buffer is an empty timeline.                                   *)
LEMMA TimelineStarts == Init => ClearBeyond /\ TL!TimelineInit
<1> SUFFICES ASSUME Init PROVE ClearBeyond /\ TL!TimelineInit
  OBVIOUS
<1>1. getMaxReadable = 0
  BY DEF Init, getMaxReadable, circularDistance
<1>2. ClearBeyond
  <2>1. \A k \in Cell : From(idx, k) \in Cell
    <3>1. idx \in Cell /\ \A k \in Cell : k \in 0..DataLen
      BY QARBAssumption DEF Init, Cell
    <3> QED BY <3>1, FromCases
  <2> QED BY <2>1 DEF Init, ClearBeyond
<1>3. Pending = <<>>
  <2>1. Pending \in [1..0 -> {}]
    BY <1>1 DEF Pending
  <2>2. Pending \in Seq({}) /\ DOMAIN Pending = 1..0
    BY <2>1, SeqDef
  <2> QED BY <2>2, LenProperties, EmptySeq
<1>4. Ahead = [c \in {} |-> 0]
  BY DEF Init, Ahead
<1> QED BY <1>2, <1>3, <1>4 DEF Init, TL!TimelineInit

(* Every call is what Timeline says of it: a read takes the beginning of    *)
(* the timeline and moves who it overtakes; a write goes to the place of    *)
(* its client and is mixed with what is there; only a write that overruns   *)
(* the buffer voids this, and only a read of all of it mends it             *)
(* (qarb.cpp:26-87).                                                        *)
THEOREM TimelineRefined == Spec => ImplementsTimeline
<1>1. Init => TimelineInv /\ TL!TimelineInit
  BY QARBInvInit, TimelineStarts DEF TimelineInv
<1>2. TimelineInv /\ [Next]_vars =>
        TimelineInv' /\ [TL!TimelineNext]_<<Pending, Ahead, written, output, overrun>>
  <2> SUFFICES ASSUME TimelineInv, [Next]_vars
               PROVE  ClearBeyond' /\ [TL!TimelineNext]_<<Pending, Ahead, written, output, overrun>>
    BY QARBInvStep DEF TimelineInv
  <2>1. ASSUME NEW n \in ReadSizes, read(n) PROVE ClearBeyond' /\ TL!TimelineNext
    BY <2>1, ReadMaps
  <2>2. ASSUME NEW c \in Client, NEW n \in WriteSizes, write(c, n) PROVE ClearBeyond' /\ TL!TimelineNext
    BY <2>2, WriteMaps
  <2>3. ASSUME NEW c \in Client, clearClient(c) PROVE ClearBeyond' /\ TL!TimelineNext
    BY <2>3, ClearMaps
  <2>4. CASE UNCHANGED vars
    <3>1. UNCHANGED <<Pending, Ahead, written, output, overrun>> /\ getMaxReadable' = getMaxReadable
      BY <2>4 DEF vars, indices, Pending, Ahead, getMaxReadable, circularDistance
    <3> QED BY <2>4, <3>1 DEF vars, indices, ClearBeyond, TimelineInv, From
  <2> QED BY <2>1, <2>2, <2>3, <2>4 DEF Next
<1> QED BY <1>1, <1>2, PTL DEF Spec, ImplementsTimeline, TL!TimelineSpec

=============================================================================
