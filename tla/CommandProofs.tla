--------------------------- MODULE CommandProofs ---------------------------
(***************************************************************************)
(* Theorems about the command channel, for any clients, lengths of their   *)
(* identities, widths and queue sizes: the reader stays in step with the   *)
(* frames, and what goes through them is a queue of whole commands.        *)
(***************************************************************************)
EXTENDS Command, SequenceTheorems, FiniteSetTheorems, WellFoundedInduction, TLAPS

(* The places of the map, with a client at each.                            *)
LEMMA Places == LastPlace \in Nat /\ \A k \in 1..LastPlace : Sorted[k] \in Client
BY CommandAssumption DEF LastPlace

(* A set of numbers that has a member has a least one.                      *)
LEMMA Least ==
  ASSUME NEW N \in SUBSET Nat, N # {}
  PROVE  \E n \in N : \A m \in N : n <= m
<1>1. \A i, j \in Nat : i < j => <<i, j>> \in OpToRel(<, Nat)
  BY DEF OpToRel
<1>2. PICK x \in N : \A y \in N : <<y, x>> \notin OpToRel(<, Nat)
  BY NatLessThanWellFounded, WFMin
<1>3. \A y \in N : y \in Nat /\ x \in Nat /\ ~(y < x)
  BY <1>1, <1>2
<1>4. \A y \in N : x <= y
  BY <1>3
<1> QED BY <1>4

(* What adds up step by step is a function of the places.                   *)
LEMMA Adds ==
  ASSUME NEW L, NEW size
  PROVE  UpTo(L, size) = [k \in 0..LastPlace |-> IF k = 0 THEN 0 ELSE
            UpTo(L, size)[k - 1] + (IF Sorted[k] \in L THEN size[Sorted[k]] ELSE 0)]
<1> DEFINE w(k) == IF Sorted[k] \in L THEN size[Sorted[k]] ELSE 0
           Sum(f, m) == [k \in 0..m |-> IF k = 0 THEN 0 ELSE f[k - 1] + w(k)]
           Summed(m) == \E f : f = Sum(f, m)
           B == {m \in 0..LastPlace : ~Summed(m)}
<1>1. LastPlace \in Nat
  BY Places
<1>2. Summed(0)
  <2>1. [k \in 0..0 |-> 0] = Sum([k \in 0..0 |-> 0], 0)
    OBVIOUS
  <2> QED BY <2>1
<1>3. ASSUME NEW n \in Nat \ {0}, Summed(n - 1) PROVE Summed(n)
  <2>1. PICK f : f = Sum(f, n - 1)
    BY <1>3
  <2> HIDE DEF w
  <2> DEFINE g == [k \in 0..n |-> IF k = n THEN f[n - 1] + w(n) ELSE f[k]]
  <2>2. ASSUME NEW k \in 0..n PROVE g[k] = IF k = 0 THEN 0 ELSE g[k - 1] + w(k)
    <3>1. CASE k = 0
      BY <2>1, <3>1
    <3>2. CASE k = n
      <4>1. k - 1 \in 0..n /\ k - 1 # n /\ k # 0
        BY <3>2
      <4> QED BY <4>1, <3>2
    <3>3. CASE k # 0 /\ k # n
      <4>1. k \in 0..(n - 1) /\ k - 1 \in 0..n /\ k - 1 # n
        BY <3>3
      <4>2. f[k] = f[k - 1] + w(k)
        BY <2>1, <3>3, <4>1
      <4> QED BY <3>3, <4>1, <4>2
    <3> QED BY <3>1, <3>2, <3>3
  <2>3. g = Sum(g, n)
    BY <2>2
  <2> QED BY <2>3
<1>4. B = {}
  <2> HIDE DEF Summed
  <2> SUFFICES ASSUME B # {} PROVE FALSE
    OBVIOUS
  <2>1. PICK n \in B : \A m \in B : n <= m
    <3>1. B \in SUBSET Nat
      BY <1>1
    <3> HIDE DEF B
    <3> QED BY <3>1, Least
  <2>2. n \in Nat \ {0} /\ n \in 0..LastPlace
    BY <1>1, <1>2, <2>1
  <2>3. n - 1 \in 0..LastPlace /\ ~(n <= n - 1)
    BY <1>1, <2>2
  <2>4. Summed(n - 1)
    BY <2>1, <2>3
  <2> QED BY <1>3, <2>1, <2>2, <2>4
<1>5. PICK f : f = Sum(f, LastPlace)
  <2>1. Summed(LastPlace)
    <3> HIDE DEF Summed
    <3> QED BY <1>1, <1>4
  <2> QED BY <2>1
<1>6. f = [k \in 0..LastPlace |-> IF k = 0 THEN 0 ELSE
            f[k - 1] + (IF Sorted[k] \in L THEN size[Sorted[k]] ELSE 0)]
  BY <1>1, <1>5
<1> QED BY <1>6 DEF UpTo

(* It is a number at every place and never gets less.                       *)
LEMMA Grows ==
  ASSUME NEW L, NEW size \in [Client -> Nat]
  PROVE  \A k \in 0..LastPlace : \A j \in 0..k :
           UpTo(L, size)[j] \in Nat /\ UpTo(L, size)[j] <= UpTo(L, size)[k]
<1> DEFINE f == UpTo(L, size)
           Fine(k) == \A j \in 0..k : f[j] \in Nat /\ f[j] <= f[k]
           B == {m \in 0..LastPlace : ~Fine(m)}
<1>1. LastPlace \in Nat
  BY Places
<1>2. f = [k \in 0..LastPlace |-> IF k = 0 THEN 0 ELSE
            f[k - 1] + (IF Sorted[k] \in L THEN size[Sorted[k]] ELSE 0)]
  BY Adds
<1> HIDE DEF f
<1>3. Fine(0)
  BY <1>1, <1>2
<1>4. ASSUME NEW n \in 1..LastPlace, Fine(n - 1) PROVE Fine(n)
  <2>1. n - 1 \in 0..(n - 1) /\ n \in 0..LastPlace
    BY <1>1
  <2>2. PICK d \in Nat : f[n] = f[n - 1] + d
    <3>1. (IF Sorted[n] \in L THEN size[Sorted[n]] ELSE 0) \in Nat
      BY Places
    <3> QED BY <1>1, <1>2, <3>1
  <2>3. f[n - 1] \in Nat /\ f[n] \in Nat /\ f[n - 1] <= f[n]
    BY <1>4, <2>1, <2>2
  <2>4. ASSUME NEW j \in 0..n PROVE f[j] \in Nat /\ f[j] <= f[n]
    <3>1. CASE j = n
      BY <2>3, <3>1
    <3>2. CASE j # n
      <4>1. j \in 0..(n - 1)
        BY <1>1, <3>2
      <4>2. f[j] \in Nat /\ f[j] <= f[n - 1]
        BY <1>4, <4>1
      <4> QED BY <2>3, <4>2
    <3> QED BY <3>1, <3>2
  <2> QED BY <2>4
<1>5. B = {}
  <2> HIDE DEF Fine
  <2> SUFFICES ASSUME B # {} PROVE FALSE
    OBVIOUS
  <2>1. PICK n \in B : \A m \in B : n <= m
    <3>1. B \in SUBSET Nat
      BY <1>1
    <3> HIDE DEF B
    <3> QED BY <3>1, Least
  <2>2. n \in 1..LastPlace
    BY <1>1, <1>3, <2>1
  <2>3. n - 1 \in 0..LastPlace /\ ~(n <= n - 1)
    BY <1>1, <2>2
  <2>4. Fine(n - 1)
    BY <2>1, <2>3
  <2> QED BY <1>4, <2>1, <2>2, <2>4
<1> QED BY <1>5 DEF f

(* The ends of the entries are in the order of the clients.                 *)
LEMMA Ends ==
  ASSUME NEW L
  PROVE  /\ \A k \in 0..LastPlace : Bytes(L, k) \in Nat /\ Entries(L, k) \in Nat /\ EndOf(L, k) \in Nat
         /\ \A k \in 0..LastPlace : \A j \in 0..k : EndOf(L, j) <= EndOf(L, k)
<1> DEFINE one == [c \in Client |-> 1]
<1>1. IdLen \in [Client -> Nat] /\ one \in [Client -> Nat]
  BY CommandAssumption
<1>2. \A k \in 0..LastPlace : \A j \in 0..k : Bytes(L, j) \in Nat /\ Bytes(L, j) <= Bytes(L, k)
  BY <1>1, Grows DEF Bytes
<1>3. \A k \in 0..LastPlace : \A j \in 0..k : Entries(L, j) \in Nat /\ Entries(L, j) <= Entries(L, k)
  BY <1>1, Grows DEF Entries
<1>4. \A k \in 0..LastPlace : k \in 0..k /\ \A j \in 0..k : j \in 0..LastPlace
  BY Places
<1>5. ASSUME NEW k \in 0..LastPlace PROVE Bytes(L, k) \in Nat /\ Entries(L, k) \in Nat
  BY <1>2, <1>3, <1>4
<1>6. ASSUME NEW k \in 0..LastPlace, NEW j \in 0..k PROVE EndOf(L, j) <= EndOf(L, k)
  <2>1. /\ Bytes(L, j) \in Nat /\ Bytes(L, k) \in Nat /\ Entries(L, j) \in Nat /\ Entries(L, k) \in Nat
        /\ Bytes(L, j) <= Bytes(L, k) /\ Entries(L, j) <= Entries(L, k)
    BY <1>2, <1>3, <1>4, <1>5
  <2> QED BY <2>1 DEF EndOf
<1> QED BY <1>5, <1>6 DEF EndOf

(* An unsigned short has a value at least.                                  *)
LEMMA Widths == Wrap \in Nat \ {0}
BY CommandAssumption DEF Wrap

(* The fields of the third frame.                                           *)
LEMMA ListTypes ==
  ASSUME NEW L \in SUBSET Client
  PROVE  /\ ListLength(L) \in Nat
         /\ \A n : WholeIn(L, n) \in SUBSET Client /\ EndsWithin(L, n) \in BOOLEAN
<1>1. LastPlace \in 0..LastPlace
  BY Places
<1>2. cl_len(L) \in Nat /\ Entries(L, LastPlace) \in Nat
  BY <1>1, Ends, Widths DEF cl_len
<1>3. ListLength(L) \in Nat
  BY <1>2, Widths DEF ListLength
<1>4. \A n : WholeIn(L, n) \in SUBSET Client
  BY Places DEF WholeIn
<1> QED BY <1>3, <1>4 DEF EndsWithin

(* A list that is not too long is sent whole.                               *)
LEMMA Whole ==
  ASSUME NEW L \in Fitting
  PROVE  /\ ListLength(L) > 0 /\ ~Overflows(L)
         /\ WholeIn(L, ListLength(L)) = L /\ EndsWithin(L, ListLength(L))
<1>1. LastPlace \in Nat /\ LastPlace \in 0..LastPlace
  BY Places
<1>2. /\ L \in SUBSET Client /\ EndOf(L, LastPlace) + 1 < Wrap /\ Bytes(L, LastPlace) \in Nat
      /\ Entries(L, LastPlace) \in Nat /\ EndOf(L, LastPlace) = Bytes(L, LastPlace) + Entries(L, LastPlace)
  BY <1>1, Ends DEF Fitting, EndOf
<1>3. \A n \in Nat : n < Wrap => n % Wrap = n
  BY Widths
<1>4. Bytes(L, LastPlace) < Wrap /\ cl_len(L) = Bytes(L, LastPlace)
  BY <1>2, <1>3, Widths DEF cl_len
<1>5. ListLength(L) = EndOf(L, LastPlace) + 1 /\ ListLength(L) \in Nat \ {0}
  BY <1>2, <1>3, <1>4 DEF ListLength
<1>6. ~Overflows(L)
  BY <1>2, <1>4, Widths DEF Overflows
<1>7. EndsWithin(L, ListLength(L))
  BY <1>1, <1>2, <1>5 DEF EndsWithin
<1>8. WholeIn(L, ListLength(L)) = L
  <2>1. ASSUME NEW c \in L PROVE c \in WholeIn(L, ListLength(L))
    <3>1. PICK k \in 1..LastPlace : Sorted[k] = c
      BY <1>2, CommandAssumption DEF Range, LastPlace
    <3>2. EndOf(L, k) \in Nat /\ EndOf(L, k) <= EndOf(L, LastPlace)
      BY <1>1, Ends
    <3>3. EndOf(L, k) <= ListLength(L)
      BY <1>2, <1>5, <3>2
    <3> QED BY <3>1, <3>3 DEF WholeIn
  <2> QED BY <2>1 DEF WholeIn
<1> QED BY <1>5, <1>6, <1>7, <1>8

(* Three frames that make a command: a client list, or a shutdown.          *)
AnyFrame == [size : Nat, number : Nat, clients : SUBSET Client, complete : BOOLEAN, more : BOOLEAN]
IsCommand(type, length, data) ==
  /\ type.size = 1 /\ type.more /\ length.more /\ ~data.more
  /\ \/ type.number = CMD_SHUTDOWN /\ length.size = 1 /\ length.number = CMD_SHUTDOWN
     \/ /\ type.number = CMD_CLIENTLIST
        /\ \/ length.size = 1 /\ length.number = CMD_CLIENTLIST
           \/ length.size = 2 /\ length.number > 0

(* The frames at cmd_sock are those of n whole commands.                    *)
Commands(frames, n) ==
  /\ Len(frames) = 3 * n
  /\ \A k \in 0..(n - 1) : IsCommand(frames[3 * k + 1], frames[3 * k + 2], frames[3 * k + 3])

(* The inductive invariant.                                                 *)
CommandInv ==
  /\ inbound \in SUBSET Client /\ listening \in SUBSET Client
  /\ closing \in BOOLEAN /\ ended \in BOOLEAN /\ alive \in BOOLEAN
  /\ stream \in Seq(AnyFrame)
  /\ \E n \in 0..QueueCap : Commands(stream, n)

(* What sendCommand sends is one command.                                   *)
LEMMA OneCommand ==
  ASSUME NEW type \in {CMD_SHUTDOWN, CMD_CLIENTLIST}, NEW n \in Nat, NEW L \in SUBSET Client,
         type = CMD_SHUTDOWN => n = 0
  PROVE  /\ Frames(type, n, L) \in Seq(AnyFrame) /\ Commands(Frames(type, n, L), 1)
         /\ IsCommand(Frames(type, n, L)[1], Frames(type, n, L)[2], Frames(type, n, L)[3])
<1>1. ASSUME NEW f1 \in AnyFrame, NEW f2 \in AnyFrame, NEW f3 \in AnyFrame, IsCommand(f1, f2, f3)
      PROVE  <<f1, f2, f3>> \in Seq(AnyFrame) /\ Commands(<<f1, f2, f3>>, 1)
  BY <1>1 DEF Commands
<1>2. CASE n > 0
  <2> DEFINE f1 == Small(1, type, TRUE)
             f2 == Small(2, n, TRUE)
             f3 == Frame(n, 0, WholeIn(L, n), EndsWithin(L, n), FALSE)
  <2>1. Frames(type, n, L) = <<f1, f2, f3>>
    BY <1>2 DEF Frames
  <2>2. f1 \in AnyFrame /\ f2 \in AnyFrame /\ f3 \in AnyFrame
    BY ListTypes DEF AnyFrame, Small, Frame, CMD_SHUTDOWN, CMD_CLIENTLIST
  <2>3. IsCommand(f1, f2, f3)
    BY <1>2 DEF IsCommand, Small, Frame, CMD_SHUTDOWN, CMD_CLIENTLIST
  <2> HIDE DEF f1, f2, f3
  <2> QED BY <1>1, <2>1, <2>2, <2>3
<1>3. CASE ~(n > 0)
  <2> DEFINE f1 == Small(1, type, TRUE)
             f3 == Small(2, 0, FALSE)
  <2>1. Frames(type, n, L) = <<f1, f1, f3>>
    BY <1>3 DEF Frames
  <2>2. f1 \in AnyFrame /\ f3 \in AnyFrame
    BY DEF AnyFrame, Small, Frame, CMD_SHUTDOWN, CMD_CLIENTLIST
  <2>3. IsCommand(f1, f1, f3)
    BY DEF IsCommand, Small, Frame, CMD_SHUTDOWN, CMD_CLIENTLIST
  <2> HIDE DEF f1, f3
  <2> QED BY <1>1, <2>1, <2>2, <2>3
<1> QED BY <1>2, <1>3

(* The commands that wait are counted by their last frames.                 *)
LEMMA Counted ==
  ASSUME NEW n \in Nat, stream \in Seq(AnyFrame), Commands(stream, n)
  PROVE  Messages = n
<1> DEFINE Ending == {i \in 1..Len(stream) : ~stream[i].more}
           f == [k \in 1..n |-> 3 * k]
<1>1. Len(stream) = 3 * n
  BY DEF Commands
<1>2. \A k \in 1..n : 3 * k \in Ending
  <2>1. ASSUME NEW k \in 1..n PROVE 3 * k \in Ending
    <3>1. k - 1 \in 0..(n - 1) /\ 3 * (k - 1) + 3 = 3 * k
      OBVIOUS
    <3>2. ~stream[3 * k].more
      BY <3>1 DEF Commands, IsCommand
    <3> QED BY <1>1, <3>2
  <2> QED BY <2>1
<1>3. ASSUME NEW i \in Ending PROVE \E k \in 1..n : i = 3 * k
  <2>1. i \in 1..(3 * n)
    BY <1>1
  <2>2. PICK k \in 0..(n - 1) : i = 3 * k + 1 \/ i = 3 * k + 2 \/ i = 3 * k + 3
    <3>1. (i - 1) \div 3 \in 0..(n - 1)
      BY <2>1
    <3>2. LET k == (i - 1) \div 3 IN i = 3 * k + 1 \/ i = 3 * k + 2 \/ i = 3 * k + 3
      BY <2>1
    <3> QED BY <3>1, <3>2
  <2>3. stream[3 * k + 1].more /\ stream[3 * k + 2].more
    BY DEF Commands, IsCommand
  <2>4. i = 3 * (k + 1) /\ k + 1 \in 1..n
    BY <2>2, <2>3
  <2> QED BY <2>4
<1>4. f \in Bijection(1..n, Ending)
  <2> HIDE DEF Ending
  <2>1. f \in [1..n -> Ending]
    BY <1>2
  <2>2. \A j, k \in 1..n : f[j] = f[k] => j = k
    OBVIOUS
  <2>3. \A i \in Ending : \E k \in 1..n : f[k] = i
    BY <1>3
  <2> HIDE DEF f
  <2> QED BY <2>1, <2>2, <2>3 DEF Bijection, Injection, Surjection, IsInjective
<1>5. Cardinality(Ending) = n
  <2> HIDE DEF Ending, f
  <2> QED BY <1>4, FS_CountingElements DEF ExistsBijection
<1> QED BY <1>5 DEF Messages

(* A command that is put behind the others leaves them as they are.         *)
LEMMA Behind ==
  ASSUME NEW n \in Nat, NEW frames \in Seq(AnyFrame), Commands(frames, n),
         NEW cmd \in Seq(AnyFrame), Commands(cmd, 1)
  PROVE  /\ frames \o cmd \in Seq(AnyFrame) /\ Commands(frames \o cmd, n + 1)
         /\ \A i \in 1..(3 * n) : (frames \o cmd)[i] = frames[i]
         /\ \A i \in 1..3 : (frames \o cmd)[3 * n + i] = cmd[i]
<1> DEFINE both == frames \o cmd
<1>1. Len(frames) = 3 * n /\ Len(cmd) = 3 /\ IsCommand(cmd[1], cmd[2], cmd[3])
  <2>1. 0 \in 0..(1 - 1) /\ 3 * 0 + 1 = 1 /\ 3 * 0 + 2 = 2 /\ 3 * 0 + 3 = 3
    OBVIOUS
  <2> QED BY <2>1 DEF Commands
<1>2. /\ both \in Seq(AnyFrame) /\ Len(both) = Len(frames) + Len(cmd)
      /\ \A i \in 1..(Len(frames) + Len(cmd)) :
           both[i] = IF i <= Len(frames) THEN frames[i] ELSE cmd[i - Len(frames)]
  BY ConcatProperties
<1>3. \A i \in 1..(3 * n) : both[i] = frames[i]
  BY <1>1, <1>2
<1>4. \A i \in 1..3 : both[3 * n + i] = cmd[i]
  BY <1>1, <1>2
<1> HIDE DEF both
<1>5. ASSUME NEW k \in 0..n PROVE IsCommand(both[3 * k + 1], both[3 * k + 2], both[3 * k + 3])
  <2>1. CASE k = n
    BY <1>1, <1>4, <2>1
  <2>2. CASE k # n
    <3>1. k \in 0..(n - 1) /\ 3 * k + 1 \in 1..(3 * n) /\ 3 * k + 2 \in 1..(3 * n) /\ 3 * k + 3 \in 1..(3 * n)
      BY <2>2
    <3>2. IsCommand(frames[3 * k + 1], frames[3 * k + 2], frames[3 * k + 3])
      BY <3>1 DEF Commands
    <3> QED BY <1>3, <3>1, <3>2
  <2> QED BY <2>1, <2>2
<1>6. Commands(both, n + 1)
  BY <1>1, <1>2, <1>5 DEF Commands
<1> QED BY <1>2, <1>3, <1>4, <1>6 DEF both

(* Three frames that are taken leave the commands behind them.              *)
LEMMA Before ==
  ASSUME NEW n \in Nat \ {0}, NEW frames \in Seq(AnyFrame), Commands(frames, n)
  PROVE  /\ SubSeq(frames, 4, Len(frames)) \in Seq(AnyFrame)
         /\ Commands(SubSeq(frames, 4, Len(frames)), n - 1)
         /\ \A i \in 1..(3 * (n - 1)) : SubSeq(frames, 4, Len(frames))[i] = frames[i + 3]
<1> DEFINE rest == SubSeq(frames, 4, Len(frames))
<1>1. Len(frames) = 3 * n
  BY DEF Commands
<1>2. rest \in Seq(AnyFrame) /\ Len(rest) = 3 * (n - 1)
  BY <1>1
<1>3. \A i \in 1..(3 * (n - 1)) : rest[i] = frames[i + 3]
  BY <1>1
<1> HIDE DEF rest
<1>4. ASSUME NEW k \in 0..(n - 2) PROVE IsCommand(rest[3 * k + 1], rest[3 * k + 2], rest[3 * k + 3])
  <2>1. /\ k + 1 \in 0..(n - 1) /\ 3 * k + 1 \in 1..(3 * (n - 1))
        /\ 3 * k + 2 \in 1..(3 * (n - 1)) /\ 3 * k + 3 \in 1..(3 * (n - 1))
    OBVIOUS
  <2>2. /\ (3 * k + 1) + 3 = 3 * (k + 1) + 1 /\ (3 * k + 2) + 3 = 3 * (k + 1) + 2
        /\ (3 * k + 3) + 3 = 3 * (k + 1) + 3
    OBVIOUS
  <2>3. IsCommand(frames[3 * (k + 1) + 1], frames[3 * (k + 1) + 2], frames[3 * (k + 1) + 3])
    BY <2>1 DEF Commands
  <2> QED BY <1>3, <2>1, <2>2, <2>3
<1>5. Commands(rest, n - 1)
  BY <1>2, <1>4 DEF Commands
<1> QED BY <1>2, <1>3, <1>5 DEF rest

(* A length frame, of a command with data or without.                       *)
LengthFrame(f) ==
  \/ f.size = 1 /\ f.number \in {CMD_SHUTDOWN, CMD_CLIENTLIST}
  \/ f.size = 2 /\ f.number > 0

(* The reader takes all three frames of a command: the length of one        *)
(* without data is made of the type and of anything.                        *)
LEMMA TakesThree ==
  ASSUME NEW f, LengthFrame(f), NEW n \in LengthRead(f)
  PROVE  n > 0
<1>1. CASE f.size = 1
  <2>1. PICK b \in 0..(Byte - 1) : n = f.number * Byte + b
    BY <1>1 DEF LengthRead
  <2>2. Byte \in Nat /\ Byte > 2
    BY CommandAssumption
  <2>3. CASE f.number = 1
    BY <2>1, <2>2, <2>3
  <2>4. CASE f.number = 2
    BY <2>1, <2>2, <2>4
  <2> QED BY <1>1, <2>3, <2>4 DEF CMD_SHUTDOWN, CMD_CLIENTLIST, LengthFrame
<1>2. CASE f.size = 2
  BY <1>2 DEF LengthRead, LengthFrame
<1> QED BY <1>1, <1>2 DEF LengthFrame

(* The list of the clients that sendCommand sends, and its shutdown.        *)
ListFrames(L) == Frames(CMD_CLIENTLIST, ListLength(L), L)
ShutdownFrames == Frames(CMD_SHUTDOWN, 0, {})

(* A client list is sent as one command, however long it is.                *)
LEMMA ListIsCommand ==
  ASSUME NEW L \in SUBSET Client
  PROVE  ListFrames(L) \in Seq(AnyFrame) /\ Commands(ListFrames(L), 1)
<1>1. ListLength(L) \in Nat /\ CMD_CLIENTLIST # CMD_SHUTDOWN
  BY ListTypes DEF CMD_SHUTDOWN, CMD_CLIENTLIST
<1> QED BY <1>1, OneCommand DEF ListFrames

(* So is the shutdown.                                                      *)
LEMMA ShutdownIsCommand == ShutdownFrames \in Seq(AnyFrame) /\ Commands(ShutdownFrames, 1)
BY OneCommand DEF ShutdownFrames

(* The frames after a command has been sent, or dropped.                    *)
LEMMA SendKeeps ==
  ASSUME NEW cmd \in Seq(AnyFrame), Commands(cmd, 1), CommandInv, Send(cmd)
  PROVE  stream' \in Seq(AnyFrame) /\ \E n \in 0..QueueCap : Commands(stream', n)
<1>1. PICK n \in 0..QueueCap : Commands(stream, n)
  BY DEF CommandInv
<1>2. CASE stream' = stream
  BY <1>1, <1>2 DEF CommandInv
<1>3. CASE Messages < QueueCap /\ stream' = stream \o cmd
  <2>1. stream \in Seq(AnyFrame) /\ n \in Nat /\ QueueCap \in Nat
    BY CommandAssumption DEF CommandInv
  <2>2. Messages = n
    BY <1>1, <2>1, Counted
  <2>3. stream' \in Seq(AnyFrame) /\ Commands(stream', n + 1)
    BY <1>1, <1>3, <2>1, Behind
  <2>4. n + 1 \in 0..QueueCap
    BY <1>3, <2>1, <2>2
  <2> QED BY <2>3, <2>4
<1> QED BY <1>2, <1>3 DEF Send

(* What readCommand takes is the first of the commands.                     *)
LEMMA ReadTakes ==
  ASSUME CommandInv, NEW n \in 0..QueueCap, Commands(stream, n), ReadCommand
  PROVE  /\ n > 0 /\ IsCommand(stream[1], stream[2], stream[3])
         /\ stream[1] \in AnyFrame /\ stream[2] \in AnyFrame /\ stream[3] \in AnyFrame
         /\ stream' = SubSeq(stream, 4, Len(stream))
<1>1. n \in Nat /\ stream \in Seq(AnyFrame) /\ Len(stream) = 3 * n /\ Len(stream) >= 3
  BY CommandAssumption DEF CommandInv, Commands, ReadCommand
<1>2. IsCommand(stream[1], stream[2], stream[3]) /\ n > 0
  <2>1. 0 \in 0..(n - 1) /\ 3 * 0 + 1 = 1 /\ 3 * 0 + 2 = 2 /\ 3 * 0 + 3 = 3
    BY <1>1
  <2> QED BY <1>1, <2>1 DEF Commands
<1>3. stream[1] \in AnyFrame /\ stream[2] \in AnyFrame /\ stream[3] \in AnyFrame
  <2>1. 1 \in 1..Len(stream) /\ 2 \in 1..Len(stream) /\ 3 \in 1..Len(stream)
    BY <1>1
  <2> QED BY <1>1, <2>1, ElementOfSeq
<1>4. PICK m \in LengthRead(stream[2]) : stream' = SubSeq(stream, IF m > 0 THEN 4 ELSE 3, Len(stream))
  BY DEF ReadCommand
<1>5. m > 0
  <2>1. LengthFrame(stream[2])
    BY <1>2 DEF IsCommand, LengthFrame
  <2> QED BY <1>4, <2>1, TakesThree
<1> QED BY <1>2, <1>3, <1>4, <1>5

(* No command waits at first.                                               *)
LEMMA InvStarts == Init => CommandInv
<1> SUFFICES ASSUME Init PROVE CommandInv
  OBVIOUS
<1>1. stream = <<>> /\ stream \in Seq(AnyFrame)
  BY DEF Init
<1>2. 0 \in 0..QueueCap /\ Commands(stream, 0)
  BY <1>1, CommandAssumption DEF Commands
<1> QED BY <1>1, <1>2 DEF Init, CommandInv

(* The frames stay those of whole commands, whoever takes a step.           *)
LEMMA InvKept == CommandInv /\ [Next]_vars => CommandInv'
<1> SUFFICES ASSUME CommandInv, [Next]_vars PROVE CommandInv'
  OBVIOUS
<1>1. CASE ClientsChange
  BY <1>1 DEF ClientsChange, CommandInv
<1>2. CASE SendList
  <2>1. inbound \in SUBSET Client /\ Send(ListFrames(inbound))
    BY <1>2 DEF SendList, ListFrames, CommandInv
  <2>2. stream' \in Seq(AnyFrame) /\ \E n \in 0..QueueCap : Commands(stream', n)
    BY <2>1, ListIsCommand, SendKeeps
  <2>3. alive' \in BOOLEAN
    BY <1>2 DEF SendList, Overflows
  <2> QED BY <1>2, <2>2, <2>3 DEF SendList, CommandInv
<1>3. CASE SendShutdown
  <2>1. Send(ShutdownFrames)
    BY <1>3 DEF SendShutdown, ShutdownFrames
  <2>2. stream' \in Seq(AnyFrame) /\ \E n \in 0..QueueCap : Commands(stream', n)
    BY <2>1, ShutdownIsCommand, SendKeeps
  <2> QED BY <1>3, <2>2 DEF SendShutdown, CommandInv
<1>4. CASE ReadCommand
  <2>1. PICK n \in 0..QueueCap : Commands(stream, n)
    BY DEF CommandInv
  <2>2. /\ n > 0 /\ stream[3] \in AnyFrame /\ stream' = SubSeq(stream, 4, Len(stream))
    BY <1>4, <2>1, ReadTakes
  <2>3. n \in Nat \ {0} /\ n - 1 \in 0..QueueCap /\ stream \in Seq(AnyFrame)
    BY <2>2, CommandAssumption DEF CommandInv
  <2>4. stream' \in Seq(AnyFrame) /\ Commands(stream', n - 1)
    BY <2>1, <2>2, <2>3, Before
  <2>5. listening' \in SUBSET Client /\ ended' \in BOOLEAN /\ alive' \in BOOLEAN
    <3>1. CASE HandleData(stream[3]) /\ UNCHANGED ended
      <4>1. stream[3].clients \in SUBSET Client
        BY <2>2 DEF AnyFrame
      <4> QED BY <3>1, <4>1 DEF HandleData, CommandInv
    <3>2. CASE ended' = TRUE /\ UNCHANGED <<listening, alive>>
      BY <3>2 DEF CommandInv
    <3>3. CASE UNCHANGED <<listening, ended, alive>>
      BY <3>3 DEF CommandInv
    <3> QED BY <1>4, <3>1, <3>2, <3>3 DEF ReadCommand
  <2>6. inbound' \in SUBSET Client /\ closing' \in BOOLEAN
    BY <1>4 DEF ReadCommand, CommandInv
  <2> QED BY <2>3, <2>4, <2>5, <2>6 DEF CommandInv
<1>5. CASE UNCHANGED vars
  BY <1>5 DEF vars, CommandInv
<1> QED BY <1>1, <1>2, <1>3, <1>4, <1>5 DEF Next

(* What waits at cmd_sock is always made of whole commands, three frames to *)
(* each, in number no more than the queue takes (audio.cpp:993-1029).       *)
THEOREM CommandInvariant == Spec => []CommandInv
<1>1. Init => CommandInv
  BY InvStarts
<1>2. CommandInv /\ [Next]_vars => CommandInv'
  BY InvKept
<1> QED BY <1>1, <1>2, PTL DEF Spec

(* The reader is always at the beginning of a command, though it asks for   *)
(* frames of other sizes than it gets and makes a length of a byte that it  *)
(* has not read (audio.cpp:1018-1021).                                      *)
THEOREM InStep == Spec => []FramesInStep
<1>1. CommandInv => FramesInStep
  <2> SUFFICES ASSUME CommandInv PROVE FramesInStep
    OBVIOUS
  <2>1. PICK n \in 0..QueueCap : Commands(stream, n)
    BY DEF CommandInv
  <2>2. n \in Nat /\ n <= QueueCap /\ stream \in Seq(AnyFrame) /\ Len(stream) = 3 * n
    BY <2>1, CommandAssumption DEF CommandInv, Commands
  <2>3. Messages = n
    BY <2>1, <2>2, Counted
  <2>4. ASSUME NEW i \in 1..Len(stream)
        PROVE  /\ stream[i].more <=> i % 3 # 0
               /\ i % 3 = 1 => stream[i].size = 1 /\ stream[i].number \in {CMD_SHUTDOWN, CMD_CLIENTLIST}
    <3>1. PICK k \in 0..(n - 1) : i = 3 * k + 1 \/ i = 3 * k + 2 \/ i = 3 * k + 3
      <4>1. LET k == (i - 1) \div 3 IN
              k \in 0..(n - 1) /\ (i = 3 * k + 1 \/ i = 3 * k + 2 \/ i = 3 * k + 3)
        BY <2>2
      <4> QED BY <4>1
    <3>2. IsCommand(stream[3 * k + 1], stream[3 * k + 2], stream[3 * k + 3])
      BY <2>1 DEF Commands
    <3>3. CASE i = 3 * k + 1
      <4>1. i % 3 = 1
        BY <3>3
      <4> QED BY <3>2, <3>3, <4>1 DEF IsCommand
    <3>4. CASE i = 3 * k + 2
      <4>1. i % 3 = 2
        BY <3>4
      <4> QED BY <3>2, <3>4, <4>1 DEF IsCommand
    <3>5. CASE i = 3 * k + 3
      <4>1. i % 3 = 0
        BY <3>5
      <4> QED BY <3>2, <3>5, <4>1 DEF IsCommand
    <3> QED BY <3>1, <3>3, <3>4, <3>5
  <2> QED BY <2>2, <2>3, <2>4 DEF FramesInStep
<1> QED BY <1>1, CommandInvariant, PTL

-----------------------------------------------------------------------------
(* The queue that the frames stand for.                                     *)
AnyCommand == [type : {"shutdown", "list", "garbled"}, clients : SUBSET Client]
Meaning(type, body) ==
  IF type.number = CMD_SHUTDOWN THEN [type |-> "shutdown", clients |-> {}]
  ELSE IF body.complete THEN [type |-> "list", clients |-> body.clients]
  ELSE [type |-> "garbled", clients |-> {}]
QueueOf(frames) ==
  [k \in 1..(Len(frames) \div 3) |-> Meaning(frames[3 * (k - 1) + 1], frames[3 * (k - 1) + 3])]

(* The mapping of the refinement, said of any frames.                       *)
LEMMA QueueIs == Queue = QueueOf(stream) /\ Queue' = QueueOf(stream')
BY DEF Queue, QueueOf, CommandAt, Meaning

(* As many commands wait as there are three frames.                         *)
LEMMA AsCommands ==
  ASSUME NEW n \in Nat, NEW frames \in Seq(AnyFrame), Commands(frames, n)
  PROVE  /\ QueueOf(frames) \in Seq(AnyCommand) /\ Len(QueueOf(frames)) = n
         /\ \A k \in 1..n : QueueOf(frames)[k] = Meaning(frames[3 * k - 2], frames[3 * k])
<1> DEFINE meant(k) == Meaning(frames[3 * (k - 1) + 1], frames[3 * (k - 1) + 3])
<1>1. Len(frames) = 3 * n /\ (3 * n) \div 3 = n
  BY DEF Commands
<1>2. QueueOf(frames) = [k \in 1..n |-> meant(k)]
  BY <1>1 DEF QueueOf
<1>3. ASSUME NEW k \in 1..n
      PROVE  meant(k) \in AnyCommand /\ meant(k) = Meaning(frames[3 * k - 2], frames[3 * k])
  <2>1. 3 * (k - 1) + 1 = 3 * k - 2 /\ 3 * (k - 1) + 3 = 3 * k /\ 3 * k \in 1..(3 * n)
    OBVIOUS
  <2>2. frames[3 * k] \in AnyFrame
    BY <1>1, <2>1, ElementOfSeq
  <2> QED BY <2>1, <2>2 DEF Meaning, AnyCommand, AnyFrame
<1> HIDE DEF meant
<1>4. [k \in 1..n |-> meant(k)] \in [1..n -> AnyCommand]
  BY <1>3
<1>5. [k \in 1..n |-> meant(k)] \in Seq(AnyCommand) /\ Len([k \in 1..n |-> meant(k)]) = n
  BY <1>4
<1> QED BY <1>2, <1>3, <1>5

(* Frames behind the others are a command behind the others.                *)
LEMMA PutBehind ==
  ASSUME NEW n \in Nat, NEW frames \in Seq(AnyFrame), Commands(frames, n),
         NEW cmd \in Seq(AnyFrame), Commands(cmd, 1)
  PROVE  QueueOf(frames \o cmd) = Append(QueueOf(frames), Meaning(cmd[1], cmd[3]))
<1> DEFINE both == frames \o cmd
           q == QueueOf(frames)
           r == QueueOf(both)
           c == Meaning(cmd[1], cmd[3])
<1>1. /\ both \in Seq(AnyFrame) /\ Commands(both, n + 1)
      /\ \A i \in 1..(3 * n) : both[i] = frames[i]
      /\ \A i \in 1..3 : both[3 * n + i] = cmd[i]
  BY Behind, Zenon
<1> HIDE DEF both
<1>2. q \in Seq(AnyCommand) /\ Len(q) = n /\ \A k \in 1..n : q[k] = Meaning(frames[3 * k - 2], frames[3 * k])
  BY AsCommands
<1>3. /\ r \in Seq(AnyCommand) /\ Len(r) = n + 1
      /\ \A k \in 1..(n + 1) : r[k] = Meaning(both[3 * k - 2], both[3 * k])
  <2>1. n + 1 \in Nat
    OBVIOUS
  <2> QED BY <1>1, <2>1, AsCommands
<1>4. r[n + 1] = c
  <2>1. /\ both[3 * n + 1] = cmd[1] /\ both[3 * n + 3] = cmd[3]
        /\ 3 * (n + 1) - 2 = 3 * n + 1 /\ 3 * (n + 1) = 3 * n + 3 /\ n + 1 \in 1..(n + 1)
    BY <1>1
  <2> QED BY <1>3, <2>1
<1>5. ASSUME NEW k \in 1..n PROVE r[k] = q[k]
  <2>1. 3 * k - 2 \in 1..(3 * n) /\ 3 * k \in 1..(3 * n) /\ k \in 1..(n + 1)
    OBVIOUS
  <2> QED BY <1>1, <1>2, <1>3, <2>1
<1>6. c \in AnyCommand
  <2>1. n + 1 \in 1..Len(r)
    BY <1>3
  <2> QED BY <1>3, <1>4, <2>1, ElementOfSeq
<1> HIDE DEF q, r, c
<1>7. /\ Append(q, c) \in Seq(AnyCommand) /\ Len(Append(q, c)) = n + 1
      /\ \A i \in 1..n : Append(q, c)[i] = q[i]
      /\ Append(q, c)[n + 1] = c
  BY <1>2, <1>6, AppendProperties
<1>8. ASSUME NEW i \in 1..Len(r) PROVE r[i] = Append(q, c)[i]
  <2>1. i \in 1..n \/ i = n + 1
    BY <1>3
  <2> QED BY <1>4, <1>5, <1>7, <2>1
<1>9. r = Append(q, c)
  BY <1>3, <1>7, <1>8, SeqEqual
<1> QED BY <1>9 DEF q, r, c, both

(* Three frames taken from the front are the first command taken.           *)
LEMMA TakeFirst ==
  ASSUME NEW n \in Nat \ {0}, NEW frames \in Seq(AnyFrame), Commands(frames, n)
  PROVE  /\ QueueOf(frames) # <<>> /\ Head(QueueOf(frames)) = Meaning(frames[1], frames[3])
         /\ QueueOf(SubSeq(frames, 4, Len(frames))) = Tail(QueueOf(frames))
<1> DEFINE rest == SubSeq(frames, 4, Len(frames))
           q == QueueOf(frames)
           r == QueueOf(rest)
<1>1. /\ rest \in Seq(AnyFrame) /\ Commands(rest, n - 1)
      /\ \A i \in 1..(3 * (n - 1)) : rest[i] = frames[i + 3]
  BY Before, Zenon
<1> HIDE DEF rest
<1>2. q \in Seq(AnyCommand) /\ Len(q) = n /\ \A k \in 1..n : q[k] = Meaning(frames[3 * k - 2], frames[3 * k])
  BY AsCommands
<1>3. /\ r \in Seq(AnyCommand) /\ Len(r) = n - 1
      /\ \A k \in 1..(n - 1) : r[k] = Meaning(rest[3 * k - 2], rest[3 * k])
  <2>1. n - 1 \in Nat
    OBVIOUS
  <2> QED BY <1>1, <2>1, AsCommands
<1>4. q # <<>> /\ Head(q) = Meaning(frames[1], frames[3])
  <2>1. 1 \in 1..n /\ 3 * 1 - 2 = 1 /\ 3 * 1 = 3
    OBVIOUS
  <2>2. q[1] = Meaning(frames[1], frames[3])
    BY <1>2, <2>1
  <2> HIDE DEF q
  <2>3. q # <<>>
    BY <1>2
  <2> QED BY <1>2, <2>2, <2>3
<1>5. ASSUME NEW k \in 1..(n - 1) PROVE r[k] = q[k + 1]
  <2>1. /\ 3 * k - 2 \in 1..(3 * (n - 1)) /\ 3 * k \in 1..(3 * (n - 1)) /\ k + 1 \in 1..n
        /\ 3 * (k + 1) - 2 = (3 * k - 2) + 3 /\ 3 * (k + 1) = 3 * k + 3
    OBVIOUS
  <2> QED BY <1>1, <1>2, <1>3, <2>1
<1> HIDE DEF q, r
<1>6. /\ Tail(q) \in Seq(AnyCommand) /\ Len(Tail(q)) = n - 1
      /\ \A i \in 1..(n - 1) : Tail(q)[i] = q[i + 1]
  BY <1>2, <1>4, HeadTailProperties
<1>7. r = Tail(q)
  BY <1>3, <1>5, <1>6, SeqEqual
<1> QED BY <1>4, <1>7 DEF q, r, rest

(* To send the frames of a command is to put the command, or to lose it.    *)
LEMMA SendPuts ==
  ASSUME CommandInv, NEW cmd \in Seq(AnyFrame), Commands(cmd, 1), Send(cmd)
  PROVE  CQ!Put(Meaning(cmd[1], cmd[3]))
<1>1. PICK n \in 0..QueueCap : Commands(stream, n)
  BY DEF CommandInv
<1>2. stream \in Seq(AnyFrame) /\ n \in Nat
  BY CommandAssumption DEF CommandInv
<1>3. CASE stream' = stream
  <2>1. Queue' = Queue
    BY <1>3, QueueIs
  <2> QED BY <2>1 DEF CQ!Put
<1>4. CASE Messages < QueueCap /\ stream' = stream \o cmd
  <2>1. Queue' = Append(Queue, Meaning(cmd[1], cmd[3]))
    BY <1>1, <1>2, <1>4, PutBehind, QueueIs
  <2>2. Len(Queue) = Messages
    BY <1>1, <1>2, AsCommands, Counted, QueueIs
  <2> QED BY <1>4, <2>1, <2>2 DEF CQ!Put
<1> QED BY <1>3, <1>4 DEF Send

(* A list that fits is put as it is; any other is put as some list, or      *)
(* garbled.                                                                 *)
LEMMA ListPut ==
  ASSUME NEW L \in SUBSET Client
  PROVE  LET c == Meaning(ListFrames(L)[1], ListFrames(L)[3]) IN
         /\ L \in Fitting => c = CQ!List(L)
         /\ c = CQ!Garbled \/ \E M \in SUBSET Client : c = CQ!List(M)
<1> DEFINE n == ListLength(L)
           c == Meaning(ListFrames(L)[1], ListFrames(L)[3])
<1>1. n \in Nat /\ WholeIn(L, n) \in SUBSET Client
  BY ListTypes
<1>2. CASE n > 0
  <2>1. /\ ListFrames(L)[1] = Small(1, CMD_CLIENTLIST, TRUE)
        /\ ListFrames(L)[3] = Frame(n, 0, WholeIn(L, n), EndsWithin(L, n), FALSE)
    BY <1>2 DEF ListFrames, Frames
  <2>2. c = IF EndsWithin(L, n) THEN CQ!List(WholeIn(L, n)) ELSE CQ!Garbled
    BY <2>1 DEF Meaning, Small, Frame, CQ!List, CQ!Garbled, CMD_SHUTDOWN, CMD_CLIENTLIST
  <2> HIDE DEF n, c
  <2>3. L \in Fitting => c = CQ!List(L)
    BY <2>2, Whole DEF n
  <2> QED BY <1>1, <2>2, <2>3 DEF n, c
<1>3. CASE ~(n > 0)
  <2>1. /\ ListFrames(L)[1] = Small(1, CMD_CLIENTLIST, TRUE)
        /\ ListFrames(L)[3] = Small(2, 0, FALSE)
    BY <1>3 DEF ListFrames, Frames
  <2>2. c = CQ!List({})
    BY <2>1 DEF Meaning, Small, Frame, CQ!List, CMD_SHUTDOWN, CMD_CLIENTLIST
  <2>3. L \notin Fitting
    BY <1>3, Whole
  <2> HIDE DEF n, c
  <2> QED BY <2>2, <2>3 DEF c
<1> QED BY <1>2, <1>3

(* The frames of a shutdown mean a shutdown.                                *)
LEMMA ShutdownPut == Meaning(ShutdownFrames[1], ShutdownFrames[3]) = CQ!Shutdown
BY DEF ShutdownFrames, Frames, Meaning, Small, Frame, CQ!Shutdown, CMD_SHUTDOWN

(* Every step of the broker and of the thread is one of the queue, or none. *)
LEMMA QueueStep ==
  ASSUME CommandInv, [Next]_vars
  PROVE  [CQ!QueueNext]_(CQ!queueVars)
<1>1. CASE alive /\ ClientsChange
  <2>1. Queue' = Queue
    BY <1>1, QueueIs DEF ClientsChange
  <2>2. inbound' \in SUBSET Client
    BY <1>1 DEF ClientsChange, CommandInv
  <2> QED BY <1>1, <2>1, <2>2 DEF ClientsChange, CQ!ClientsChange, CQ!QueueNext
<1>2. CASE alive /\ SendList
  <2> DEFINE c == Meaning(ListFrames(inbound)[1], ListFrames(inbound)[3])
  <2>1. inbound \in SUBSET Client /\ Send(ListFrames(inbound))
    BY <1>2 DEF SendList, ListFrames, CommandInv
  <2>2. CQ!Put(c)
    BY <2>1, ListIsCommand, SendPuts
  <2>3. inbound \in Fitting => c = CQ!List(inbound)
    BY <2>1, ListPut
  <2>4. c = CQ!Garbled \/ \E M \in SUBSET Client : c = CQ!List(M)
    BY <2>1, ListPut
  <2>5. inbound \in Fitting => alive'
    BY <1>2, Whole DEF SendList
  <2> HIDE DEF c
  <2>6. CQ!PutList
    BY <1>2, <2>2, <2>3, <2>4, <2>5 DEF SendList, CQ!PutList
  <2> QED BY <1>2, <2>6 DEF CQ!QueueNext
<1>3. CASE alive /\ SendShutdown
  <2>1. Send(ShutdownFrames)
    BY <1>3 DEF SendShutdown, ShutdownFrames
  <2>2. CQ!Put(CQ!Shutdown)
    BY <2>1, ShutdownIsCommand, ShutdownPut, SendPuts
  <2>3. CQ!PutShutdown
    BY <1>3, <2>2 DEF SendShutdown, CQ!PutShutdown
  <2> QED BY <1>3, <2>3 DEF CQ!QueueNext
<1>4. CASE alive /\ ReadCommand
  <2>1. PICK n \in 0..QueueCap : Commands(stream, n)
    BY DEF CommandInv
  <2>2. /\ n > 0 /\ IsCommand(stream[1], stream[2], stream[3])
        /\ stream[3] \in AnyFrame /\ stream' = SubSeq(stream, 4, Len(stream))
    BY <1>4, <2>1, ReadTakes
  <2>3. n \in Nat \ {0} /\ stream \in Seq(AnyFrame)
    BY <2>2, CommandAssumption DEF CommandInv
  <2> DEFINE c == Meaning(stream[1], stream[3])
  <2>4. Queue # <<>> /\ Head(Queue) = c /\ Queue' = Tail(Queue)
    BY <2>1, <2>2, <2>3, TakeFirst, QueueIs
  <2>5. ~ended /\ UNCHANGED <<inbound, closing>>
    BY <1>4 DEF ReadCommand
  <2>6. CASE stream[1].number = CMD_SHUTDOWN
    <3>1. c = CQ!Shutdown /\ c.type = "shutdown"
      BY <2>6 DEF Meaning, CQ!Shutdown
    <3>2. ended' = TRUE /\ listening' = listening /\ alive' = alive
      BY <1>4, <2>6 DEF ReadCommand, CMD_SHUTDOWN, CMD_CLIENTLIST
    <3> HIDE DEF c
    <3>3. CQ!Take
      BY <1>4, <2>4, <2>5, <3>1, <3>2 DEF CQ!Take
    <3> QED BY <1>4, <3>3 DEF CQ!QueueNext
  <2>7. CASE stream[1].number = CMD_CLIENTLIST
    <3>1. HandleData(stream[3]) /\ ended' = ended /\ ended \in BOOLEAN
      BY <1>4, <2>7 DEF ReadCommand, CMD_SHUTDOWN, CMD_CLIENTLIST, CommandInv
    <3>2. stream[3].clients \in SUBSET Client
      BY <2>2 DEF AnyFrame
    <3>3. CASE stream[3].complete
      <4>1. c.type = "list" /\ c.clients = stream[3].clients /\ c # CQ!Shutdown
        BY <2>7, <3>3 DEF Meaning, CQ!Shutdown, CMD_SHUTDOWN, CMD_CLIENTLIST
      <4>2. listening' = c.clients /\ alive'
        BY <3>1, <3>3, <4>1 DEF HandleData
      <4> HIDE DEF c
      <4>3. CQ!Take
        BY <2>4, <2>5, <3>1, <4>1, <4>2 DEF CQ!Take
      <4> QED BY <1>4, <4>3 DEF CQ!QueueNext
    <3>4. CASE ~stream[3].complete
      <4>1. c.type = "garbled" /\ c # CQ!Shutdown
        BY <2>7, <3>4 DEF Meaning, CQ!Shutdown, CMD_SHUTDOWN, CMD_CLIENTLIST
      <4>2. listening' \in SUBSET Client
        BY <3>1, <3>2, <3>4 DEF HandleData
      <4> HIDE DEF c
      <4>3. CQ!Take
        BY <2>4, <2>5, <3>1, <4>1, <4>2 DEF CQ!Take
      <4> QED BY <1>4, <4>3 DEF CQ!QueueNext
    <3> QED BY <3>3, <3>4
  <2> QED BY <2>2, <2>6, <2>7 DEF IsCommand
<1>5. CASE UNCHANGED vars
  <2>1. Queue' = Queue
    BY <1>5, QueueIs DEF vars
  <2> QED BY <1>5, <2>1 DEF vars, CQ!queueVars
<1> QED BY <1>1, <1>2, <1>3, <1>4, <1>5 DEF Next

(* The frames implement a queue of whole commands: none is split, changed or *)
(* overtaken, and each client list that fits into an unsigned short is read *)
(* as it was sent, with every identity and the end of the list (audio.cpp:  *)
(* 870-901).  This is what Channels takes cmd_sock for.                     *)
THEOREM QueueRefined == Spec => ImplementsQueue
<1>1. Init => CQ!QueueInit
  <2> SUFFICES ASSUME Init PROVE CQ!QueueInit
    OBVIOUS
  <2>1. stream = <<>> /\ stream \in Seq(AnyFrame) /\ Commands(stream, 0) /\ 0 \in Nat
    BY DEF Init, Commands
  <2>2. Queue \in Seq(AnyCommand) /\ Len(Queue) = 0
    BY <2>1, AsCommands, QueueIs
  <2>3. Queue = <<>>
    BY <2>2, EmptySeq
  <2> QED BY <2>3 DEF Init, CQ!QueueInit
<1>2. CommandInv /\ [Next]_vars => [CQ!QueueNext]_(CQ!queueVars)
  BY QueueStep
<1> QED BY <1>1, <1>2, CommandInvariant, PTL DEF Spec, ImplementsQueue, CQ!QueueSpec

=============================================================================
