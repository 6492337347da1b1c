----------------------------- MODULE HostProofs -----------------------------
(***************************************************************************)
(* Theorems about the instances of one host, for any number of them, any   *)
(* ports, cards, command lines and sizes of files: the search for a port,  *)
(* the devices that are opened, the lines between their callbacks and      *)
(* threads, and the log files.                                             *)
(***************************************************************************)
EXTENDS Host, FiniteSetTheorems, SequenceTheorems, WellFoundedInduction, TLAPS

-----------------------------------------------------------------------------
(* The options.                                                             *)

(* A set of numbers that has a member has a least one.                      *)
LEMMA Least ==
  ASSUME NEW N \in SUBSET Nat, N # {}
  PROVE  \E n \in N : \A m \in N : n <= m
<1>1. \A i, j \in Nat : i < j => <<i, j>> \in OpToRel(<, Nat)
  BY DEF OpToRel
<1>2. PICK x \in N : \A y \in N : <<y, x>> \notin OpToRel(<, Nat)
  BY NatLessThanWellFounded, WFMin
<1>3. \A y \in N : y \in Nat /\ x \in Nat /\ ~(y < x)
  BY <1>1, <1>2
<1>4. \A y \in N : x <= y
  BY <1>3
<1> QED BY <1>4

(* What a sequence of sequences is flattened into consists of the elements  *)
(* of its members.                                                          *)
LEMMA Flattened ==
  ASSUME NEW S, NEW seqs, NEW n \in Nat, seqs \in [1..n -> Seq(S)]
  PROVE  FlattenSeq(seqs) \in Seq(S)
<1>1. seqs \in Seq(Seq(S)) /\ Len(seqs) = n
  OBVIOUS
<1>2. CASE n = 0
  <2>1. FlattenSeq(seqs) = seqs
    BY <1>1, <1>2, Zenon DEF FlattenSeq
  <2>2. seqs = <<>>
    BY <1>1, <1>2, EmptySeq
  <2> QED BY <2>1, <2>2
<1>3. CASE n # 0
  <2> DEFINE Flat(f, m) == [i \in 1..m |-> IF i = 1 THEN seqs[i] ELSE f[i - 1] \o seqs[i]]
             Fine(m) == \E f : f = Flat(f, m) /\ f \in [1..m -> Seq(S)]
             Good(m) == Fine(m) /\ \A f : f = Flat(f, m) => f \in [1..m -> Seq(S)]
             B == {m \in 1..n : ~Good(m)}
  <2>1. Good(1)
    <3>1. ASSUME NEW f, f = Flat(f, 1) PROVE f \in [1..1 -> Seq(S)]
      <4>1. f[1] = seqs[1] /\ seqs[1] \in Seq(S)
        BY <1>3, <3>1
      <4> QED BY <3>1, <4>1
    <3>2. [i \in 1..1 |-> seqs[1]] = Flat([i \in 1..1 |-> seqs[1]], 1)
      OBVIOUS
    <3> QED BY <3>1, <3>2
  <2>2. ASSUME NEW m \in 2..n, Good(m - 1) PROVE Good(m)
    <3>1. PICK f : f = Flat(f, m - 1) /\ f \in [1..(m - 1) -> Seq(S)]
      BY <2>2
    <3> DEFINE g == [i \in 1..m |-> IF i = m THEN f[m - 1] \o seqs[m] ELSE f[i]]
    <3>2. f[m - 1] \in Seq(S) /\ seqs[m] \in Seq(S)
      BY <3>1
    <3>3. ASSUME NEW i \in 1..m PROVE g[i] = IF i = 1 THEN seqs[i] ELSE g[i - 1] \o seqs[i]
      <4>1. CASE i = m
        <5>1. i # 1 /\ i - 1 \in 1..m /\ i - 1 # m
          BY <4>1
        <5> QED BY <4>1, <5>1
      <4>2. CASE i # m
        <5>1. i \in 1..(m - 1)
          BY <4>2
        <5>2. f[i] = IF i = 1 THEN seqs[i] ELSE f[i - 1] \o seqs[i]
          BY <3>1, <5>1
        <5>3. i # 1 => i - 1 \in 1..m /\ i - 1 # m
          BY <5>1
        <5> QED BY <4>2, <5>2, <5>3
      <4> QED BY <4>1, <4>2
    <3>4. g = Flat(g, m)
      BY <3>3
    <3>5. ASSUME NEW h, h = Flat(h, m) PROVE h \in [1..m -> Seq(S)]
      <4> DEFINE e == [i \in 1..(m - 1) |-> h[i]]
      <4>1. ASSUME NEW i \in 1..(m - 1) PROVE e[i] = IF i = 1 THEN seqs[i] ELSE e[i - 1] \o seqs[i]
        <5>1. i \in 1..m /\ (i # 1 => i - 1 \in 1..(m - 1))
          OBVIOUS
        <5> QED BY <3>5, <5>1
      <4>2. e = Flat(e, m - 1)
        BY <4>1
      <4>3. e \in [1..(m - 1) -> Seq(S)]
        BY <2>2, <4>2
      <4>4. \A i \in 1..(m - 1) : h[i] \in Seq(S)
        BY <4>3
      <4>5. h[m] \in Seq(S)
        <5>1. m \in 1..m /\ m # 1 /\ m - 1 \in 1..(m - 1)
          OBVIOUS
        <5>2. h[m] = h[m - 1] \o seqs[m]
          <6> HIDE DEF e
          <6> QED BY <3>5, <5>1
        <5> QED BY <3>2, <4>4, <5>1, <5>2
      <4>6. \A i \in 1..m : h[i] \in Seq(S)
        BY <4>4, <4>5
      <4> QED BY <3>5, <4>6
    <3>6. g \in [1..m -> Seq(S)]
      BY <3>4, <3>5
    <3> QED BY <3>4, <3>5, <3>6
  <2>3. B = {}
    <3> HIDE DEF Good
    <3> SUFFICES ASSUME B # {} PROVE FALSE
      OBVIOUS
    <3>1. PICK m \in B : \A k \in B : m <= k
      <4>1. B \in SUBSET Nat
        OBVIOUS
      <4> HIDE DEF B
      <4> QED BY <4>1, Least
    <3>2. m \in 2..n
      BY <2>1, <3>1
    <3>3. m - 1 \in 1..n /\ ~(m <= m - 1)
      BY <3>2
    <3>4. Good(m - 1)
      BY <3>1, <3>3
    <3> QED BY <2>2, <3>1, <3>2, <3>4
  <2>4. Good(n)
    <3> HIDE DEF Good
    <3> QED BY <1>3, <2>3
  <2>5. PICK g : g = Flat(g, n)
    BY <2>4
  <2> DEFINE flatten == CHOOSE f : f = [i \in 1..n |-> IF i = 1 THEN seqs[i] ELSE f[i - 1] \o seqs[i]]
  <2>6. flatten = Flat(flatten, n)
    BY <2>5
  <2>7. flatten \in [1..n -> Seq(S)]
    <3> HIDE DEF flatten
    <3> QED BY <2>4, <2>6
  <2>8. FlattenSeq(seqs) = flatten[n]
    <3>1. Len(seqs) = n
      BY <1>1
    <3> QED BY <1>3, <3>1, Zenon DEF FlattenSeq
  <2> HIDE DEF flatten
  <2> QED BY <1>3, <2>7, <2>8
<1> QED BY <1>2, <1>3

(* A request gets one direction and one number of channels at most, and a   *)
(* number only that the card has.                                           *)
LEMMA OneDirection ==
  ASSUME NEW r \in Request, NEW d \in DirectionFor(r), NEW e \in DirectionFor(r)
  PROVE  d = e
<1>1. r.word \in Word
  BY DEF Request
<1>2. CASE r.word = Absent
  BY <1>2 DEF DirectionFor, OnlyDirection, Absent
<1>3. CASE r.word # Absent
  BY <1>1, <1>3 DEF DirectionFor, Word, Absent
<1> QED BY <1>2, <1>3

(* The number of channels that a request gets is unique, one that the card  *)
(* has, and none only if none was asked for.                                *)
LEMMA OneCount ==
  ASSUME NEW r \in Request, NEW max \in Nat, NEW n \in CountFor(r, max)
  PROVE  /\ \A m \in CountFor(r, max) : m = n
         /\ n <= max /\ (n > 0 \/ (r.channels \in Count /\ r.channels % UShort = 0))
<1>1. MaxCount \in Nat /\ UShort \in Nat /\ UShort > 2
  BY OptionsAssumption
<1>2. r.channels \in Count \cup {NoCount, BadCount}
  BY DEF Request
<1>3. CASE r.channels = BadCount
  BY <1>1, <1>3 DEF CountFor, BadCount, NoCount, Count
<1>4. CASE r.channels = NoCount
  <2>1. CountFor(r, max) = {AtMostTwo(max)} \ {0}
    BY <1>1, <1>4 DEF CountFor, BadCount, NoCount, Count
  <2> QED BY <2>1 DEF AtMostTwo
<1>5. CASE r.channels \in Count
  <2>1. CountFor(r, max) = {m \in {r.channels % UShort} : m <= max}
    BY <1>1, <1>5 DEF CountFor, BadCount, NoCount, Count
  <2>2. r.channels % UShort \in Nat
    BY <1>1, <1>5 DEF Count
  <2> QED BY <1>5, <2>1, <2>2
<1> QED BY <1>2, <1>3, <1>4, <1>5

(* Every card has a number of channels in each direction.                   *)
LEMMA CardHasChannels ==
  ASSUME NEW card \in Card, NEW dir
  PROVE  ChannelsOf(card, dir) \in Nat
BY OptionsAssumption DEF ChannelsOf

(* The devices whose channels exist, and are some unless none was asked for *)
(* of that very device.                                                     *)
Existing(requests) ==
  {v \in Device : /\ v.channels <= ChannelsOf(v.card, v.direction)
                  /\ v.channels > 0 \/ <<v.card, v.direction>> \in AskedForNone(requests)}

(* What parseDevice makes of one request, as a sequence: a device that      *)
(* exists, or none.                                                         *)
LEMMA Parsed ==
  ASSUME NEW requests \in Seq(Request), NEW i \in DOMAIN requests, requests[i].card \in Card
  PROVE  SetToSeq(parseDevice(requests[i])) \in Seq(Existing(requests))
<1> DEFINE r == requests[i]
           P == parseDevice(r)
<1>1. r \in Request
  <2>1. DOMAIN requests = 1..Len(requests)
    OBVIOUS
  <2> QED BY <2>1, ElementOfSeq
<1>2. ASSUME NEW v \in P
      PROVE  v \in Existing(requests) /\ \A w \in P : w = v
  <2> DEFINE max == ChannelsOf(r.card, v.direction)
  <2>1. /\ v \in Device /\ v.card = r.card /\ v.direction \in DirectionFor(r)
        /\ v.channels \in CountFor(r, max)
    BY DEF parseDevice
  <2>2. max \in Nat
    BY CardHasChannels
  <2>3. /\ \A m \in CountFor(r, max) : m = v.channels
        /\ v.channels <= max /\ (v.channels > 0 \/ (r.channels \in Count /\ r.channels % UShort = 0))
    <3> HIDE DEF r, max
    <3> QED BY <1>1, <2>1, <2>2, OneCount
  <2>4. ASSUME NEW w \in P PROVE w = v
    <3>1. /\ w \in Device /\ w.card = r.card /\ w.direction \in DirectionFor(r)
          /\ w.channels \in CountFor(r, ChannelsOf(r.card, w.direction))
      BY DEF parseDevice
    <3>2. w.direction = v.direction
      BY <1>1, <2>1, <3>1, OneDirection
    <3>3. w.channels = v.channels
      BY <2>3, <3>1, <3>2
    <3> QED BY <2>1, <3>1, <3>2, <3>3 DEF Device
  <2>5. v.channels > 0 \/ <<v.card, v.direction>> \in AskedForNone(requests)
    <3>1. <<v.card, v.direction>> \in Card \X {"INPUT", "OUTPUT"}
      BY <2>1 DEF Device
    <3> QED BY <2>1, <2>3, <3>1 DEF AskedForNone
  <2> QED BY <2>1, <2>3, <2>4, <2>5 DEF Existing
<1> HIDE DEF P
<1>3. IsFiniteSet(P)
  <2>1. CASE P = {}
    BY <2>1, FS_EmptySet
  <2>2. CASE P # {}
    <3>1. PICK v \in P : TRUE
      BY <2>2
    <3>2. P = {v}
      BY <1>2, <3>1
    <3> QED BY <3>2, FS_Singleton
  <2> QED BY <2>1, <2>2
<1>4. SetToSeq(P) \in [1..Cardinality(P) -> P] /\ Cardinality(P) \in Nat
  <2>1. PICK f : f \in Bijection(1..Cardinality(P), P)
    BY <1>3, FS_CardinalityType DEF ExistsBijection
  <2>2. f \in [1..Cardinality(P) -> P] /\ IsInjective(f)
    BY <2>1 DEF Bijection, Injection
  <2> QED BY <1>3, <2>2, FS_CardinalityType DEF SetToSeq
<1>5. P \subseteq Existing(requests)
  BY <1>2
<1>6. SetToSeq(P) \in [1..Cardinality(P) -> Existing(requests)]
  BY <1>4, <1>5
<1>7. SetToSeq(P) \in Seq(Existing(requests))
  BY <1>4, <1>6
<1> QED BY <1>7 DEF P

(* What parseOptions puts into opts.                                        *)
LEMMA Devices ==
  ASSUME NEW requests \in Seq(Request), ~ParsingCrashes(requests), ~DefaultsCrash(requests)
  PROVE  DevicesFor(requests) \in Seq(Existing(requests))
<1> DEFINE seqs == [i \in DOMAIN requests |-> SetToSeq(parseDevice(requests[i]))]
<1>1. DOMAIN requests = 1..Len(requests) /\ Len(requests) \in Nat
  OBVIOUS
<1>2. ASSUME NEW i \in DOMAIN requests PROVE requests[i].card \in Card
  <2>1. requests[i] \in Request
    BY <1>1, ElementOfSeq
  <2> QED BY <2>1 DEF Request, ParsingCrashes
<1>3. seqs \in [1..Len(requests) -> Seq(Existing(requests))]
  BY <1>1, <1>2, Parsed
<1>4. Accepted(requests) \in Seq(Existing(requests))
  <2> HIDE DEF seqs
  <2>1. FlattenSeq(seqs) \in Seq(Existing(requests))
    BY <1>1, <1>3, Flattened
  <2> QED BY <2>1 DEF Accepted, seqs
<1>5. CASE Accepted(requests) = <<>>
  <2>1. DefaultIn \in Card /\ DefaultOut \in Card /\ MaxIn[DefaultIn] > 0 /\ MaxOut[DefaultOut] > 0
    BY <1>5, OptionsAssumption DEF DefaultsCrash
  <2>2. MaxIn[DefaultIn] \in Nat /\ MaxOut[DefaultOut] \in Nat
    BY <2>1, OptionsAssumption
  <2>3. ASSUME NEW c \in Card, NEW d \in {"INPUT", "OUTPUT"}, ChannelsOf(c, d) > 0
        PROVE  DefaultDevice(c, d) \in Existing(requests)
    <3>1. ChannelsOf(c, d) \in Nat /\ UShort \in Nat /\ UShort > 2
      BY CardHasChannels, OptionsAssumption
    <3>2. /\ AtMostTwo(ChannelsOf(c, d)) \in 0..(UShort - 1)
          /\ AtMostTwo(ChannelsOf(c, d)) > 0 /\ AtMostTwo(ChannelsOf(c, d)) <= ChannelsOf(c, d)
      BY <2>3, <3>1 DEF AtMostTwo
    <3> QED BY <3>2 DEF DefaultDevice, Existing, Device
  <2>4. /\ DefaultDevice(DefaultOut, "OUTPUT") \in Existing(requests)
        /\ DefaultDevice(DefaultIn, "INPUT") \in Existing(requests)
    BY <2>1, <2>2, <2>3 DEF ChannelsOf
  <2>5. Defaults \in Seq(Existing(requests))
    BY <2>4 DEF Defaults
  <2> QED BY <1>5, <2>5 DEF DevicesFor
<1>6. CASE Accepted(requests) # <<>>
  BY <1>4, <1>6 DEF DevicesFor
<1> QED BY <1>5, <1>6

-----------------------------------------------------------------------------
(* The search for a port.                                                   *)

StageName == {"off", "binding", "gaveup", "building", "serving", "closing"}
Up == {"building", "serving", "closing"}

PortsInv ==
  /\ stage \in [Instance -> StageName]
  /\ asked \in [Instance -> Port] /\ port \in [Instance -> Port]
  /\ bound \in [Instance -> (Port \ {0}) \cup {NoPort}]
  /\ refused \in [Instance -> SUBSET Port]
  /\ others \in SUBSET Occupied
  /\ \A i \in Instance :
       stage[i] \in Up => bound[i] \in Port \ others /\ (bound[i] = port[i] \/ port[i] = 0)

(* Some port is always free: there are more of them than other programs may *)
(* hold and instances run.                                                  *)
PortsLeft ==
  /\ IsFiniteSet(Instance)
  /\ Cardinality(Occupied) + Cardinality(Instance) < UShort - 1

(* Where a search is: it has been refused every port from the first one on. *)
SearchInv ==
  \A i \in Instance : stage[i] # "off" =>
    /\ \/ port[i] >= asked[i] /\ refused[i] = asked[i]..(port[i] - 1)
       \/ port[i] = 0 /\ asked[i] > 0 /\ refused[i] = asked[i]..(UShort - 1)
    /\ asked[i] = 0 => port[i] = 0
    /\ port[i] - asked[i] <= Attempts
    /\ stage[i] = "gaveup" => port[i] - asked[i] = Attempts

(* The numbers of the ports.                                                *)
LEMMA Numbers ==
  /\ UShort \in Nat /\ UShort > 2 /\ Port = 0..(UShort - 1) /\ NoPort = UShort
  /\ Attempts \in Nat \ {0} /\ Occupied \subseteq Port \ {0}
BY OptionsAssumption, HostAssumption DEF Port, NoPort

(* The members of a command line.                                           *)
LEMMA Lines ==
  ASSUME NEW i \in Instance, NEW o \in CommandLine[i]
  PROVE  o.port \in Port /\ o.prefix \in STRING /\ o.devices \in Seq(Request)
<1>1. o \in [port : Port, prefix : STRING, devices : Seq(Request)]
  BY HostAssumption
<1> QED BY <1>1

(* The steps of a thread leave the search alone.                            *)
LEMMA ThreadSteps ==
  ASSUME NEW i \in Instance, StartThread(i) \/ \E k \in DOMAIN thread[i] : DeviceDoes(i, k)
  PROVE  UNCHANGED <<process, search, others>>
BY DEF StartThread, DeviceDoes, InitSocks, OpenLog, WriteData, WriteFails, EndThread

(* No instance has started to look for a port.                              *)
LEMMA PortsStart == Init => PortsInv /\ SearchInv
<1> SUFFICES ASSUME Init PROVE PortsInv /\ SearchInv
  OBVIOUS
<1>1. 0 \in Port
  BY Numbers
<1> QED BY <1>1 DEF Init, PortsInv, SearchInv, StageName, Up

(* A step keeps an instance that runs on the port that it was bound to, and *)
(* others off it.                                                           *)
LEMMA PortsKept ==
  ASSUME PortsInv, [Next]_vars
  PROVE  PortsInv'
<1> USE DEF PortsInv, StageName, Up
<1>1. CASE OthersChange
  <2>1. UNCHANGED <<stage, asked, port, bound, refused>> /\ others' \in SUBSET Occupied
    BY <1>1 DEF OthersChange, process, options, search
  <2>2. ASSUME NEW i \in Instance, bound[i] \in Port \ others PROVE bound[i] \notin others'
    BY <1>1, <2>2 DEF OthersChange, Taken
  <2> QED BY <2>1, <2>2
<1>2. ASSUME NEW i \in Instance, Launch(i) PROVE PortsInv'
  <2>1. UNCHANGED <<bound, others>>
    BY <1>2 DEF Launch
  <2>2. PICK o \in CommandLine[i] :
          IF ParsingCrashes(o.devices) \/ DefaultsCrash(o.devices)
          THEN stage' = [stage EXCEPT ![i] = "off"] /\ UNCHANGED <<asked, port, refused>>
          ELSE /\ stage' = [stage EXCEPT ![i] = "binding"]
               /\ asked' = [asked EXCEPT ![i] = o.port]
               /\ port' = [port EXCEPT ![i] = o.port]
               /\ refused' = [refused EXCEPT ![i] = {}]
    BY <1>2 DEF Launch
  <2>3. o.port \in Port
    BY Lines
  <2>4. CASE ParsingCrashes(o.devices) \/ DefaultsCrash(o.devices)
    BY <2>1, <2>2, <2>4
  <2>5. CASE ~(ParsingCrashes(o.devices) \/ DefaultsCrash(o.devices))
    <3>1. /\ stage' \in [Instance -> StageName] /\ asked' \in [Instance -> Port]
          /\ port' \in [Instance -> Port] /\ refused' \in [Instance -> SUBSET Port]
      BY <2>2, <2>3, <2>5
    <3>2. ASSUME NEW j \in Instance, stage'[j] \in Up
          PROVE  j # i /\ stage[j] = stage'[j] /\ port'[j] = port[j]
      BY <2>2, <2>5, <3>2
    <3> QED BY <2>1, <3>1, <3>2
  <2> QED BY <2>4, <2>5
<1>3. ASSUME NEW i \in Instance, BindPort(i) PROVE PortsInv'
  <2>1. PICK p \in Offered(port[i]) : bound' = [bound EXCEPT ![i] = p]
    BY <1>3 DEF BindPort
  <2>2. /\ stage' = [stage EXCEPT ![i] = "building"]
        /\ UNCHANGED <<asked, port, refused, others>>
    BY <1>3 DEF BindPort
  <2>3. p \in Port \ {0} /\ p \notin others /\ (p = port[i] \/ port[i] = 0)
    BY <2>1 DEF Offered, Taken
  <2>4. ASSUME NEW j \in Instance, stage'[j] \in Up
        PROVE  bound'[j] \in Port \ others' /\ (bound'[j] = port'[j] \/ port'[j] = 0)
    BY <2>1, <2>2, <2>3, <2>4
  <2>5. bound' \in [Instance -> (Port \ {0}) \cup {NoPort}] /\ stage' \in [Instance -> StageName]
    BY <2>1, <2>2, <2>3
  <2> QED BY <2>2, <2>4, <2>5
<1>4. ASSUME NEW i \in Instance, NextPort(i) PROVE PortsInv'
  <2>1. /\ stage[i] = "binding" /\ port' = [port EXCEPT ![i] = NextAfter(port[i])]
        /\ refused' = [refused EXCEPT ![i] = refused[i] \cup {port[i]}]
        /\ UNCHANGED <<stage, asked, bound, others>>
    BY <1>4 DEF NextPort, process, options
  <2>2. NextAfter(port[i]) \in Port
    BY Numbers DEF NextAfter
  <2> QED BY <2>1, <2>2
<1>5. ASSUME NEW i \in Instance, GiveUp(i) PROVE PortsInv'
  BY <1>5 DEF GiveUp, search
<1>6. ASSUME NEW i \in Instance, StartThread(i) \/ \E k \in DOMAIN thread[i] : DeviceDoes(i, k)
      PROVE  PortsInv'
  BY <1>6, ThreadSteps DEF process, options, search
<1>7. ASSUME NEW i \in Instance, EnterLoop(i) \/ Stop(i) PROVE PortsInv'
  BY <1>7 DEF EnterLoop, Stop, search
<1>8. ASSUME NEW i \in Instance, Finish(i) \/ Kill(i) PROVE PortsInv'
  <2>1. /\ stage' = [stage EXCEPT ![i] = "off"] /\ bound' = [bound EXCEPT ![i] = NoPort]
        /\ UNCHANGED <<asked, port, refused, others>>
    BY <1>8 DEF Finish, Kill, Gone
  <2> QED BY <2>1
<1>9. CASE UNCHANGED vars
  BY <1>9 DEF vars, process, options, search
<1> QED BY <1>1, <1>2, <1>3, <1>4, <1>5, <1>6, <1>7, <1>8, <1>9 DEF Next

(* A bind to port 0 finds a port: fewer are taken than there are.           *)
LEMMA AnyPortFree ==
  ASSUME PortsLeft, PortsInv
  PROVE  Offered(0) # {}
<1> DEFINE B == {bound[i] : i \in Instance}
           P == 1..(UShort - 1)
<1>1. IsFiniteSet(B) /\ Cardinality(B) <= Cardinality(Instance) /\ Cardinality(B) \in Nat
  <2>1. bound \in Surjection(Instance, B)
    <3>1. bound \in [Instance -> B]
      BY DEF PortsInv
    <3> QED BY <3>1 DEF Surjection
  <2>2. IsFiniteSet(Instance)
    BY DEF PortsLeft
  <2> HIDE DEF B
  <2> QED BY <2>1, <2>2, FS_Surjection, FS_CardinalityType
<1>2. IsFiniteSet(P) /\ Cardinality(P) = UShort - 1
  <2>1. 1 \in Int /\ UShort - 1 \in Int /\ ~(1 > UShort - 1)
    BY Numbers
  <2> QED BY <2>1, FS_Interval, Numbers
<1>3. P = Port \ {0}
  BY Numbers
<1>4. IsFiniteSet(others) /\ Cardinality(others) <= Cardinality(Occupied) /\ Cardinality(others) \in Nat
  <2>1. IsFiniteSet(Occupied)
    <3>1. Occupied \in SUBSET P
      BY <1>3, Numbers
    <3> HIDE DEF P
    <3> QED BY <1>2, <3>1, FS_Subset
  <2>2. others \in SUBSET Occupied
    BY DEF PortsInv
  <2> QED BY <2>1, <2>2, FS_Subset, FS_CardinalityType
<1> HIDE DEF B, P
<1>5. IsFiniteSet(Taken) /\ Cardinality(Taken) <= Cardinality(others) + Cardinality(B)
  <2>1. Taken = others \cup B
    BY DEF Taken, B
  <2>2. Cardinality(others \cap B) \in Nat
    BY <1>1, FS_Intersection, FS_CardinalityType
  <2>3. /\ IsFiniteSet(others \cup B)
        /\ Cardinality(others \cup B) = Cardinality(others) + Cardinality(B) - Cardinality(others \cap B)
    BY <1>1, <1>4, FS_Union
  <2> QED BY <1>1, <1>4, <2>1, <2>2, <2>3
<1>6. SUFFICES ASSUME P \subseteq Taken PROVE FALSE
  BY <1>3 DEF Offered
<1>7. Cardinality(P) <= Cardinality(Taken)
  BY <1>5, <1>6, FS_Subset
<1>8. Cardinality(Taken) \in Nat /\ Cardinality(Occupied) \in Nat /\ Cardinality(Instance) \in Nat
  <2>1. Occupied \in SUBSET P
    BY <1>3, Numbers
  <2>2. IsFiniteSet(Occupied) /\ IsFiniteSet(Instance)
    BY <1>2, <2>1, FS_Subset DEF PortsLeft
  <2> QED BY <1>5, <2>2, FS_CardinalityType
<1> QED BY <1>1, <1>2, <1>4, <1>5, <1>7, <1>8, Numbers DEF PortsLeft

(* A step keeps a search where it should be: it goes on at the port after   *)
(* the last one refused, and past the last port there is it comes to port   *)
(* 0, which is never refused.                                               *)
LEMMA SearchKept ==
  ASSUME PortsLeft, PortsInv, SearchInv, [Next]_vars
  PROVE  SearchInv'
<1> USE DEF SearchInv
<1>1. CASE OthersChange
  BY <1>1 DEF OthersChange, process, options, search
<1>2. ASSUME NEW i \in Instance, Launch(i) PROVE SearchInv'
  <2>1. PICK o \in CommandLine[i] :
          IF ParsingCrashes(o.devices) \/ DefaultsCrash(o.devices)
          THEN stage' = [stage EXCEPT ![i] = "off"] /\ UNCHANGED <<asked, port, refused>>
          ELSE /\ stage' = [stage EXCEPT ![i] = "binding"]
               /\ asked' = [asked EXCEPT ![i] = o.port]
               /\ port' = [port EXCEPT ![i] = o.port]
               /\ refused' = [refused EXCEPT ![i] = {}]
    BY <1>2 DEF Launch
  <2>2. CASE ParsingCrashes(o.devices) \/ DefaultsCrash(o.devices)
    BY <2>1, <2>2 DEF PortsInv
  <2>3. CASE ~(ParsingCrashes(o.devices) \/ DefaultsCrash(o.devices))
    <3>1. /\ stage' = [stage EXCEPT ![i] = "binding"]
          /\ asked' = [asked EXCEPT ![i] = o.port]
          /\ port' = [port EXCEPT ![i] = o.port]
          /\ refused' = [refused EXCEPT ![i] = {}]
      BY <2>1, <2>3
    <3>2. o.port \in Nat /\ {} = o.port..(o.port - 1) /\ o.port - o.port <= Attempts
      BY Lines, Numbers
    <3> QED BY <3>1, <3>2 DEF PortsInv
  <2> QED BY <2>2, <2>3
<1>3. ASSUME NEW i \in Instance, BindPort(i) PROVE SearchInv'
  BY <1>3 DEF BindPort, PortsInv
<1>4. ASSUME NEW i \in Instance, NextPort(i) PROVE SearchInv'
  <2> DEFINE p == port[i]
             a == asked[i]
  <2>1. /\ stage[i] = "binding" /\ p - a < Attempts /\ Offered(p) = {}
        /\ port' = [port EXCEPT ![i] = NextAfter(p)]
        /\ refused' = [refused EXCEPT ![i] = refused[i] \cup {p}]
        /\ UNCHANGED <<stage, asked>>
    BY <1>4 DEF NextPort, process, options, AttemptsLeft
  <2>2. p \in Port /\ a \in Port /\ p # 0
    BY <2>1, AnyPortFree DEF PortsInv
  <2>3. p >= a /\ a > 0 /\ refused[i] = a..(p - 1)
    BY <2>1, <2>2, Numbers
  <2>4. refused'[i] = a..p
    <3>1. a..(p - 1) \cup {p} = a..p
      BY <2>2, <2>3, Numbers
    <3> QED BY <2>1, <2>3, <3>1 DEF PortsInv
  <2>5. \/ p < UShort - 1 /\ port'[i] = p + 1
        \/ p = UShort - 1 /\ port'[i] = 0
    <3>1. p \in 0..(UShort - 1) /\ UShort \in Nat /\ UShort > 2
      BY <2>2, Numbers
    <3>2. CASE p < UShort - 1
      <4>1. NextAfter(p) = p + 1
        BY <3>1, <3>2 DEF NextAfter
      <4> QED BY <2>1, <3>2, <4>1 DEF PortsInv
    <3>3. CASE p = UShort - 1
      <4>1. p + 1 = UShort /\ UShort % UShort = 0
        BY <3>1, <3>3
      <4>2. NextAfter(p) = 0
        BY <4>1 DEF NextAfter
      <4> QED BY <2>1, <3>3, <4>2 DEF PortsInv
    <3> QED BY <3>1, <3>2, <3>3
  <2>6. /\ \/ port'[i] >= a /\ refused'[i] = a..(port'[i] - 1)
           \/ port'[i] = 0 /\ a > 0 /\ refused'[i] = a..(UShort - 1)
        /\ port'[i] - a <= Attempts /\ a # 0
    <3>1. p \in Int /\ a \in Nat /\ UShort \in Nat /\ Attempts \in Nat
      BY <2>2, Numbers
    <3>2. CASE p < UShort - 1 /\ port'[i] = p + 1
      BY <2>1, <2>3, <2>4, <3>1, <3>2
    <3>3. CASE p = UShort - 1 /\ port'[i] = 0
      <4>1. refused'[i] = a..(UShort - 1) /\ 0 - a <= Attempts
        BY <2>4, <3>1, <3>3
      <4> QED BY <2>3, <3>3, <4>1
    <3> QED BY <2>5, <3>2, <3>3
  <2>7. ASSUME NEW j \in Instance, j # i PROVE port'[j] = port[j] /\ refused'[j] = refused[j]
    BY <2>1, <2>7 DEF PortsInv
  <2> QED BY <2>1, <2>6, <2>7
<1>5. ASSUME NEW i \in Instance, GiveUp(i) PROVE SearchInv'
  <2>1. /\ stage[i] = "binding" /\ ~(port[i] - asked[i] < Attempts)
        /\ stage' = [stage EXCEPT ![i] = "gaveup"] /\ UNCHANGED <<asked, port, refused>>
    BY <1>5 DEF GiveUp, search, AttemptsLeft
  <2>2. port[i] - asked[i] = Attempts
    BY <2>1, Numbers DEF PortsInv
  <2> QED BY <2>1, <2>2 DEF PortsInv
<1>6. ASSUME NEW i \in Instance, StartThread(i) \/ \E k \in DOMAIN thread[i] : DeviceDoes(i, k)
      PROVE  SearchInv'
  BY <1>6, ThreadSteps DEF process, options, search
<1>7. ASSUME NEW i \in Instance, EnterLoop(i) \/ Stop(i) PROVE SearchInv'
  BY <1>7 DEF EnterLoop, Stop, search, PortsInv
<1>8. ASSUME NEW i \in Instance, Finish(i) \/ Kill(i) PROVE SearchInv'
  BY <1>8 DEF Finish, Kill, Gone, PortsInv
<1>9. CASE UNCHANGED vars
  BY <1>9 DEF vars, process, options, search
<1> QED BY <1>1, <1>2, <1>3, <1>4, <1>5, <1>6, <1>7, <1>8, <1>9 DEF Next

(* What is known of the ports and of the searches is what a user relies on. *)
LEMMA SearchMeans == PortsInv /\ SearchInv => FirstPortNotRefused
<1> SUFFICES ASSUME PortsInv, SearchInv, NEW i \in Instance
             PROVE  /\ stage[i] \in Up =>
                         /\ bound[i] \in Port \ others
                         /\ bound[i] = port[i] \/ port[i] = 0
                         /\ port[i] # asked[i] => refused[i] = Following(i)
                    /\ stage[i] = "gaveup" => {asked[i] + n : n \in 0..(Attempts - 1)} = refused[i]
  BY DEF FirstPortNotRefused, Up
<1> DEFINE p == port[i]
           a == asked[i]
<1>1. p \in 0..(UShort - 1) /\ a \in 0..(UShort - 1) /\ UShort \in Nat /\ Attempts \in Nat \ {0}
  BY Numbers DEF PortsInv
<1>2. ASSUME stage[i] \in Up PROVE bound[i] \in Port \ others /\ (bound[i] = p \/ p = 0)
  BY <1>2 DEF PortsInv
<1>3. ASSUME stage[i] \in Up, p # a PROVE refused[i] = Following(i)
  <2>1. Following(i) = {(a + n) % UShort : n \in 0..((p - a - 1) % UShort)}
    BY DEF Following
  <2>2. /\ \/ p >= a /\ refused[i] = a..(p - 1)
           \/ p = 0 /\ a > 0 /\ refused[i] = a..(UShort - 1)
    BY <1>3 DEF SearchInv, Up
  <2> HIDE DEF p, a
  <2>3. ASSUME NEW m \in 0..(UShort - 1), m < UShort - a PROVE {(a + n) % UShort : n \in 0..m} = a..(a + m)
    <3>1. \A n \in 0..m : (a + n) % UShort = a + n
      BY <1>1, <2>3
    <3>2. \A x \in a..(a + m) : x - a \in 0..m /\ a + (x - a) = x
      BY <1>1, <2>3
    <3>3. \A n \in 0..m : a + n \in a..(a + m)
      BY <1>1, <2>3
    <3>4. ASSUME NEW x \in a..(a + m) PROVE \E n \in 0..m : x = (a + n) % UShort
      <4>1. x = (a + (x - a)) % UShort /\ x - a \in 0..m
        BY <3>1, <3>2
      <4> QED BY <4>1
    <3> QED BY <3>1, <3>3, <3>4
  <2>4. CASE p >= a /\ refused[i] = a..(p - 1)
    <3>1. p - a - 1 \in 0..(UShort - 1) /\ p - a - 1 < UShort - a /\ a + (p - a - 1) = p - 1
      BY <1>1, <1>3, <2>4 DEF p, a
    <3>2. (p - a - 1) % UShort = p - a - 1
      BY <1>1, <3>1
    <3> QED BY <2>1, <2>3, <2>4, <3>1, <3>2
  <2>5. CASE p = 0 /\ a > 0 /\ refused[i] = a..(UShort - 1)
    <3>1. UShort - a - 1 \in 0..(UShort - 1) /\ UShort - a - 1 < UShort - a /\ a + (UShort - a - 1) = UShort - 1
      BY <1>1, <2>5
    <3>2. (p - a - 1) % UShort = UShort - a - 1
      BY <1>1, <2>5
    <3> QED BY <2>1, <2>3, <2>5, <3>1, <3>2
  <2> QED BY <2>2, <2>4, <2>5
<1>4. ASSUME stage[i] = "gaveup" PROVE {a + n : n \in 0..(Attempts - 1)} = refused[i]
  <2>1. p - a = Attempts /\ refused[i] = a..(p - 1)
    BY <1>1, <1>4 DEF SearchInv
  <2> HIDE DEF p, a
  <2>2. \A x \in a..(p - 1) : x - a \in 0..(Attempts - 1) /\ a + (x - a) = x
    BY <1>1, <2>1
  <2> QED BY <1>1, <2>1, <2>2
<1> QED BY <1>2, <1>3, <1>4

(* An instance that runs is bound to the first port it was not refused, and *)
(* one that gave up was refused as many as it may try, for any number of    *)
(* ports, of attempts and of instances as long as a port is free.           *)
THEOREM PortFound == PortsLeft => (Spec => []FirstPortNotRefused)
<1> SUFFICES ASSUME PortsLeft PROVE Spec => []FirstPortNotRefused
  OBVIOUS
<1>1. Init => PortsInv /\ SearchInv
  BY PortsStart
<1>2. PortsInv /\ SearchInv /\ [Next]_vars => (PortsInv /\ SearchInv)'
  BY PortsKept, SearchKept
<1>3. PortsInv /\ SearchInv => FirstPortNotRefused
  BY SearchMeans
<1> QED BY <1>1, <1>2, <1>3, PTL DEF Spec

-----------------------------------------------------------------------------
(* The devices that an instance opens.                                      *)

OptionsInv ==
  /\ starts \in [Instance -> 0..MaxStarts] /\ prefix \in [Instance -> STRING \cup {NoPrefix}]
  /\ devices \in [Instance -> Seq(Device)]
  /\ silent \in [Instance -> SUBSET (Card \X {"INPUT", "OUTPUT"})]
  /\ \A i \in Instance : devices[i] = <<>> \/ \E o \in CommandLine[i] :
       devices[i] \in Seq(Existing(o.devices)) /\ silent[i] = AskedForNone(o.devices)

(* No instance has options before it is started.                            *)
LEMMA OptionsStart == Init => OptionsInv
BY HostAssumption DEF Init, OptionsInv

(* A step leaves an instance the devices that its command line gives it.    *)
LEMMA OptionsKept ==
  ASSUME OptionsInv, [Next]_vars
  PROVE  OptionsInv'
<1> USE DEF OptionsInv
<1>1. CASE UNCHANGED process
  BY <1>1 DEF process, options
<1>2. ASSUME NEW i \in Instance, Launch(i) PROVE OptionsInv'
  <2>1. starts[i] < MaxStarts /\ starts' = [starts EXCEPT ![i] = starts[i] + 1]
    BY <1>2 DEF Launch
  <2>2. starts' \in [Instance -> 0..MaxStarts]
    <3>1. starts[i] + 1 \in 0..MaxStarts
      BY <2>1, HostAssumption
    <3> QED BY <2>1, <3>1
  <2>3. PICK o \in CommandLine[i] :
          IF ParsingCrashes(o.devices) \/ DefaultsCrash(o.devices)
          THEN UNCHANGED options
          ELSE /\ prefix' = [prefix EXCEPT ![i] = o.prefix]
               /\ devices' = [devices EXCEPT ![i] = DevicesFor(o.devices)]
               /\ silent' = [silent EXCEPT ![i] = AskedForNone(o.devices)]
    BY <1>2 DEF Launch
  <2>4. CASE ParsingCrashes(o.devices) \/ DefaultsCrash(o.devices)
    BY <2>2, <2>3, <2>4 DEF options
  <2>5. CASE ~(ParsingCrashes(o.devices) \/ DefaultsCrash(o.devices))
    <3>1. DevicesFor(o.devices) \in Seq(Existing(o.devices))
      BY <2>5, Lines, Devices
    <3>2. Existing(o.devices) \subseteq Device
      BY DEF Existing
    <3>3. DevicesFor(o.devices) \in Seq(Device)
      BY <3>1, <3>2, SeqMonotonic
    <3>4. /\ prefix' \in [Instance -> STRING \cup {NoPrefix}] /\ devices' \in [Instance -> Seq(Device)]
          /\ silent' \in [Instance -> SUBSET (Card \X {"INPUT", "OUTPUT"})]
      <4>1. AskedForNone(o.devices) \subseteq Card \X {"INPUT", "OUTPUT"}
        BY DEF AskedForNone
      <4> QED BY <2>3, <2>5, <3>3, <4>1, Lines
    <3>5. ASSUME NEW j \in Instance
          PROVE  devices'[j] = <<>> \/ \E l \in CommandLine[j] :
                   devices'[j] \in Seq(Existing(l.devices)) /\ silent'[j] = AskedForNone(l.devices)
      <4>1. CASE j = i
        BY <2>3, <2>5, <3>1, <4>1
      <4>2. CASE j # i
        <5>1. devices'[j] = devices[j] /\ silent'[j] = silent[j]
          BY <2>3, <2>5, <4>2
        <5> QED BY <5>1
      <4> QED BY <4>1, <4>2
    <3> QED BY <2>2, <3>4, <3>5
  <2> QED BY <2>4, <2>5
<1>3. ASSUME NEW i \in Instance, Gone(i) PROVE OptionsInv'
  <2>1. /\ devices' = [devices EXCEPT ![i] = <<>>] /\ prefix' = [prefix EXCEPT ![i] = NoPrefix]
        /\ silent' = [silent EXCEPT ![i] = {}] /\ UNCHANGED starts
    BY <1>3 DEF Gone
  <2>3. /\ prefix' \in [Instance -> STRING \cup {NoPrefix}] /\ devices' \in [Instance -> Seq(Device)]
        /\ silent' \in [Instance -> SUBSET (Card \X {"INPUT", "OUTPUT"})]
    BY <2>1
  <2>4. \A j \in Instance : devices'[j] = <<>> \/ (devices'[j] = devices[j] /\ silent'[j] = silent[j])
    BY <2>1
  <2> QED BY <2>1, <2>3, <2>4
<1>4. CASE OthersChange
  BY <1>1, <1>4 DEF OthersChange
<1>5. ASSUME NEW i \in Instance,
             BindPort(i) \/ NextPort(i) \/ GiveUp(i) \/ EnterLoop(i) \/ Stop(i)
      PROVE  OptionsInv'
  BY <1>5 DEF BindPort, NextPort, GiveUp, EnterLoop, Stop, process, options
<1>6. ASSUME NEW i \in Instance, StartThread(i) \/ \E k \in DOMAIN thread[i] : DeviceDoes(i, k)
      PROVE  OptionsInv'
  BY <1>1, <1>6, ThreadSteps
<1>7. CASE UNCHANGED vars
  BY <1>1, <1>7 DEF vars
<1> QED BY <1>2, <1>3, <1>4, <1>5, <1>6, <1>7 DEF Next, Finish, Kill

(* No device is opened with more channels than its card has, nor with none  *)
(* unless none was asked for, for any cards and any command lines.          *)
THEOREM OnlyChannelsThatExist == Spec => []ChannelsExist
<1>1. Init => OptionsInv
  BY OptionsStart
<1>2. OptionsInv /\ [Next]_vars => OptionsInv'
  BY OptionsKept
<1>3. OptionsInv => ChannelsExist
  <2> SUFFICES ASSUME OptionsInv, NEW i \in Instance, NEW k \in DOMAIN devices[i]
               PROVE  LET v == devices[i][k] IN
                      /\ v.channels <= ChannelsOf(v.card, v.direction)
                      /\ v.channels > 0 \/ <<v.card, v.direction>> \in silent[i]
    BY DEF ChannelsExist
  <2>1. devices[i] # <<>>
    OBVIOUS
  <2>2. PICK o \in CommandLine[i] :
          devices[i] \in Seq(Existing(o.devices)) /\ silent[i] = AskedForNone(o.devices)
    BY <2>1 DEF OptionsInv
  <2>3. devices[i][k] \in Existing(o.devices)
    <3>1. k \in 1..Len(devices[i])
      BY <2>2, LenProperties
    <3> QED BY <2>2, <3>1, ElementOfSeq
  <2> QED BY <2>2, <2>3 DEF Existing
<1> QED BY <1>1, <1>2, <1>3, PTL DEF Spec

-----------------------------------------------------------------------------
(* The devices and their threads.                                           *)

(* One element of one instance's sequence is changed, or one is added.      *)
LEMMA Changed ==
  ASSUME NEW S, NEW f \in [Instance -> Seq(S)], NEW i \in Instance, NEW k \in 1..Len(f[i]), NEW x \in S,
         NEW g, g = [f EXCEPT ![i][k] = x]
  PROVE  /\ g \in [Instance -> Seq(S)] /\ Len(g[i]) = Len(f[i])
         /\ \A j \in Instance : j # i => g[j] = f[j]
         /\ \A m \in 1..Len(f[i]) : g[i][m] = IF m = k THEN x ELSE f[i][m]
<1>1. g = [f EXCEPT ![i] = [f[i] EXCEPT ![k] = x]]
  OBVIOUS
<1>2. f[i] \in Seq(S)
  OBVIOUS
<1>3. /\ [f[i] EXCEPT ![k] = x] \in Seq(S) /\ Len([f[i] EXCEPT ![k] = x]) = Len(f[i])
      /\ \A m \in 1..Len(f[i]) : [f[i] EXCEPT ![k] = x][m] = IF m = k THEN x ELSE f[i][m]
  BY <1>2, ExceptSeq
<1> DEFINE new == [f[i] EXCEPT ![k] = x]
<1> HIDE DEF new
<1>4. g = [f EXCEPT ![i] = new] /\ new \in Seq(S)
  BY <1>1, <1>3 DEF new
<1>5. g \in [Instance -> Seq(S)] /\ g[i] = new /\ \A j \in Instance : j # i => g[j] = f[j]
  BY <1>4
<1> QED BY <1>3, <1>5 DEF new

(* The same for an element that is added at the end.                        *)
LEMMA Added ==
  ASSUME NEW S, NEW f \in [Instance -> Seq(S)], NEW i \in Instance, NEW x \in S,
         NEW g, g = [f EXCEPT ![i] = Append(f[i], x)]
  PROVE  /\ g \in [Instance -> Seq(S)] /\ Len(g[i]) = Len(f[i]) + 1
         /\ \A j \in Instance : j # i => g[j] = f[j]
         /\ \A m \in 1..(Len(f[i]) + 1) : g[i][m] = IF m <= Len(f[i]) THEN f[i][m] ELSE x
<1> DEFINE new == Append(f[i], x)
<1>1. f[i] \in Seq(S) /\ Len(f[i]) \in Nat
  OBVIOUS
<1>2. /\ new \in Seq(S) /\ Len(new) = Len(f[i]) + 1
      /\ \A m \in 1..Len(f[i]) : new[m] = f[i][m]
      /\ new[Len(f[i]) + 1] = x
  BY <1>1, AppendProperties
<1> HIDE DEF new
<1>3. g = [f EXCEPT ![i] = new]
  BY DEF new
<1>4. g \in [Instance -> Seq(S)] /\ g[i] = new /\ \A j \in Instance : j # i => g[j] = f[j]
  BY <1>2, <1>3
<1>5. \A m \in 1..(Len(f[i]) + 1) : new[m] = IF m <= Len(f[i]) THEN f[i][m] ELSE x
  BY <1>1, <1>2
<1> QED BY <1>2, <1>4, <1>5

ThreadStage == {"started", "connected", "looping", "ended"}
Idle == {"off", "binding", "gaveup"}

LinesInv ==
  /\ thread \in [Instance -> Seq(ThreadStage)]
  /\ pulls \in [Instance -> Seq(SUBSET Nat)] /\ pair \in [Instance -> Seq(Nat)]
  /\ \A i \in Instance :
       /\ Len(pulls[i]) = Len(thread[i]) /\ Len(pair[i]) = Len(thread[i])
       /\ Len(thread[i]) <= Len(devices[i])
       /\ stage[i] \in Idle => thread[i] = <<>>
       /\ \A k \in 1..Len(thread[i]) :
            pulls[i][k] \subseteq 1..Len(thread[i]) /\ pair[i][k] \in 0..Len(thread[i])

(* A line has its own ends, or none as long as the thread has not connected.*)
OwnInv ==
  \A i \in Instance : DistinctCards(i) =>
    \A k \in 1..Len(thread[i]) :
      IF thread[i][k] = "started" THEN pulls[i][k] = {} /\ pair[i][k] = 0
      ELSE pulls[i][k] = {k} /\ pair[i][k] = k

(* The places of a sequence.                                                *)
LEMMA Domains ==
  ASSUME NEW S, NEW s \in Seq(S)
  PROVE  DOMAIN s = 1..Len(s) /\ Len(s) \in Nat
BY LenProperties

(* The sockets that the callback of a device uses are those of a device     *)
(* that was bound no later, its own if it has a card of its own.            *)
LEMMA BinderOf ==
  ASSUME LinesInv, OptionsInv, NEW i \in Instance, NEW k \in 1..Len(thread[i])
  PROVE  Binder(i, k) \in 1..k /\ (DistinctCards(i) => Binder(i, k) = k)
<1> DEFINE N == {j \in 1..k : SameAddress(i, j, k)}
<1>1. k \in N /\ N \in SUBSET Nat
  BY DEF SameAddress
<1>2. PICK j \in N : \A m \in N : j <= m
  <2> HIDE DEF N
  <2> QED BY <1>1, Least
<1>3. \A m \in 1..(j - 1) : ~SameAddress(i, m, k)
  <2> SUFFICES ASSUME NEW m \in 1..(j - 1), SameAddress(i, m, k) PROVE FALSE
    OBVIOUS
  <2>1. m \in N /\ ~(j <= m)
    BY <1>2
  <2> QED BY <1>2, <2>1
<1>4. Binder(i, k) \in 1..k /\ SameAddress(i, Binder(i, k), k)
  BY <1>2, <1>3, Zenon DEF Binder
<1>5. ASSUME DistinctCards(i) PROVE Binder(i, k) = k
  <2>1. devices[i] \in Seq(Device) /\ Len(thread[i]) <= Len(devices[i]) /\ Len(thread[i]) \in Nat
    BY DEF OptionsInv, LinesInv
  <2>2. DOMAIN devices[i] = 1..Len(devices[i]) /\ Len(devices[i]) \in Nat
    BY <2>1, Domains
  <2>3. Binder(i, k) \in DOMAIN devices[i] /\ k \in DOMAIN devices[i]
    BY <1>4, <2>1, <2>2
  <2> QED BY <1>4, <1>5, <2>3 DEF DistinctCards, SameAddress
<1> QED BY <1>4, <1>5

(* No device has a thread before its instance is started.                   *)
LEMMA LinesStart == Init => LinesInv /\ OwnInv
<1> SUFFICES ASSUME Init PROVE LinesInv /\ OwnInv
  OBVIOUS
<1>1. \A i \in Instance : thread[i] = <<>> /\ pulls[i] = <<>> /\ pair[i] = <<>> /\ devices[i] = <<>>
  BY DEF Init
<1>2. \A S : <<>> \in Seq(S) /\ Len(<<>>) = 0
  BY EmptySeq
<1>3. /\ thread \in [Instance -> Seq(ThreadStage)] /\ pulls \in [Instance -> Seq(SUBSET Nat)]
      /\ pair \in [Instance -> Seq(Nat)]
  BY <1>2 DEF Init
<1> QED BY <1>1, <1>2, <1>3 DEF LinesInv, OwnInv

(* The steps that touch neither the threads nor their lines.                *)
LEMMA LinesLeft ==
  ASSUME LinesInv, OwnInv, UNCHANGED <<thread, lines>>,
         \A i \in Instance :
           \/ devices'[i] = devices[i] /\ (stage'[i] \in Idle => stage[i] \in Idle)
           \/ thread[i] = <<>> /\ Len(devices'[i]) >= 0
  PROVE  LinesInv' /\ OwnInv'
<1>1. thread' = thread /\ pulls' = pulls /\ pair' = pair
  BY DEF lines
<1>2. Len(<<>>) = 0
  OBVIOUS
<1>3. ASSUME NEW i \in Instance
      PROVE  Len(thread[i]) <= Len(devices'[i]) /\ (stage'[i] \in Idle => thread[i] = <<>>)
  BY <1>2 DEF LinesInv
<1>4. ASSUME NEW i \in Instance, DistinctCards(i)', NEW k \in 1..Len(thread[i])
      PROVE  DistinctCards(i)
  <2>1. thread[i] # <<>>
    BY <1>2, <1>4
  <2>2. devices'[i] = devices[i]
    BY <2>1
  <2> QED BY <1>4, <2>2 DEF DistinctCards
<1>5. LinesInv'
  BY <1>1, <1>3 DEF LinesInv
<1>6. OwnInv'
  BY <1>1, <1>4 DEF OwnInv
<1> QED BY <1>5, <1>6

(* A new thread has not connected to its lines.                             *)
LEMMA StartLines ==
  ASSUME LinesInv, OwnInv, OptionsInv, PortsInv, NEW i \in Instance, StartThread(i)
  PROVE  LinesInv' /\ OwnInv'
<1> DEFINE n == Len(thread[i])
<1>1. /\ stage[i] = "building" /\ n < Len(devices[i])
      /\ thread' = [thread EXCEPT ![i] = Append(thread[i], "started")]
      /\ pulls' = [pulls EXCEPT ![i] = Append(pulls[i], {})]
      /\ pair' = [pair EXCEPT ![i] = Append(pair[i], 0)]
      /\ UNCHANGED <<stage, devices>>
  BY DEF StartThread, process, options
<1>2. n \in Nat /\ Len(pulls[i]) = n /\ Len(pair[i]) = n /\ Len(devices[i]) \in Nat
  BY DEF LinesInv, OptionsInv
<1>3. /\ thread' \in [Instance -> Seq(ThreadStage)] /\ Len(thread'[i]) = n + 1
      /\ \A j \in Instance : j # i => thread'[j] = thread[j]
      /\ \A m \in 1..(n + 1) : thread'[i][m] = IF m <= n THEN thread[i][m] ELSE "started"
  BY <1>1, Added DEF LinesInv, ThreadStage
<1>4. /\ pulls' \in [Instance -> Seq(SUBSET Nat)] /\ Len(pulls'[i]) = n + 1
      /\ \A j \in Instance : j # i => pulls'[j] = pulls[j]
      /\ \A m \in 1..(n + 1) : pulls'[i][m] = IF m <= n THEN pulls[i][m] ELSE {}
  <2>1. pulls \in [Instance -> Seq(SUBSET Nat)] /\ {} \in SUBSET Nat
    BY DEF LinesInv
  <2> QED BY <1>1, <1>2, <2>1, Added
<1>5. /\ pair' \in [Instance -> Seq(Nat)] /\ Len(pair'[i]) = n + 1
      /\ \A j \in Instance : j # i => pair'[j] = pair[j]
      /\ \A m \in 1..(n + 1) : pair'[i][m] = IF m <= n THEN pair[i][m] ELSE 0
  <2>1. pair \in [Instance -> Seq(Nat)] /\ 0 \in Nat
    BY DEF LinesInv
  <2> QED BY <1>1, <1>2, <2>1, Added
<1>6. LinesInv'
  <2>1. ASSUME NEW j \in Instance
        PROVE  /\ Len(pulls'[j]) = Len(thread'[j]) /\ Len(pair'[j]) = Len(thread'[j])
               /\ Len(thread'[j]) <= Len(devices'[j])
               /\ stage'[j] \in Idle => thread'[j] = <<>>
               /\ \A k \in 1..Len(thread'[j]) :
                    pulls'[j][k] \subseteq 1..Len(thread'[j]) /\ pair'[j][k] \in 0..Len(thread'[j])
    <3>1. CASE j # i
      BY <1>1, <1>3, <1>4, <1>5, <3>1 DEF LinesInv
    <3>2. CASE j = i
      <4>1. n + 1 <= Len(devices[i]) /\ stage[i] \notin Idle
        BY <1>1, <1>2 DEF Idle
      <4>2. ASSUME NEW k \in 1..(n + 1)
            PROVE  pulls'[i][k] \subseteq 1..(n + 1) /\ pair'[i][k] \in 0..(n + 1)
        <5>1. CASE k <= n
          <6>1. k \in 1..n
            BY <1>2, <5>1
          <6>2. pulls[i][k] \subseteq 1..n /\ pair[i][k] \in 0..n
            BY <6>1 DEF LinesInv
          <6> QED BY <1>2, <1>4, <1>5, <5>1, <6>2
        <5>2. CASE ~(k <= n)
          BY <1>2, <1>4, <1>5, <5>2
        <5> QED BY <5>1, <5>2
      <4> QED BY <1>1, <1>3, <1>4, <1>5, <3>2, <4>1, <4>2
    <3> QED BY <3>1, <3>2
  <2> QED BY <1>3, <1>4, <1>5, <2>1 DEF LinesInv
<1>7. OwnInv'
  <2> SUFFICES ASSUME NEW j \in Instance, DistinctCards(j)', NEW k \in 1..Len(thread'[j])
               PROVE  IF thread'[j][k] = "started" THEN pulls'[j][k] = {} /\ pair'[j][k] = 0
                      ELSE pulls'[j][k] = {k} /\ pair'[j][k] = k
    BY DEF OwnInv
  <2>1. DistinctCards(j)
    BY <1>1 DEF DistinctCards
  <2>2. CASE j # i
    <3>1. thread'[j] = thread[j] /\ pulls'[j] = pulls[j] /\ pair'[j] = pair[j]
      BY <1>3, <1>4, <1>5, <2>2
    <3> QED BY <2>1, <3>1 DEF OwnInv
  <2>3. CASE j = i /\ k <= n
    <3>1. k \in 1..n /\ k \in 1..(n + 1)
      BY <1>2, <1>3, <2>3
    <3>2. thread'[j][k] = thread[j][k] /\ pulls'[j][k] = pulls[j][k] /\ pair'[j][k] = pair[j][k]
      BY <1>3, <1>4, <1>5, <2>3, <3>1
    <3> QED BY <2>1, <2>3, <3>1, <3>2 DEF OwnInv
  <2>4. CASE j = i /\ ~(k <= n)
    BY <1>3, <1>4, <1>5, <2>4
  <2> QED BY <2>2, <2>3, <2>4
<1> QED BY <1>6, <1>7

(* A thread connects to its lines: to its own ones if its card is its own.  *)
LEMMA SocksLines ==
  ASSUME LinesInv, OwnInv, OptionsInv, NEW i \in Instance, NEW k \in DOMAIN thread[i], InitSocks(i, k)
  PROVE  LinesInv' /\ OwnInv'
<1> DEFINE n == Len(thread[i])
           b == Binder(i, k)
<1>1. thread[i] \in Seq(ThreadStage) /\ k \in 1..n /\ n \in Nat
  BY Domains DEF LinesInv
<1>2. b \in 1..k /\ b \in 1..n /\ (DistinctCards(i) => b = k)
  BY <1>1, BinderOf
<1> HIDE DEF b
<1>3. /\ thread[i][k] = "started" /\ thread' = [thread EXCEPT ![i][k] = "connected"]
      /\ pulls' = [pulls EXCEPT ![i][b] = pulls[i][b] \cup {k}]
      /\ pair' = [pair EXCEPT ![i][b] = IF pair[i][b] = 0 THEN k ELSE pair[i][b]]
      /\ UNCHANGED <<stage, devices>>
  BY DEF InitSocks, process, options, b
<1>4. /\ Len(pulls[i]) = n /\ Len(pair[i]) = n
      /\ pulls[i][b] \subseteq 1..n /\ pair[i][b] \in 0..n
  BY <1>2 DEF LinesInv
<1>5. /\ thread' \in [Instance -> Seq(ThreadStage)] /\ Len(thread'[i]) = n
      /\ \A j \in Instance : j # i => thread'[j] = thread[j]
      /\ \A m \in 1..n : thread'[i][m] = IF m = k THEN "connected" ELSE thread[i][m]
  BY <1>1, <1>3, Changed DEF LinesInv, ThreadStage
<1>6. /\ pulls' \in [Instance -> Seq(SUBSET Nat)] /\ Len(pulls'[i]) = n
      /\ \A j \in Instance : j # i => pulls'[j] = pulls[j]
      /\ \A m \in 1..n : pulls'[i][m] = IF m = b THEN pulls[i][b] \cup {k} ELSE pulls[i][m]
  <2> DEFINE x == pulls[i][b] \cup {k}
  <2>1. pulls \in [Instance -> Seq(SUBSET Nat)] /\ x \in SUBSET Nat
    BY <1>1, <1>4 DEF LinesInv
  <2>2. pulls' = [pulls EXCEPT ![i][b] = x] /\ b \in 1..Len(pulls[i])
    BY <1>2, <1>3, <1>4
  <2> HIDE DEF x
  <2>3. /\ pulls' \in [Instance -> Seq(SUBSET Nat)] /\ Len(pulls'[i]) = Len(pulls[i])
        /\ \A j \in Instance : j # i => pulls'[j] = pulls[j]
        /\ \A m \in 1..Len(pulls[i]) : pulls'[i][m] = IF m = b THEN x ELSE pulls[i][m]
    BY <2>1, <2>2, Changed
  <2> QED BY <1>4, <2>3 DEF x
<1>7. /\ pair' \in [Instance -> Seq(Nat)] /\ Len(pair'[i]) = n
      /\ \A j \in Instance : j # i => pair'[j] = pair[j]
      /\ \A m \in 1..n : pair'[i][m] = IF m = b /\ pair[i][b] = 0 THEN k ELSE pair[i][m]
  <2> DEFINE x == IF pair[i][b] = 0 THEN k ELSE pair[i][b]
  <2>1. pair \in [Instance -> Seq(Nat)] /\ x \in Nat
    BY <1>1, <1>4 DEF LinesInv
  <2>2. pair' = [pair EXCEPT ![i][b] = x] /\ b \in 1..Len(pair[i])
    BY <1>2, <1>3, <1>4
  <2> HIDE DEF x
  <2>3. /\ pair' \in [Instance -> Seq(Nat)] /\ Len(pair'[i]) = Len(pair[i])
        /\ \A j \in Instance : j # i => pair'[j] = pair[j]
        /\ \A m \in 1..Len(pair[i]) : pair'[i][m] = IF m = b THEN x ELSE pair[i][m]
    BY <2>1, <2>2, Changed
  <2> QED BY <1>4, <2>3 DEF x
<1>8. LinesInv'
  <2>1. ASSUME NEW j \in Instance
        PROVE  /\ Len(pulls'[j]) = Len(thread'[j]) /\ Len(pair'[j]) = Len(thread'[j])
               /\ Len(thread'[j]) <= Len(devices'[j])
               /\ stage'[j] \in Idle => thread'[j] = <<>>
               /\ \A m \in 1..Len(thread'[j]) :
                    pulls'[j][m] \subseteq 1..Len(thread'[j]) /\ pair'[j][m] \in 0..Len(thread'[j])
    <3>1. CASE j # i
      BY <1>3, <1>5, <1>6, <1>7, <3>1 DEF LinesInv
    <3>2. CASE j = i
      <4>1. thread[i] # <<>> /\ Len(thread[i]) <= Len(devices[i]) /\ stage[i] \notin Idle
        <5>1. thread[i] # <<>>
          BY <1>1, EmptySeq
        <5> QED BY <5>1 DEF LinesInv
      <4>2. ASSUME NEW m \in 1..n PROVE pulls'[i][m] \subseteq 1..n /\ pair'[i][m] \in 0..n
        <5>1. pulls[i][m] \subseteq 1..n /\ pair[i][m] \in 0..n
          BY DEF LinesInv
        <5>2. k \in 1..n /\ k \in 0..n
          BY <1>1
        <5> QED BY <1>4, <1>6, <1>7, <5>1, <5>2
      <4> QED BY <1>3, <1>5, <1>6, <1>7, <3>2, <4>1, <4>2
    <3> QED BY <3>1, <3>2
  <2> QED BY <1>5, <1>6, <1>7, <2>1 DEF LinesInv
<1>9. OwnInv'
  <2> SUFFICES ASSUME NEW j \in Instance, DistinctCards(j)', NEW m \in 1..Len(thread'[j])
               PROVE  IF thread'[j][m] = "started" THEN pulls'[j][m] = {} /\ pair'[j][m] = 0
                      ELSE pulls'[j][m] = {m} /\ pair'[j][m] = m
    BY DEF OwnInv
  <2>1. DistinctCards(j)
    BY <1>3 DEF DistinctCards
  <2>2. CASE j # i
    <3>1. thread'[j] = thread[j] /\ pulls'[j] = pulls[j] /\ pair'[j] = pair[j]
      BY <1>5, <1>6, <1>7, <2>2
    <3> QED BY <2>1, <3>1 DEF OwnInv
  <2>3. CASE j = i
    <3>1. b = k /\ m \in 1..n
      BY <1>2, <1>5, <2>1, <2>3
    <3>2. IF thread[i][m] = "started" THEN pulls[i][m] = {} /\ pair[i][m] = 0
          ELSE pulls[i][m] = {m} /\ pair[i][m] = m
      BY <2>1, <2>3, <3>1 DEF OwnInv
    <3>3. CASE m = k
      BY <1>3, <1>5, <1>6, <1>7, <2>3, <3>1, <3>2, <3>3
    <3>4. CASE m # k
      BY <1>5, <1>6, <1>7, <2>3, <3>1, <3>2, <3>4
    <3> QED BY <3>3, <3>4
  <2> QED BY <2>2, <2>3
<1> QED BY <1>8, <1>9

(* A thread that goes on from one stage to another keeps its lines.         *)
LEMMA StageLines ==
  ASSUME LinesInv, OwnInv, NEW i \in Instance, NEW k \in DOMAIN thread[i], thread[i][k] # "started",
         NEW s \in ThreadStage \ {"started"}, thread' = [thread EXCEPT ![i][k] = s],
         UNCHANGED <<stage, devices, pulls, pair>>
  PROVE  LinesInv' /\ OwnInv'
<1> DEFINE n == Len(thread[i])
<1>1. thread[i] \in Seq(ThreadStage) /\ k \in 1..n /\ n \in Nat
  BY Domains DEF LinesInv
<1>2. /\ thread' \in [Instance -> Seq(ThreadStage)] /\ Len(thread'[i]) = n
      /\ \A j \in Instance : j # i => thread'[j] = thread[j]
      /\ \A m \in 1..n : thread'[i][m] = IF m = k THEN s ELSE thread[i][m]
  BY <1>1, Changed DEF LinesInv
<1>3. \A j \in Instance : Len(thread'[j]) = Len(thread[j])
  BY <1>2
<1>4. thread[i] # <<>> /\ \A j \in Instance : thread[j] = <<>> => thread'[j] = <<>>
  <2>1. thread[i] # <<>>
    BY <1>1, EmptySeq
  <2> QED BY <1>2, <2>1
<1>5. LinesInv'
  BY <1>2, <1>3, <1>4 DEF LinesInv
<1>6. \A j \in Instance : \A m \in 1..Len(thread[j]) :
        thread'[j][m] = "started" <=> thread[j][m] = "started"
  BY <1>2
<1>7. OwnInv'
  BY <1>3, <1>6 DEF OwnInv, DistinctCards
<1> QED BY <1>5, <1>7

(* The lines of an instance go with it.                                     *)
LEMMA GoneLines ==
  ASSUME LinesInv, OwnInv, OptionsInv, PortsInv, NEW i \in Instance, Gone(i)
  PROVE  LinesInv' /\ OwnInv'
<1>1. /\ stage' = [stage EXCEPT ![i] = "off"] /\ devices' = [devices EXCEPT ![i] = <<>>]
      /\ thread' = [thread EXCEPT ![i] = <<>>] /\ pulls' = [pulls EXCEPT ![i] = <<>>]
      /\ pair' = [pair EXCEPT ![i] = <<>>]
  BY DEF Gone
<1>2. \A S : <<>> \in Seq(S) /\ Len(<<>>) = 0
  BY EmptySeq
<1>3. /\ thread' \in [Instance -> Seq(ThreadStage)] /\ pulls' \in [Instance -> Seq(SUBSET Nat)]
      /\ pair' \in [Instance -> Seq(Nat)]
  BY <1>1, <1>2 DEF LinesInv
<1>4. ASSUME NEW j \in Instance, j # i
      PROVE  /\ thread'[j] = thread[j] /\ pulls'[j] = pulls[j] /\ pair'[j] = pair[j]
             /\ devices'[j] = devices[j] /\ stage'[j] = stage[j]
  BY <1>1, <1>4 DEF LinesInv, PortsInv, OptionsInv
<1>5. thread'[i] = <<>> /\ pulls'[i] = <<>> /\ pair'[i] = <<>> /\ devices'[i] = <<>>
  BY <1>1 DEF LinesInv, OptionsInv
<1>6. LinesInv'
  <2>1. ASSUME NEW j \in Instance
        PROVE  /\ Len(pulls'[j]) = Len(thread'[j]) /\ Len(pair'[j]) = Len(thread'[j])
               /\ Len(thread'[j]) <= Len(devices'[j])
               /\ stage'[j] \in Idle => thread'[j] = <<>>
               /\ \A m \in 1..Len(thread'[j]) :
                    pulls'[j][m] \subseteq 1..Len(thread'[j]) /\ pair'[j][m] \in 0..Len(thread'[j])
    <3>1. CASE j # i
      BY <1>4, <3>1 DEF LinesInv
    <3>2. CASE j = i
      BY <1>2, <1>5, <3>2
    <3> QED BY <3>1, <3>2
  <2> QED BY <1>3, <2>1 DEF LinesInv
<1>7. OwnInv'
  <2> SUFFICES ASSUME NEW j \in Instance, DistinctCards(j)', NEW m \in 1..Len(thread'[j])
               PROVE  IF thread'[j][m] = "started" THEN pulls'[j][m] = {} /\ pair'[j][m] = 0
                      ELSE pulls'[j][m] = {m} /\ pair'[j][m] = m
    BY DEF OwnInv
  <2>1. j # i
    BY <1>2, <1>5
  <2>2. DistinctCards(j)
    BY <1>4, <2>1 DEF DistinctCards
  <2> QED BY <1>4, <2>1, <2>2 DEF OwnInv
<1> QED BY <1>6, <1>7

(* Every step keeps the lines as they should be.                            *)
LEMMA LinesKept ==
  ASSUME LinesInv, OwnInv, OptionsInv, PortsInv, [Next]_vars
  PROVE  LinesInv' /\ OwnInv'
<1>1. CASE OthersChange \/ UNCHANGED vars
  <2>1. UNCHANGED <<thread, lines, stage, devices>>
    BY <1>1 DEF OthersChange, vars, process, options
  <2> QED BY <2>1, LinesLeft
<1>2. ASSUME NEW i \in Instance, Launch(i) PROVE LinesInv' /\ OwnInv'
  <2>1. /\ UNCHANGED <<thread, lines>>
        /\ \A j \in Instance : j # i => devices'[j] = devices[j] /\ stage'[j] = stage[j]
    BY <1>2 DEF Launch, options, OptionsInv, PortsInv
  <2>2. thread[i] = <<>>
    BY <1>2 DEF Launch, LinesInv, Idle
  <2>3. Len(devices'[i]) >= 0
    <3>1. OptionsInv'
      BY OptionsKept
    <3>2. devices'[i] \in Seq(Device)
      BY <3>1 DEF OptionsInv
    <3>3. Len(devices'[i]) \in Nat
      BY <3>2, LenProperties
    <3> QED BY <3>3
  <2> QED BY <2>1, <2>2, <2>3, LinesLeft
<1>3. ASSUME NEW i \in Instance, BindPort(i) \/ GiveUp(i) \/ EnterLoop(i) \/ Stop(i)
      PROVE  LinesInv' /\ OwnInv'
  <2>1. /\ UNCHANGED <<thread, lines, devices>>
        /\ \A j \in Instance : j # i => stage'[j] = stage[j]
        /\ stage'[i] \in Idle => stage[i] \in Idle
    BY <1>3 DEF BindPort, GiveUp, EnterLoop, Stop, options, PortsInv, Idle
  <2> QED BY <2>1, LinesLeft
<1>4. ASSUME NEW i \in Instance, NextPort(i) PROVE LinesInv' /\ OwnInv'
  <2>1. UNCHANGED <<thread, lines, stage, devices>>
    BY <1>4 DEF NextPort, process, options
  <2> QED BY <2>1, LinesLeft
<1>5. ASSUME NEW i \in Instance, StartThread(i) PROVE LinesInv' /\ OwnInv'
  BY <1>5, StartLines
<1>6. ASSUME NEW i \in Instance, Finish(i) \/ Kill(i) PROVE LinesInv' /\ OwnInv'
  BY <1>6, GoneLines DEF Finish, Kill
<1>7. ASSUME NEW i \in Instance, NEW k \in DOMAIN thread[i], DeviceDoes(i, k)
      PROVE  LinesInv' /\ OwnInv'
  <2>1. CASE InitSocks(i, k)
    BY <2>1, SocksLines
  <2>2. CASE OpenLog(i, k)
    <3>1. /\ thread[i][k] # "started" /\ thread' = [thread EXCEPT ![i][k] = "looping"]
          /\ UNCHANGED <<stage, devices, pulls, pair>>
      BY <2>2 DEF OpenLog, process, options, lines
    <3> QED BY <3>1, StageLines DEF ThreadStage
  <2>3. CASE EndThread(i, k)
    <3>1. /\ thread[i][k] # "started" /\ thread' = [thread EXCEPT ![i][k] = "ended"]
          /\ UNCHANGED <<stage, devices, pulls, pair>>
      BY <2>3 DEF EndThread, process, options, lines
    <3> QED BY <3>1, StageLines DEF ThreadStage
  <2>4. CASE WriteData(i, k) \/ WriteFails(i, k)
    <3>1. UNCHANGED <<thread, lines, stage, devices>>
      BY <2>4 DEF WriteData, WriteFails, process, options
    <3> QED BY <3>1, LinesLeft
  <2> QED BY <1>7, <2>1, <2>2, <2>3, <2>4 DEF DeviceDoes
<1> QED BY <1>1, <1>2, <1>3, <1>4, <1>5, <1>6, <1>7 DEF Next

(* The callback of every device on a card of its own has its own thread at  *)
(* the other end once all have connected, at any interleaving of the        *)
(* threads of the devices and of the instances.                             *)
THEOREM LinesMeetApart == Spec => []LinesMeetOnDistinctCards
<1>1. Init => PortsInv /\ OptionsInv /\ LinesInv /\ OwnInv
  BY PortsStart, OptionsStart, LinesStart
<1>2. PortsInv /\ OptionsInv /\ LinesInv /\ OwnInv /\ [Next]_vars
      => (PortsInv /\ OptionsInv /\ LinesInv /\ OwnInv)'
  BY PortsKept, OptionsKept, LinesKept
<1>3. LinesInv /\ OwnInv => LinesMeetOnDistinctCards
  <2> SUFFICES ASSUME LinesInv, OwnInv, NEW i \in Instance, Connected(i), DistinctCards(i),
                      NEW k \in DOMAIN thread[i]
               PROVE  pulls[i][k] = {k} /\ pair[i][k] = k
    BY DEF LinesMeetOnDistinctCards, OwnLines
  <2>1. k \in 1..Len(thread[i])
    BY Domains DEF LinesInv
  <2> QED BY <2>1 DEF OwnInv, Connected
<1> QED BY <1>1, <1>2, <1>3, PTL DEF Spec

-----------------------------------------------------------------------------
(* The log files.                                                           *)

Paths == (STRING \cup {NoPrefix}) \X Card \X {"INPUT", "OUTPUT"}
OpenState == [path : Paths, at : Nat, total_samples : Nat]
File == [size : Nat, riff : 0..(SizeMod - 1), data : 0..(SizeMod - 1), spoilt : BOOLEAN]

(* A thread has a log open only in its loop, and the file is there.         *)
LogInv ==
  /\ log \in [Instance -> Seq(OpenState \cup {NoLog})]
  /\ files \in [DOMAIN files -> File] /\ <<>> \notin DOMAIN files
  /\ \A i \in Instance :
       /\ Len(log[i]) = Len(thread[i])
       /\ \A k \in 1..Len(log[i]) :
            log[i][k] # NoLog => thread[i][k] = "looping" /\ log[i][k].path \in DOMAIN files

(* What the log file of path p is as long as nothing has spoilt it: one     *)
(* thread at most writes to it, whose position is its end, and its header   *)
(* says how long it is once there is none.                                  *)
Writes(i, k, p) == k \in 1..Len(log[i]) /\ log[i][k].path = p
Unwritten(p) == \A i \in Instance, k \in Nat : ~Writes(i, k, p)
Told(p) ==
  /\ \A i, j \in Instance, k, m \in Nat : Writes(i, k, p) /\ Writes(j, m, p) => i = j /\ k = m
  /\ \A i \in Instance, k \in Nat : Writes(i, k, p) =>
       /\ log[i][k].at = files[p].size
       /\ files[p].size = HeaderSize + BytesOf(i, k, log[i][k].total_samples)
  /\ Unwritten(p) => /\ files[p].data = (files[p].size - HeaderSize) % SizeMod
                     /\ files[p].riff = (files[p].size - 8) % SizeMod
TellInv == \A p \in DOMAIN files : ~files[p].spoilt => Told(p)

(* A thread without a log writes to no file.                                *)
LEMMA NoPath ==
  /\ NoLog.path = <<>> /\ <<>> \notin Paths
  /\ \A w \in OpenState : w # NoLog /\ w.path # <<>>
<1>1. ASSUME NEW x \in Paths PROVE x # <<>>
  <2>1. ASSUME NEW A, NEW B, NEW C, NEW y \in A \X B \X C PROVE y # <<>>
    OBVIOUS
  <2> QED BY <2>1, Zenon DEF Paths
<1>2. NoLog.path = <<>>
  BY DEF NoLog
<1>3. ASSUME NEW w \in OpenState PROVE w.path \in Paths
  BY DEF OpenState
<1> QED BY <1>1, <1>2, <1>3

(* A file has writers unless nobody writes to it.                           *)
LEMMA WritersAre ==
  ASSUME LogInv, NEW p
  PROVE  Writers(p) = {} <=> Unwritten(p)
<1>1. ASSUME NEW i \in Instance
      PROVE  DOMAIN log[i] = 1..Len(log[i]) /\ Len(log[i]) \in Nat
  BY Domains DEF LogInv
<1>2. ASSUME Writers(p) = {} PROVE Unwritten(p)
  <2> SUFFICES ASSUME NEW i \in Instance, NEW k \in Nat, Writes(i, k, p) PROVE FALSE
    BY DEF Unwritten
  <2>1. k \in {m \in DOMAIN log[i] : log[i][m].path = p}
    BY <1>1 DEF Writes
  <2>2. <<i, k>> \in Writers(p)
    BY <2>1 DEF Writers
  <2> QED BY <1>2, <2>2
<1>3. ASSUME Unwritten(p) PROVE Writers(p) = {}
  <2> SUFFICES ASSUME NEW w \in Writers(p) PROVE FALSE
    OBVIOUS
  <2>1. PICK i \in Instance : w \in {<<i, k>> : k \in {m \in DOMAIN log[i] : log[i][m].path = p}}
    BY DEF Writers
  <2>2. PICK k \in DOMAIN log[i] : log[i][k].path = p
    BY <2>1
  <2>3. k \in Nat /\ Writes(i, k, p)
    BY <1>1, <2>2 DEF Writes
  <2> QED BY <1>3, <2>3 DEF Unwritten
<1> QED BY <1>2, <1>3

(* The channels of a device that has a thread.                              *)
LEMMA Bytes ==
  ASSUME OptionsInv, LinesInv, NEW i \in Instance, NEW k \in 1..Len(thread[i]), NEW n \in Nat
  PROVE  /\ BytesOf(i, k, n) \in Nat /\ BytesOf(i, k, 0) = 0
         /\ BytesOf(i, k, n + 1) = BytesOf(i, k, n) + BytesOf(i, k, 1)
<1> DEFINE c == devices[i][k].channels
<1>1. c \in Nat
  <2>1. devices[i] \in Seq(Device) /\ Len(thread[i]) <= Len(devices[i]) /\ Len(thread[i]) \in Nat
    BY DEF OptionsInv, LinesInv
  <2>2. k \in 1..Len(devices[i])
    <3>1. Len(devices[i]) \in Nat
      BY <2>1
    <3> QED BY <2>1, <3>1
  <2>3. devices[i][k] \in Device
    BY <2>1, <2>2, ElementOfSeq
  <2> QED BY <2>3, Numbers DEF Device
<1> HIDE DEF c
<1>2. \A m : BytesOf(i, k, m) = 4 * c * m
  BY DEF BytesOf, c
<1>3. 4 * c \in Nat
  BY <1>1
<1>4. \A e \in Nat : e * n \in Nat /\ e * 0 = 0 /\ e * (n + 1) = e * n + e * 1
  OBVIOUS
<1> QED BY <1>2, <1>3, <1>4

(* A file that a step leaves alone, as it does its writer, stays told.      *)
LEMMA ToldKept ==
  ASSUME NEW p, Told(p), files'[p] = files[p],
         \A i \in Instance, k \in Nat : Writes(i, k, p)' <=> Writes(i, k, p),
         \A i \in Instance, k \in Nat :
           Writes(i, k, p) => log'[i][k] = log[i][k] /\ devices'[i] = devices[i]
  PROVE  Told(p)'
<1>1. Unwritten(p)' => Unwritten(p)
  BY DEF Unwritten
<1>2. ASSUME NEW i \in Instance, NEW k \in Nat, Writes(i, k, p)
      PROVE  /\ log'[i][k].at = files'[p].size
             /\ files'[p].size = HeaderSize + BytesOf(i, k, log[i][k].total_samples)'
  BY <1>2 DEF Told, BytesOf
<1>3. \A i, j \in Instance, k, m \in Nat : Writes(i, k, p)' /\ Writes(j, m, p)' => i = j /\ k = m
  BY Zenon DEF Told
<1> QED BY <1>1, <1>2, <1>3 DEF Told

(* There are no files at first.                                             *)
LEMMA LogStart == Init => LogInv /\ TellInv
<1> SUFFICES ASSUME Init PROVE LogInv /\ TellInv
  OBVIOUS
<1>1. /\ log = [i \in Instance |-> <<>>] /\ thread = [i \in Instance |-> <<>>]
      /\ files = [p \in {} |-> 0]
  BY DEF Init
<1>2. DOMAIN files = {} /\ files \in [DOMAIN files -> File]
  BY <1>1
<1>3. \A S : <<>> \in Seq(S) /\ Len(<<>>) = 0
  BY EmptySeq
<1> QED BY <1>1, <1>2, <1>3 DEF LogInv, TellInv

(* The steps that touch no log, of a thread or on disk.                     *)
LEMMA LogLeft ==
  ASSUME LogInv, TellInv, UNCHANGED <<log, files>>,
         \A i \in Instance :
           /\ Len(thread'[i]) = Len(thread[i])
           /\ \A k \in 1..Len(thread[i]) : thread[i][k] = "looping" => thread'[i][k] = "looping"
           /\ devices'[i] = devices[i] \/ Len(thread[i]) = 0
  PROVE  LogInv' /\ TellInv'
<1>1. LogInv'
  BY DEF LogInv
<1>2. ASSUME NEW p \in DOMAIN files, Told(p) PROVE Told(p)'
  <2>1. \A i \in Instance, k \in Nat : Writes(i, k, p)' <=> Writes(i, k, p)
    BY DEF Writes
  <2>2. ASSUME NEW i \in Instance, NEW k \in Nat, Writes(i, k, p)
        PROVE  log'[i][k] = log[i][k] /\ devices'[i] = devices[i]
    <3>1. Len(thread[i]) # 0
      BY <2>2 DEF Writes, LogInv
    <3> QED BY <3>1
  <2> QED BY <1>2, <2>1, <2>2, ToldKept
<1>3. TellInv'
  BY <1>2 DEF TellInv
<1> QED BY <1>1, <1>3

(* A new thread has no log.                                                 *)
LEMMA StartLog ==
  ASSUME LogInv, TellInv, LinesInv, NEW i \in Instance, StartThread(i)
  PROVE  LogInv' /\ TellInv'
<1> DEFINE n == Len(thread[i])
<1>1. /\ thread' = [thread EXCEPT ![i] = Append(thread[i], "started")]
      /\ log' = [log EXCEPT ![i] = Append(log[i], NoLog)]
      /\ devices' = devices /\ files' = files
  BY DEF StartThread, process, options
<1>2. n \in Nat /\ Len(log[i]) = n
  BY DEF LinesInv, LogInv
<1>3. /\ thread' \in [Instance -> Seq(ThreadStage)] /\ Len(thread'[i]) = n + 1
      /\ \A j \in Instance : j # i => thread'[j] = thread[j]
      /\ \A m \in 1..(n + 1) : thread'[i][m] = IF m <= n THEN thread[i][m] ELSE "started"
  BY <1>1, Added DEF LinesInv, ThreadStage
<1>4. /\ log' \in [Instance -> Seq(OpenState \cup {NoLog})] /\ Len(log'[i]) = n + 1
      /\ \A j \in Instance : j # i => log'[j] = log[j]
      /\ \A m \in 1..(n + 1) : log'[i][m] = IF m <= n THEN log[i][m] ELSE NoLog
  <2> DEFINE S == OpenState \cup {NoLog}
  <2>1. log \in [Instance -> Seq(S)] /\ NoLog \in S
    BY DEF LogInv
  <2> HIDE DEF S
  <2>2. /\ log' \in [Instance -> Seq(S)] /\ Len(log'[i]) = Len(log[i]) + 1
        /\ \A j \in Instance : j # i => log'[j] = log[j]
        /\ \A m \in 1..(Len(log[i]) + 1) : log'[i][m] = IF m <= Len(log[i]) THEN log[i][m] ELSE NoLog
    BY <1>1, <2>1, Added
  <2> QED BY <1>2, <2>2 DEF S
<1>5. LogInv'
  <2>1. ASSUME NEW j \in Instance
        PROVE  /\ Len(log'[j]) = Len(thread'[j])
               /\ \A k \in 1..Len(log'[j]) :
                    log'[j][k] # NoLog => thread'[j][k] = "looping" /\ log'[j][k].path \in DOMAIN files
    <3>1. CASE j # i
      BY <1>3, <1>4, <3>1 DEF LogInv
    <3>2. CASE j = i
      <4>1. ASSUME NEW k \in 1..(n + 1), log'[i][k] # NoLog
            PROVE  thread'[i][k] = "looping" /\ log'[i][k].path \in DOMAIN files
        <5>1. k <= n /\ k \in 1..n /\ log'[i][k] = log[i][k] /\ thread'[i][k] = thread[i][k]
          BY <1>2, <1>3, <1>4, <4>1
        <5> QED BY <1>2, <4>1, <5>1 DEF LogInv
      <4> QED BY <1>3, <1>4, <3>2, <4>1
    <3> QED BY <3>1, <3>2
  <2> QED BY <1>1, <1>4, <2>1 DEF LogInv
<1>6. TellInv'
  <2>1. ASSUME NEW p \in DOMAIN files, Told(p) PROVE Told(p)'
    <3>1. p # <<>> /\ NoLog.path = <<>>
      BY NoPath DEF LogInv
    <3>2. ASSUME NEW j \in Instance, NEW m \in Nat
          PROVE  /\ Writes(j, m, p)' <=> Writes(j, m, p)
                 /\ Writes(j, m, p) => log'[j][m] = log[j][m]
      <4>1. CASE j # i
        BY <1>4, <4>1 DEF Writes
      <4>2. CASE j = i /\ m \in 1..n
        <5>1. m \in 1..(n + 1) /\ log'[i][m] = log[i][m]
          BY <1>2, <1>4, <4>2
        <5> QED BY <1>2, <1>4, <4>2, <5>1 DEF Writes
      <4>3. CASE j = i /\ m \notin 1..n
        <5>1. m \in 1..(n + 1) => log'[i][m] = NoLog
          BY <1>2, <1>4, <4>3
        <5> QED BY <1>2, <1>4, <3>1, <4>3, <5>1 DEF Writes
      <4> QED BY <4>1, <4>2, <4>3
    <3>3. \A j \in Instance, m \in Nat : Writes(j, m, p)' <=> Writes(j, m, p)
      BY <3>2
    <3>4. \A j \in Instance, m \in Nat :
            Writes(j, m, p) => log'[j][m] = log[j][m] /\ devices'[j] = devices[j]
      BY <1>1, <3>2
    <3> QED BY <1>1, <2>1, <3>3, <3>4, ToldKept
  <2> QED BY <1>1, <2>1 DEF TellInv
<1> QED BY <1>5, <1>6

(* The steps in which one thread changes what log it has open, and how far  *)
(* it has got with it.                                                      *)
Turns(i, k, x) ==
  /\ log' = [log EXCEPT ![i][k] = x]
  /\ \A j \in Instance :
       /\ Len(thread'[j]) = Len(thread[j]) /\ devices'[j] = devices[j]
       /\ \A m \in 1..Len(thread[j]) : thread'[j][m] = thread[j][m] \/ (j = i /\ m = k)

(* Such a step changes the log of that thread, and who writes to which      *)
(* file, there only.                                                        *)
LEMMA OneLog ==
  ASSUME LogInv, NEW i \in Instance, NEW k \in 1..Len(log[i]), NEW x \in OpenState \cup {NoLog},
         Turns(i, k, x)
  PROVE  /\ log' \in [Instance -> Seq(OpenState \cup {NoLog})]
         /\ \A j \in Instance : Len(log'[j]) = Len(log[j]) /\ Len(log[j]) \in Nat
         /\ \A j \in Instance : \A m \in 1..Len(log[j]) :
              log'[j][m] = IF j = i /\ m = k THEN x ELSE log[j][m]
         /\ \A p : \A j \in Instance, m \in Nat :
              Writes(j, m, p)' <=> IF j = i /\ m = k THEN x.path = p ELSE Writes(j, m, p)
<1> DEFINE S == OpenState \cup {NoLog}
<1>1. log \in [Instance -> Seq(S)] /\ x \in S /\ log' = [log EXCEPT ![i][k] = x]
  BY DEF LogInv, Turns
<1> HIDE DEF S
<1>2. /\ log' \in [Instance -> Seq(S)] /\ Len(log'[i]) = Len(log[i])
      /\ \A j \in Instance : j # i => log'[j] = log[j]
      /\ \A m \in 1..Len(log[i]) : log'[i][m] = IF m = k THEN x ELSE log[i][m]
  BY <1>1, Changed
<1>3. \A j \in Instance : Len(log'[j]) = Len(log[j]) /\ Len(log[j]) \in Nat
  BY <1>1, <1>2
<1>4. \A j \in Instance : \A m \in 1..Len(log[j]) :
        log'[j][m] = IF j = i /\ m = k THEN x ELSE log[j][m]
  BY <1>2
<1>5. ASSUME NEW j \in Instance, NEW m \in Nat, NEW p
      PROVE  Writes(j, m, p)' <=> IF j = i /\ m = k THEN x.path = p ELSE Writes(j, m, p)
  BY <1>3, <1>4 DEF Writes
<1> QED BY <1>2, <1>3, <1>4, <1>5 DEF S

(* Such a step keeps the types of the logs.                                 *)
LEMMA OneLogKept ==
  ASSUME LogInv, NEW i \in Instance, NEW k \in 1..Len(log[i]), NEW x \in OpenState \cup {NoLog},
         Turns(i, k, x), files' \in [DOMAIN files' -> File], <<>> \notin DOMAIN files',
         DOMAIN files \subseteq DOMAIN files',
         x # NoLog => thread'[i][k] = "looping" /\ x.path \in DOMAIN files'
  PROVE  LogInv'
<1>1. /\ log' \in [Instance -> Seq(OpenState \cup {NoLog})]
      /\ \A j \in Instance : Len(log'[j]) = Len(log[j])
      /\ \A j \in Instance : \A m \in 1..Len(log[j]) :
           log'[j][m] = IF j = i /\ m = k THEN x ELSE log[j][m]
  BY OneLog
<1>2. \A j \in Instance : Len(log'[j]) = Len(thread'[j])
  BY <1>1 DEF LogInv, Turns
<1>3. ASSUME NEW j \in Instance, NEW m \in 1..Len(log'[j]), log'[j][m] # NoLog
      PROVE  thread'[j][m] = "looping" /\ log'[j][m].path \in DOMAIN files'
  <2>1. m \in 1..Len(log[j]) /\ m \in 1..Len(thread[j])
    BY <1>1 DEF LogInv
  <2>2. CASE j = i /\ m = k
    BY <1>1, <1>3, <2>1, <2>2
  <2>3. CASE ~(j = i /\ m = k)
    <3>1. log'[j][m] = log[j][m] /\ thread'[j][m] = thread[j][m]
      BY <1>1, <2>1, <2>3 DEF Turns
    <3> QED BY <1>3, <2>1, <3>1 DEF LogInv
  <2> QED BY <2>2, <2>3
<1> QED BY <1>1, <1>2, <1>3 DEF LogInv

(* The files that such a step is not about.                                 *)
LEMMA OtherFiles ==
  ASSUME LogInv, NEW i \in Instance, NEW k \in 1..Len(log[i]), NEW x \in OpenState \cup {NoLog},
         Turns(i, k, x), NEW p, x.path # p, log[i][k].path # p, files'[p] = files[p], Told(p)
  PROVE  Told(p)'
<1>1. /\ \A j \in Instance : \A m \in 1..Len(log[j]) :
           log'[j][m] = IF j = i /\ m = k THEN x ELSE log[j][m]
      /\ \A j \in Instance, m \in Nat :
           Writes(j, m, p)' <=> IF j = i /\ m = k THEN x.path = p ELSE Writes(j, m, p)
  BY OneLog
<1>2. ~Writes(i, k, p)
  BY DEF Writes
<1>3. \A j \in Instance, m \in Nat : Writes(j, m, p)' <=> Writes(j, m, p)
  BY <1>1, <1>2
<1>4. \A j \in Instance, m \in Nat :
        Writes(j, m, p) => log'[j][m] = log[j][m] /\ devices'[j] = devices[j]
  BY <1>1, <1>2 DEF Writes, Turns
<1> QED BY <1>3, <1>4, ToldKept

(* What stage a thread is at, of those that change theirs.                  *)
LEMMA OneThread ==
  ASSUME LinesInv, LogInv, NEW i \in Instance, NEW k \in DOMAIN thread[i], NEW s \in ThreadStage,
         thread' = [thread EXCEPT ![i][k] = s]
  PROVE  /\ k \in 1..Len(thread[i]) /\ k \in 1..Len(log[i]) /\ thread'[i][k] = s
         /\ \A j \in Instance :
              /\ Len(thread'[j]) = Len(thread[j])
              /\ \A m \in 1..Len(thread[j]) : thread'[j][m] = thread[j][m] \/ (j = i /\ m = k)
<1>1. thread[i] \in Seq(ThreadStage) /\ k \in 1..Len(thread[i]) /\ Len(log[i]) = Len(thread[i])
  BY Domains DEF LinesInv, LogInv
<1>2. /\ thread' \in [Instance -> Seq(ThreadStage)] /\ Len(thread'[i]) = Len(thread[i])
      /\ \A j \in Instance : j # i => thread'[j] = thread[j]
      /\ \A m \in 1..Len(thread[i]) : thread'[i][m] = IF m = k THEN s ELSE thread[i][m]
  BY <1>1, Changed DEF LinesInv
<1> QED BY <1>1, <1>2

(* A thread that connects has no log yet.                                   *)
LEMMA SocksLog ==
  ASSUME LinesInv, LogInv, TellInv, NEW i \in Instance, NEW k \in DOMAIN thread[i], InitSocks(i, k)
  PROVE  LogInv' /\ TellInv'
<1>1. /\ thread[i][k] = "started" /\ thread' = [thread EXCEPT ![i][k] = "connected"]
      /\ UNCHANGED <<log, files, devices>>
  BY DEF InitSocks, process, options
<1>2. /\ \A j \in Instance :
           /\ Len(thread'[j]) = Len(thread[j])
           /\ \A m \in 1..Len(thread[j]) : thread'[j][m] = thread[j][m] \/ (j = i /\ m = k)
  BY <1>1, OneThread DEF ThreadStage
<1>3. \A j \in Instance : \A m \in 1..Len(thread[j]) :
        thread[j][m] = "looping" => thread'[j][m] = "looping"
  BY <1>1, <1>2
<1> QED BY <1>1, <1>2, <1>3, LogLeft

(* The name of a log file is made of the prefix, the card and the           *)
(* direction.                                                               *)
LEMMA OpenStates ==
  ASSUME OptionsInv, LinesInv, NEW i \in Instance, NEW k \in 1..Len(thread[i])
  PROVE  Path(i, k) \in Paths
<1>1. devices[i] \in Seq(Device) /\ Len(thread[i]) <= Len(devices[i]) /\ Len(thread[i]) \in Nat
  BY DEF OptionsInv, LinesInv
<1>2. k \in 1..Len(devices[i])
  <2>1. Len(devices[i]) \in Nat
    BY <1>1
  <2> QED BY <1>1, <2>1
<1>3. devices[i][k] \in Device
  BY <1>1, <1>2, ElementOfSeq
<1>4. prefix[i] \in STRING \cup {NoPrefix} /\ devices[i][k].card \in Card
      /\ devices[i][k].direction \in {"INPUT", "OUTPUT"}
  BY <1>3 DEF Device, OptionsInv
<1> QED BY <1>4 DEF Path, Paths

(* A thread opens its log: a file that another one writes to is spoilt, any *)
(* other has one writer now, at its end.                                    *)
LEMMA OpenLogKept ==
  ASSUME OptionsInv, LinesInv, LogInv, TellInv,
         NEW i \in Instance, NEW k \in DOMAIN thread[i], OpenLog(i, k)
  PROVE  LogInv' /\ TellInv'
<1>0. PICK q : q = Path(i, k)
  OBVIOUS
<1> DEFINE x == [path |-> q, at |-> HeaderSize, total_samples |-> 0]
           new == [size |-> HeaderSize, riff |-> 0, data |-> 0, spoilt |-> Writers(q) # {}]
<1>1. /\ thread[i][k] = "connected" /\ thread' = [thread EXCEPT ![i][k] = "looping"]
      /\ devices' = devices
      /\ IF prefix[i] = NoPrefix THEN UNCHANGED <<log, files>>
         ELSE log' = [log EXCEPT ![i][k] = x] /\ files' = Logged(q, new)
  BY <1>0 DEF OpenLog, process, options
<1>2. /\ k \in 1..Len(thread[i]) /\ k \in 1..Len(log[i]) /\ thread'[i][k] = "looping"
      /\ \A j \in Instance :
           /\ Len(thread'[j]) = Len(thread[j])
           /\ \A m \in 1..Len(thread[j]) : thread'[j][m] = thread[j][m] \/ (j = i /\ m = k)
  BY <1>1, OneThread DEF ThreadStage
<1>3. CASE prefix[i] = NoPrefix
  <2>1. \A j \in Instance : \A m \in 1..Len(thread[j]) :
          thread[j][m] = "looping" => thread'[j][m] = "looping"
    BY <1>1, <1>2
  <2> QED BY <1>1, <1>2, <1>3, <2>1, LogLeft
<1>4. CASE prefix[i] # NoPrefix
  <2>1. log[i][k] = NoLog
    BY <1>1, <1>2 DEF LogInv
  <2>2. q \in Paths
    BY <1>0, <1>2, OpenStates
  <2>3. x \in OpenState
    BY <2>2 DEF OpenState, HeaderSize
  <2>4. new \in File /\ new.size = HeaderSize /\ new.spoilt = (Writers(q) # {})
    <3>1. SizeMod \in Nat \ {0}
      BY HostAssumption
    <3>2. 0 \in 0..(SizeMod - 1) /\ HeaderSize \in Nat
      BY <3>1 DEF HeaderSize
    <3> QED BY <3>2 DEF File
  <2>5. x.path = q /\ x.at = HeaderSize /\ x.total_samples = 0
    OBVIOUS
  <2>6. /\ files' = [p \in DOMAIN files \cup {q} |-> IF p = q THEN new ELSE files[p]]
    BY <1>1, <1>4 DEF Logged
  <2>7. Turns(i, k, x)
    BY <1>1, <1>2, <1>4 DEF Turns
  <2> HIDE DEF x, new
  <2>8. /\ files' \in [DOMAIN files' -> File] /\ DOMAIN files' = DOMAIN files \cup {q}
        /\ files'[q] = new /\ \A p \in DOMAIN files : p # q => files'[p] = files[p]
    BY <2>4, <2>6 DEF LogInv
  <2>9. <<>> \notin DOMAIN files'
    BY <2>2, <2>8, NoPath DEF LogInv
  <2>10. LogInv'
    BY <1>2, <2>3, <2>5, <2>7, <2>8, <2>9, OneLogKept
  <2>11. ASSUME NEW p \in DOMAIN files', ~files'[p].spoilt PROVE Told(p)'
    <3>1. CASE p # q
      <4>1. p \in DOMAIN files /\ files'[p] = files[p] /\ Told(p)
        BY <2>8, <2>11, <3>1 DEF TellInv
      <4>2. log[i][k].path # p
        BY <2>1, <4>1, NoPath DEF LogInv
      <4> QED BY <1>2, <2>3, <2>5, <2>7, <3>1, <4>1, <4>2, OtherFiles
    <3>2. CASE p = q
      <4>1. Unwritten(q)
        BY <2>4, <2>8, <2>11, <3>2, WritersAre
      <4>2. /\ log'[i][k] = x
            /\ \A j \in Instance, m \in Nat : Writes(j, m, q)' <=> (j = i /\ m = k)
        <5>1. \A j \in Instance : \A m \in 1..Len(log[j]) :
                log'[j][m] = IF j = i /\ m = k THEN x ELSE log[j][m]
          BY <1>2, <2>3, <2>7, OneLog
        <5>2. \A y : \A j \in Instance, m \in Nat :
                Writes(j, m, y)' <=> IF j = i /\ m = k THEN x.path = y ELSE Writes(j, m, y)
          BY <1>2, <2>3, <2>7, OneLog
        <5>3. \A j \in Instance, m \in Nat : ~Writes(j, m, q)
          BY <4>1 DEF Unwritten
        <5> QED BY <1>2, <2>5, <5>1, <5>2, <5>3
      <4>3. BytesOf(i, k, 0)' = 0
        <5>1. BytesOf(i, k, 0) = 0
          BY <1>2, Bytes
        <5> QED BY <1>1, <5>1 DEF BytesOf
      <4>4. /\ log'[i][k].at = files'[q].size
            /\ files'[q].size = HeaderSize + BytesOf(i, k, log[i][k].total_samples)'
        <5>1. log'[i][k].total_samples = 0 /\ log'[i][k].at = HeaderSize /\ files'[q].size = HeaderSize
          BY <2>4, <2>5, <2>8, <4>2
        <5>2. BytesOf(i, k, log[i][k].total_samples)' = 0
          BY <4>3, <5>1 DEF BytesOf
        <5> QED BY <5>1, <5>2 DEF HeaderSize
      <4>5. ~Unwritten(q)'
        <5>1. k \in Nat /\ Writes(i, k, q)'
          BY <1>2, <4>2
        <5> QED BY <5>1 DEF Unwritten
      <4>6. \A a, b \in Instance, m, n \in Nat : Writes(a, m, q)' /\ Writes(b, n, q)' => a = b /\ m = n
        BY <4>2
      <4>7. ASSUME NEW j \in Instance, NEW m \in Nat, Writes(j, m, q)'
            PROVE  /\ log'[j][m].at = files'[q].size
                   /\ files'[q].size = HeaderSize + BytesOf(j, m, log[j][m].total_samples)'
        <5>1. j = i /\ m = k
          BY <4>2, <4>7
        <5> QED BY <4>4, <5>1
      <4>8. Told(q)'
        BY <4>5, <4>6, <4>7, Zenon DEF Told
      <4> QED BY <3>2, <4>8
    <3> QED BY <3>1, <3>2
  <2> QED BY <2>10, <2>11 DEF TellInv
<1> QED BY <1>3, <1>4

(* A thread that has a log open: its state is that of a WAVFile.            *)
LEMMA OpenLogs ==
  ASSUME LinesInv, LogInv, NEW i \in Instance, NEW k \in DOMAIN thread[i]
  PROVE  /\ k \in 1..Len(thread[i]) /\ k \in 1..Len(log[i])
         /\ log[i][k] # NoLog => log[i][k] \in OpenState /\ log[i][k].path \in DOMAIN files
<1>1. k \in 1..Len(thread[i]) /\ Len(log[i]) = Len(thread[i])
  BY Domains DEF LinesInv, LogInv
<1>2. log[i] \in Seq(OpenState \cup {NoLog})
  BY DEF LogInv
<1>3. log[i][k] \in OpenState \cup {NoLog}
  BY <1>1, <1>2, ElementOfSeq
<1> QED BY <1>1, <1>3 DEF LogInv

(* A thread writes to its log: an unspoilt file grows as its writer goes    *)
(* on.                                                                      *)
LEMMA WriteDataKept ==
  ASSUME OptionsInv, LinesInv, LogInv, TellInv,
         NEW i \in Instance, NEW k \in DOMAIN thread[i], WriteData(i, k)
  PROVE  LogInv' /\ TellInv'
<1>0. PICK q : q = log[i][k].path
  OBVIOUS
<1> DEFINE w == log[i][k]
           end == w.at + BytesOf(i, k, 1)
           x == [path |-> q, at |-> end, total_samples |-> w.total_samples + 1]
<1>1. /\ thread[i][k] = "looping" /\ w # NoLog
      /\ log' = [log EXCEPT ![i][k].at = end, ![i][k].total_samples = @ + 1]
      /\ files' = [files EXCEPT ![q].size = IF @ < end THEN end ELSE @]
      /\ thread' = thread /\ devices' = devices
  BY <1>0 DEF WriteData, Logging, process, options
<1>2. k \in 1..Len(thread[i]) /\ k \in 1..Len(log[i]) /\ w \in OpenState /\ q \in DOMAIN files
  BY <1>0, <1>1, OpenLogs
<1>3. w.at \in Nat /\ w.total_samples \in Nat /\ q \in Paths
  BY <1>0, <1>2 DEF OpenState
<1>4. /\ end \in Nat
      /\ BytesOf(i, k, w.total_samples + 1) = BytesOf(i, k, w.total_samples) + BytesOf(i, k, 1)
      /\ BytesOf(i, k, w.total_samples) \in Nat /\ BytesOf(i, k, 1) \in Nat
  <2>1. BytesOf(i, k, 1) \in Nat
    BY <1>2, Bytes
  <2>2. /\ BytesOf(i, k, w.total_samples) \in Nat
        /\ BytesOf(i, k, w.total_samples + 1) = BytesOf(i, k, w.total_samples) + BytesOf(i, k, 1)
    BY <1>2, <1>3, Bytes
  <2> QED BY <1>3, <2>1, <2>2
<1>5. x \in OpenState /\ x.path = q /\ x.at = end /\ x.total_samples = w.total_samples + 1
  BY <1>3, <1>4 DEF OpenState
<1>6. [w EXCEPT !.at = end, !.total_samples = @ + 1] = x
  <2> DEFINE y == [w EXCEPT !.at = end]
  <2>1. y = [path |-> q, at |-> end, total_samples |-> w.total_samples]
    <3> HIDE DEF end, w
    <3> QED BY <1>0, <1>2 DEF OpenState, w
  <2>2. y \in OpenState /\ y.total_samples = w.total_samples
    <3> HIDE DEF end, w
    <3> QED BY <1>3, <1>4, <2>1 DEF OpenState
  <2>3. [y EXCEPT !.total_samples = @ + 1] = x
    <3> HIDE DEF end, w, y
    <3>1. [y EXCEPT !.total_samples = @ + 1]
          = [path |-> y.path, at |-> y.at, total_samples |-> y.total_samples + 1]
      BY <2>2 DEF OpenState
    <3> QED BY <2>1, <3>1
  <2> QED BY <2>3, Zenon
<1>7. log' = [log EXCEPT ![i][k] = x]
  <2>1. log' = [log EXCEPT ![i][k] = [w EXCEPT !.at = end, !.total_samples = @ + 1]]
    BY <1>1, <1>2 DEF LogInv
  <2> QED BY <1>6, <2>1
<1> HIDE DEF end
<1>8. /\ files' \in [DOMAIN files -> File] /\ DOMAIN files' = DOMAIN files
      /\ \A p \in DOMAIN files : p # q => files'[p] = files[p]
      /\ files'[q] = [files[q] EXCEPT !.size = IF @ < end THEN end ELSE @]
  <2>1. files[q] \in File
    BY <1>2 DEF LogInv
  <2>2. [files[q] EXCEPT !.size = IF @ < end THEN end ELSE @] \in File
    BY <1>4, <2>1 DEF File
  <2> QED BY <1>1, <1>2, <2>2 DEF LogInv
<1>9. Turns(i, k, x)
  BY <1>1, <1>7 DEF Turns
<1> HIDE DEF x, w
<1>10. LogInv'
  <2>1. <<>> \notin DOMAIN files
    BY DEF LogInv
  <2>2. thread'[i][k] = "looping"
    BY <1>1
  <2> QED BY <1>2, <1>5, <1>8, <1>9, <2>1, <2>2, OneLogKept
<1>11. ASSUME NEW p \in DOMAIN files', ~files'[p].spoilt PROVE Told(p)'
  <2>1. CASE p # q
    <3>1. p \in DOMAIN files /\ files'[p] = files[p] /\ Told(p) /\ log[i][k].path # p
      BY <1>0, <1>8, <1>11, <2>1 DEF TellInv
    <3> QED BY <1>2, <1>5, <1>9, <2>1, <3>1, OtherFiles
  <2>2. CASE p = q
    <3>1. files[q] \in File
      BY <1>2 DEF LogInv
    <3>2. /\ files'[q].spoilt = files[q].spoilt
          /\ files'[q].size = IF files[q].size < end THEN end ELSE files[q].size
      BY <1>8, <3>1 DEF File
    <3>3. Told(q)
      BY <1>2, <1>11, <2>2, <3>2 DEF TellInv
    <3>4. Writes(i, k, q) /\ k \in Nat
      BY <1>0, <1>2 DEF Writes
    <3>5. /\ w.at = files[q].size
          /\ files[q].size = HeaderSize + BytesOf(i, k, w.total_samples)
      BY <3>3, <3>4 DEF Told, w
    <3>6. files'[q].size = end
      BY <1>3, <1>4, <3>2, <3>5 DEF end
    <3>7. end = HeaderSize + BytesOf(i, k, w.total_samples + 1)
      BY <1>4, <3>5 DEF end, HeaderSize
    <3>8. \A y : \A j \in Instance, m \in Nat :
            Writes(j, m, y)' <=> IF j = i /\ m = k THEN x.path = y ELSE Writes(j, m, y)
      BY <1>2, <1>5, <1>9, OneLog
    <3>9. ASSUME NEW j \in Instance, NEW m \in Nat PROVE Writes(j, m, q)' <=> j = i /\ m = k
      <4>1. Writes(j, m, q) => j = i /\ m = k
        BY <3>3, <3>4 DEF Told
      <4> QED BY <1>5, <3>8, <4>1
    <3>10. log'[i][k] = x
      BY <1>2, <1>5, <1>9, OneLog
    <3>11. /\ log'[i][k].at = files'[q].size
           /\ files'[q].size = HeaderSize + BytesOf(i, k, log[i][k].total_samples)'
      <4>1. BytesOf(i, k, log[i][k].total_samples)' = BytesOf(i, k, w.total_samples + 1)
        BY <1>1, <1>5, <3>10 DEF BytesOf
      <4> QED BY <1>5, <3>6, <3>7, <3>10, <4>1
    <3>12. ~Unwritten(q)'
      BY <3>4, <3>9 DEF Unwritten
    <3>13. \A a, b \in Instance, m, n \in Nat : Writes(a, m, q)' /\ Writes(b, n, q)' => a = b /\ m = n
      BY <3>9
    <3>14. ASSUME NEW j \in Instance, NEW m \in Nat, Writes(j, m, q)'
           PROVE  /\ log'[j][m].at = files'[q].size
                  /\ files'[q].size = HeaderSize + BytesOf(j, m, log[j][m].total_samples)'
      <4>1. j = i /\ m = k
        BY <3>9, <3>14
      <4> QED BY <3>11, <4>1
    <3>15. Told(q)'
      BY <3>12, <3>13, <3>14, Zenon DEF Told
    <3> QED BY <2>2, <3>15
  <2> QED BY <2>1, <2>2
<1> QED BY <1>10, <1>11 DEF TellInv

(* A write that fails spoils the file.                                      *)
LEMMA WriteFailsKept ==
  ASSUME LinesInv, LogInv, TellInv,
         NEW i \in Instance, NEW k \in DOMAIN thread[i], WriteFails(i, k)
  PROVE  LogInv' /\ TellInv'
<1>0. PICK q : q = log[i][k].path
  OBVIOUS
<1> DEFINE w == log[i][k]
           x == [path |-> q, at |-> w.at, total_samples |-> w.total_samples + 1]
<1>1. /\ thread[i][k] = "looping" /\ w # NoLog
      /\ log' = [log EXCEPT ![i][k].total_samples = @ + 1]
      /\ files' = [files EXCEPT ![q].spoilt = TRUE]
      /\ thread' = thread /\ devices' = devices
  BY <1>0 DEF WriteFails, Logging, process, options
<1>2. k \in 1..Len(thread[i]) /\ k \in 1..Len(log[i]) /\ w \in OpenState /\ q \in DOMAIN files
  BY <1>0, <1>1, OpenLogs
<1>3. x \in OpenState /\ x.path = q
  BY <1>0, <1>2 DEF OpenState
<1>4. [w EXCEPT !.total_samples = @ + 1] = x
  BY <1>0, <1>2 DEF OpenState
<1>5. log' = [log EXCEPT ![i][k] = x]
  <2>1. log' = [log EXCEPT ![i][k] = [w EXCEPT !.total_samples = @ + 1]]
    BY <1>1, <1>2 DEF LogInv
  <2> QED BY <1>4, <2>1
<1>6. /\ files' \in [DOMAIN files -> File] /\ DOMAIN files' = DOMAIN files
      /\ \A p \in DOMAIN files : p # q => files'[p] = files[p]
      /\ files'[q].spoilt
  <2>1. files[q] \in File
    BY <1>2 DEF LogInv
  <2>2. [files[q] EXCEPT !.spoilt = TRUE] \in File /\ [files[q] EXCEPT !.spoilt = TRUE].spoilt
    BY <2>1 DEF File
  <2> QED BY <1>1, <1>2, <2>2 DEF LogInv
<1>7. Turns(i, k, x)
  BY <1>1, <1>5 DEF Turns
<1> HIDE DEF x, w
<1>8. LogInv'
  <2>1. <<>> \notin DOMAIN files
    BY DEF LogInv
  <2>2. thread'[i][k] = "looping"
    BY <1>1
  <2> QED BY <1>2, <1>3, <1>6, <1>7, <2>1, <2>2, OneLogKept
<1>9. ASSUME NEW p \in DOMAIN files', ~files'[p].spoilt PROVE Told(p)'
  <2>1. p # q
    BY <1>6, <1>9
  <2>2. p \in DOMAIN files /\ files'[p] = files[p] /\ Told(p) /\ log[i][k].path # p
    BY <1>0, <1>6, <1>9, <2>1 DEF TellInv
  <2> QED BY <1>2, <1>3, <1>7, <2>1, <2>2, OtherFiles
<1> QED BY <1>8, <1>9 DEF TellInv

(* A thread ends: the sizes it puts into the header are those of an         *)
(* unspoilt file.                                                           *)
LEMMA EndThreadKept ==
  ASSUME OptionsInv, LinesInv, LogInv, TellInv,
         NEW i \in Instance, NEW k \in DOMAIN thread[i], EndThread(i, k)
  PROVE  LogInv' /\ TellInv'
<1>0. PICK q : q = log[i][k].path
  OBVIOUS
<1> DEFINE w == log[i][k]
           r == RiffSize(i, k)
           d == DataSize(i, k)
<1>1. /\ thread' = [thread EXCEPT ![i][k] = "ended"]
      /\ log' = [log EXCEPT ![i][k] = NoLog] /\ devices' = devices
      /\ files' = IF w = NoLog THEN files ELSE [files EXCEPT ![q].riff = r, ![q].data = d]
  BY <1>0 DEF EndThread, process, options
<1>2. /\ k \in 1..Len(thread[i]) /\ k \in 1..Len(log[i])
      /\ \A j \in Instance :
           /\ Len(thread'[j]) = Len(thread[j])
           /\ \A m \in 1..Len(thread[j]) : thread'[j][m] = thread[j][m] \/ (j = i /\ m = k)
  <2>1. thread' = [thread EXCEPT ![i][k] = "ended"]
    BY <1>1
  <2>2. "ended" \in ThreadStage
    BY DEF ThreadStage
  <2> QED BY <2>1, <2>2, OneThread
<1>3. Turns(i, k, NoLog)
  BY <1>1, <1>2 DEF Turns
<1>4. w # NoLog => w \in OpenState /\ q \in DOMAIN files
  BY <1>0, OpenLogs
<1>5. ASSUME w # NoLog
      PROVE  /\ r \in 0..(SizeMod - 1) /\ d \in 0..(SizeMod - 1)
             /\ r = (36 + BytesOf(i, k, w.total_samples)) % SizeMod
             /\ d = BytesOf(i, k, w.total_samples) % SizeMod
             /\ BytesOf(i, k, w.total_samples) \in Nat
  <2>1. w.total_samples \in Nat
    BY <1>4, <1>5 DEF OpenState
  <2> DEFINE b == BytesOf(i, k, w.total_samples)
  <2>2. b \in Nat
    BY <1>2, <2>1, Bytes
  <2>3. r = (36 + b) % SizeMod /\ d = b % SizeMod
    BY DEF RiffSize, DataSize
  <2> HIDE DEF b, r, d
  <2>4. SizeMod \in Nat \ {0}
    BY HostAssumption
  <2>5. r \in 0..(SizeMod - 1) /\ d \in 0..(SizeMod - 1)
    BY <2>2, <2>3, <2>4
  <2> QED BY <2>2, <2>3, <2>5 DEF b
<1> HIDE DEF r, d
<1>6. /\ files' \in [DOMAIN files -> File] /\ DOMAIN files' = DOMAIN files
      /\ \A p \in DOMAIN files : p # q => files'[p] = files[p]
      /\ w # NoLog => /\ files'[q].size = files[q].size /\ files'[q].spoilt = files[q].spoilt
                      /\ files'[q].riff = r /\ files'[q].data = d
  <2>1. CASE w = NoLog
    BY <1>1, <2>1 DEF LogInv
  <2>2. CASE w # NoLog
    <3> DEFINE f == [files EXCEPT ![q].riff = r]
    <3>1. q \in DOMAIN files /\ files[q] \in File /\ r \in 0..(SizeMod - 1) /\ d \in 0..(SizeMod - 1)
      BY <1>4, <1>5, <2>2 DEF LogInv
    <3>2. /\ f \in [DOMAIN files -> File] /\ \A p \in DOMAIN files : p # q => f[p] = files[p]
          /\ f[q].size = files[q].size /\ f[q].spoilt = files[q].spoilt /\ f[q].riff = r
      <4>1. [files[q] EXCEPT !.riff = r] \in File
        BY <3>1 DEF File
      <4>2. f = [files EXCEPT ![q] = [files[q] EXCEPT !.riff = r]]
        BY <3>1
      <4>3. /\ [files[q] EXCEPT !.riff = r].size = files[q].size
            /\ [files[q] EXCEPT !.riff = r].spoilt = files[q].spoilt
            /\ [files[q] EXCEPT !.riff = r].riff = r
        BY <3>1 DEF File
      <4> QED BY <3>1, <4>1, <4>2, <4>3 DEF LogInv
    <3>3. files' = [f EXCEPT ![q].data = d]
      BY <1>1, <2>2, Zenon
    <3> HIDE DEF f
    <3>4. f[q] \in File
      BY <3>1, <3>2
    <3>5. [f[q] EXCEPT !.data = d] \in File
      BY <3>1, <3>4 DEF File
    <3>6. /\ [f[q] EXCEPT !.data = d].size = f[q].size
          /\ [f[q] EXCEPT !.data = d].spoilt = f[q].spoilt
          /\ [f[q] EXCEPT !.data = d].riff = f[q].riff
          /\ [f[q] EXCEPT !.data = d].data = d
      BY <3>4 DEF File
    <3>7. files' = [f EXCEPT ![q] = [f[q] EXCEPT !.data = d]]
      BY <3>1, <3>2, <3>3
    <3> QED BY <3>1, <3>2, <3>5, <3>6, <3>7
  <2> QED BY <2>1, <2>2
<1>7. LogInv'
  <2>1. <<>> \notin DOMAIN files
    BY DEF LogInv
  <2> QED BY <1>2, <1>3, <1>6, <2>1, OneLogKept
<1>8. ASSUME NEW p \in DOMAIN files', ~files'[p].spoilt PROVE Told(p)'
  <2>0. p # <<>> /\ NoLog.path = <<>>
    BY <1>6, NoPath DEF LogInv
  <2>1. CASE p # q
    <3>1. p \in DOMAIN files /\ files'[p] = files[p] /\ Told(p) /\ log[i][k].path # p
      BY <1>0, <1>6, <1>8, <2>1 DEF TellInv
    <3> QED BY <1>2, <1>3, <2>0, <2>1, <3>1, OtherFiles
  <2>2. CASE p = q
    <3>1. w # NoLog
      BY <1>0, <2>0, <2>2
    <3>2. Told(q) /\ Writes(i, k, q) /\ k \in Nat
      BY <1>0, <1>2, <1>4, <1>6, <1>8, <2>2, <3>1 DEF TellInv, Writes
    <3>3. files[q].size = HeaderSize + BytesOf(i, k, w.total_samples)
      BY <3>2 DEF Told
    <3>4. \A y : \A j \in Instance, m \in Nat :
            Writes(j, m, y)' <=> IF j = i /\ m = k THEN NoLog.path = y ELSE Writes(j, m, y)
      BY <1>2, <1>3, OneLog
    <3>5. ASSUME NEW j \in Instance, NEW m \in Nat PROVE ~Writes(j, m, q)'
      <4>1. Writes(j, m, q) => j = i /\ m = k
        BY <3>2 DEF Told
      <4> QED BY <2>0, <2>2, <3>4, <4>1
    <3>6. /\ files'[q].data = (files'[q].size - HeaderSize) % SizeMod
          /\ files'[q].riff = (files'[q].size - 8) % SizeMod
      <4> DEFINE b == BytesOf(i, k, w.total_samples)
      <4>1. b \in Nat /\ r = (36 + b) % SizeMod /\ d = b % SizeMod
        BY <1>5, <3>1
      <4>2. files'[q].size = HeaderSize + b /\ files'[q].riff = r /\ files'[q].data = d
        BY <1>6, <3>1, <3>3
      <4> HIDE DEF b
      <4>3. (HeaderSize + b) - HeaderSize = b /\ (HeaderSize + b) - 8 = 36 + b
        BY <4>1 DEF HeaderSize
      <4> QED BY <4>1, <4>2, <4>3
    <3>7. Told(q)'
      BY <3>5, <3>6, Zenon DEF Told
    <3> QED BY <2>2, <3>7
  <2> QED BY <2>1, <2>2
<1> QED BY <1>7, <1>8 DEF TellInv

(* An instance goes, and what it was writing is spoilt.                     *)
LEMMA GoneLog ==
  ASSUME OptionsInv, LinesInv, LogInv, TellInv, NEW i \in Instance, Gone(i),
         files' \in [DOMAIN files -> File],
         \A p \in DOMAIN files : ~files'[p].spoilt =>
           files'[p] = files[p] /\ \A k \in 1..Len(log[i]) : log[i][k].path # p
  PROVE  LogInv' /\ TellInv'
<1>1. /\ thread' = [thread EXCEPT ![i] = <<>>] /\ log' = [log EXCEPT ![i] = <<>>]
      /\ devices' = [devices EXCEPT ![i] = <<>>]
  BY DEF Gone
<1>2. <<>> \in Seq(OpenState \cup {NoLog}) /\ Len(<<>>) = 0
  BY EmptySeq
<1>3. /\ log' \in [Instance -> Seq(OpenState \cup {NoLog})] /\ log'[i] = <<>> /\ thread'[i] = <<>>
      /\ \A j \in Instance : j # i => log'[j] = log[j] /\ thread'[j] = thread[j] /\ devices'[j] = devices[j]
  BY <1>1, <1>2 DEF LogInv, LinesInv, OptionsInv
<1>4. DOMAIN files' = DOMAIN files /\ files' \in [DOMAIN files' -> File]
  OBVIOUS
<1>5. LogInv'
  <2>1. ASSUME NEW j \in Instance
        PROVE  /\ Len(log'[j]) = Len(thread'[j])
               /\ \A k \in 1..Len(log'[j]) :
                    log'[j][k] # NoLog => thread'[j][k] = "looping" /\ log'[j][k].path \in DOMAIN files'
    <3>1. CASE j # i
      <4>1. log'[j] = log[j] /\ thread'[j] = thread[j] /\ DOMAIN files' = DOMAIN files
        BY <1>3, <1>4, <3>1
      <4> QED BY <4>1 DEF LogInv
    <3>2. CASE j = i
      BY <1>2, <1>3, <3>2
    <3> QED BY <3>1, <3>2
  <2> QED BY <1>3, <1>4, <2>1 DEF LogInv
<1>6. ASSUME NEW p \in DOMAIN files', ~files'[p].spoilt PROVE Told(p)'
  <2>1. p \in DOMAIN files /\ files'[p] = files[p] /\ \A k \in 1..Len(log[i]) : log[i][k].path # p
    BY <1>4, <1>6
  <2>2. Told(p)
    BY <1>6, <2>1 DEF TellInv
  <2>3. ASSUME NEW j \in Instance, NEW m \in Nat
        PROVE  /\ Writes(j, m, p)' <=> Writes(j, m, p)
               /\ Writes(j, m, p) => log'[j][m] = log[j][m] /\ devices'[j] = devices[j]
    <3>1. CASE j # i
      BY <1>3, <3>1 DEF Writes
    <3>2. CASE j = i
      BY <1>2, <1>3, <2>1, <3>2 DEF Writes
    <3> QED BY <3>1, <3>2
  <2>4. \A j \in Instance, m \in Nat : Writes(j, m, p)' <=> Writes(j, m, p)
    BY <2>3
  <2>5. \A j \in Instance, m \in Nat :
          Writes(j, m, p) => log'[j][m] = log[j][m] /\ devices'[j] = devices[j]
    BY <2>3
  <2> QED BY <2>1, <2>2, <2>4, <2>5, ToldKept
<1> QED BY <1>5, <1>6 DEF TellInv

(* No thread has a log open when an instance ends in order.                 *)
LEMMA FinishLog ==
  ASSUME OptionsInv, LinesInv, LogInv, TellInv, NEW i \in Instance, Finish(i)
  PROVE  LogInv' /\ TellInv'
<1>1. Gone(i) /\ files' = files /\ \A k \in DOMAIN thread[i] : thread[i][k] = "ended"
  BY DEF Finish
<1>2. DOMAIN thread[i] = 1..Len(thread[i]) /\ Len(log[i]) = Len(thread[i])
  BY Domains DEF LinesInv, LogInv
<1>3. \A k \in 1..Len(log[i]) : log[i][k] = NoLog
  BY <1>1, <1>2 DEF LogInv
<1>4. files' \in [DOMAIN files -> File]
  BY <1>1 DEF LogInv
<1>5. \A p \in DOMAIN files : p # <<>>
  BY DEF LogInv
<1>6. \A p \in DOMAIN files : files'[p] = files[p] /\ \A k \in 1..Len(log[i]) : log[i][k].path # p
  BY <1>1, <1>3, <1>5, NoPath
<1> QED BY <1>1, <1>4, <1>6, GoneLog

(* The logs that are open when an instance is killed are spoilt.            *)
LEMMA KillLog ==
  ASSUME OptionsInv, LinesInv, LogInv, TellInv, NEW i \in Instance, Kill(i)
  PROVE  LogInv' /\ TellInv'
<1> DEFINE Hit(p) == \E k \in DOMAIN log[i] : log[i][k].path = p
<1>1. Gone(i) /\ files' = [p \in DOMAIN files |-> [files[p] EXCEPT !.spoilt = @ \/ Hit(p)]]
  BY DEF Kill
<1>2. DOMAIN log[i] = 1..Len(log[i])
  BY Domains DEF LogInv
<1>3. \A p \in DOMAIN files : ~Hit(p) => \A k \in 1..Len(log[i]) : log[i][k].path # p
  BY <1>2
<1>4. \A p \in DOMAIN files : Hit(p) \in BOOLEAN
  OBVIOUS
<1> HIDE DEF Hit
<1>5. ASSUME NEW p \in DOMAIN files
      PROVE  files'[p] \in File /\ (~files'[p].spoilt => files'[p] = files[p] /\ ~Hit(p))
  <2>1. files[p] \in File
    BY DEF LogInv
  <2>2. files[p].spoilt \in BOOLEAN
    BY <2>1 DEF File
  <2> DEFINE v == files[p].spoilt \/ Hit(p)
  <2>3. v \in BOOLEAN /\ (v = FALSE => files[p].spoilt = FALSE /\ ~Hit(p))
    BY <1>4, <2>2, Zenon
  <2>4. files'[p] = [files[p] EXCEPT !.spoilt = v]
    BY <1>1, Zenon
  <2> HIDE DEF v
  <2>5. files'[p] \in File /\ files'[p].spoilt = v
    BY <2>1, <2>3, <2>4 DEF File
  <2>6. v = FALSE => files'[p] = files[p]
    BY <2>1, <2>3, <2>4 DEF File
  <2>7. v = TRUE \/ v = FALSE
    BY <2>3
  <2> QED BY <2>3, <2>5, <2>6, <2>7
<1>6. files' \in [DOMAIN files -> File]
  <2>1. \A p \in DOMAIN files : files'[p] \in File
    BY <1>5
  <2> QED BY <1>1, <2>1
<1>7. \A p \in DOMAIN files : ~files'[p].spoilt =>
        files'[p] = files[p] /\ \A k \in 1..Len(log[i]) : log[i][k].path # p
  BY <1>3, <1>5
<1> QED BY <1>1, <1>6, <1>7, GoneLog

(* Every step keeps the logs as they should be.                             *)
LEMMA LogKept ==
  ASSUME PortsInv, OptionsInv, LinesInv, LogInv, TellInv, [Next]_vars
  PROVE  LogInv' /\ TellInv'
<1>1. CASE OthersChange \/ UNCHANGED vars
  <2>1. UNCHANGED <<thread, log, files, devices>>
    BY <1>1 DEF OthersChange, vars, process, options
  <2> QED BY <2>1, LogLeft
<1>2. ASSUME NEW i \in Instance, Launch(i) PROVE LogInv' /\ TellInv'
  <2>1. /\ UNCHANGED <<thread, log, files>>
        /\ \A j \in Instance : j # i => devices'[j] = devices[j]
    BY <1>2 DEF Launch, options, OptionsInv
  <2>2. Len(thread[i]) = 0
    BY <1>2 DEF Launch, LinesInv, Idle
  <2> QED BY <2>1, <2>2, LogLeft
<1>3. ASSUME NEW i \in Instance, BindPort(i) \/ GiveUp(i) \/ EnterLoop(i) \/ Stop(i) \/ NextPort(i)
      PROVE  LogInv' /\ TellInv'
  <2>1. UNCHANGED <<thread, log, files, devices>>
    BY <1>3 DEF BindPort, GiveUp, EnterLoop, Stop, NextPort, process, options
  <2> QED BY <2>1, LogLeft
<1>4. ASSUME NEW i \in Instance, StartThread(i) PROVE LogInv' /\ TellInv'
  BY <1>4, StartLog
<1>5. ASSUME NEW i \in Instance, Finish(i) \/ Kill(i) PROVE LogInv' /\ TellInv'
  BY <1>5, FinishLog, KillLog
<1>6. ASSUME NEW i \in Instance, NEW k \in DOMAIN thread[i], DeviceDoes(i, k)
      PROVE  LogInv' /\ TellInv'
  BY <1>6, SocksLog, OpenLogKept, WriteDataKept, WriteFailsKept, EndThreadKept DEF DeviceDoes
<1> QED BY <1>1, <1>2, <1>3, <1>4, <1>5, <1>6 DEF Next

(* What always holds of a host, but for the search: the ports, the options, *)
(* the threads, their lines and the logs.                                   *)
HostInv == PortsInv /\ OptionsInv /\ LinesInv /\ OwnInv /\ LogInv /\ TellInv

(* It holds at any time, for any number of instances, cards, threads and    *)
(* files.                                                                   *)
LEMMA HostInvariant == Spec => []HostInv
<1>1. Init => HostInv
  BY PortsStart, OptionsStart, LinesStart, LogStart DEF HostInv
<1>2. HostInv /\ [Next]_vars => HostInv'
  <2> SUFFICES ASSUME HostInv, [Next]_vars PROVE HostInv'
    OBVIOUS
  <2>1. PortsInv' /\ OptionsInv'
    BY PortsKept, OptionsKept DEF HostInv
  <2>2. LinesInv' /\ OwnInv'
    BY LinesKept DEF HostInv
  <2>3. LogInv' /\ TellInv'
    BY LogKept DEF HostInv
  <2> QED BY <2>1, <2>2, <2>3 DEF HostInv
<1> QED BY <1>1, <1>2, PTL DEF Spec

(* A log that was written by one thread at a time, without failures, and    *)
(* that is closed says in its header how long it is, modulo the width of    *)
(* its sizes, for any width.                                                *)
THEOREM LogsTellSize == Spec => []LogsTellTheirSize
<1>1. HostInv => LogsTellTheirSize
  <2> SUFFICES ASSUME LogInv, TellInv, NEW p \in DOMAIN files, ~files[p].spoilt, Writers(p) = {}
               PROVE  /\ files[p].data = (files[p].size - HeaderSize) % SizeMod
                      /\ files[p].riff = (files[p].size - 8) % SizeMod
    BY DEF HostInv, LogsTellTheirSize
  <2>1. Unwritten(p)
    BY WritersAre
  <2> QED BY <2>1 DEF TellInv, Told
<1> QED BY <1>1, HostInvariant, PTL

(* The types of the variables of a host.                                    *)
THEOREM HostTypes == Spec => []HostTypeOK
<1>1. HostInv => HostTypeOK
  <2> SUFFICES ASSUME HostInv PROVE HostTypeOK
    OBVIOUS
  <2>1. /\ stage \in [Instance -> {"off", "binding", "gaveup", "building", "serving", "closing"}]
        /\ starts \in [Instance -> 0..MaxStarts]
        /\ asked \in [Instance -> Port] /\ port \in [Instance -> Port]
        /\ bound \in [Instance -> (Port \ {0}) \cup {NoPort}]
        /\ refused \in [Instance -> SUBSET Port]
        /\ others \in SUBSET Occupied
        /\ prefix \in [Instance -> STRING \cup {NoPrefix}]
        /\ devices \in [Instance -> Seq(Device)]
        /\ silent \in [Instance -> SUBSET (Card \X {"INPUT", "OUTPUT"})]
    BY DEF HostInv, PortsInv, OptionsInv, StageName
  <2>2. ASSUME NEW i \in Instance
        PROVE  /\ thread[i] \in Seq({"started", "connected", "looping", "ended"})
               /\ Len(pulls[i]) = Len(thread[i]) /\ Len(pair[i]) = Len(thread[i])
               /\ Len(log[i]) = Len(thread[i]) /\ Len(thread[i]) <= Len(devices[i])
               /\ \A k \in DOMAIN thread[i] : pulls[i][k] \cup {pair[i][k]} \subseteq 0..Len(thread[i])
               /\ \A k \in DOMAIN log[i] : log[i][k] # NoLog => log[i][k].path \in DOMAIN files
    <3>1. thread[i] \in Seq(ThreadStage) /\ log[i] \in Seq(OpenState \cup {NoLog})
      BY DEF HostInv, LinesInv, LogInv
    <3>2. /\ DOMAIN thread[i] = 1..Len(thread[i]) /\ DOMAIN log[i] = 1..Len(log[i])
          /\ Len(thread[i]) \in Nat
      BY <3>1, Domains
    <3>3. ASSUME NEW k \in DOMAIN thread[i]
          PROVE  pulls[i][k] \cup {pair[i][k]} \subseteq 0..Len(thread[i])
      <4>1. pulls[i][k] \subseteq 1..Len(thread[i]) /\ pair[i][k] \in 0..Len(thread[i])
        BY <3>2 DEF HostInv, LinesInv
      <4>2. 1..Len(thread[i]) \subseteq 0..Len(thread[i])
        BY <3>2
      <4> QED BY <4>1, <4>2
    <3>4. \A k \in DOMAIN log[i] : log[i][k] # NoLog => log[i][k].path \in DOMAIN files
      BY <3>2 DEF HostInv, LogInv
    <3> QED BY <3>1, <3>3, <3>4 DEF HostInv, LinesInv, LogInv, ThreadStage
  <2>3. ASSUME NEW p \in DOMAIN files PROVE files[p].riff < SizeMod /\ files[p].data < SizeMod
    <3>1. files[p] \in File /\ SizeMod \in Nat \ {0}
      BY HostAssumption DEF HostInv, LogInv
    <3>2. files[p].riff \in 0..(SizeMod - 1) /\ files[p].data \in 0..(SizeMod - 1)
      BY <3>1 DEF File
    <3> QED BY <3>1, <3>2
  <2> QED BY <2>1, <2>2, <2>3 DEF HostTypeOK
<1> QED BY <1>1, HostInvariant, PTL

=============================================================================
