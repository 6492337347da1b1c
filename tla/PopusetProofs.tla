--------------------------- MODULE PopusetProofs ---------------------------
(***************************************************************************)
(* Proofs about a whole process.  Each half of it keeps to what the other  *)
(* half assumes of its environment: every step of the process is a step of *)
(* BrokerNext and a step of ThreadNext, or changes nothing there.  So      *)
(* whatever has been proved of the broker among any threads, and of the    *)
(* threads behind any broker, holds for both together.                     *)
(***************************************************************************)
EXTENDS Popuset, BrokerProofs, AudioThreadProofs

(* What the halves need of each other: types, the order of what comes from  *)
(* the peers, and that nobody ends before SIGINT.                           *)
ProcessInv ==
  /\ TypeInv /\ BrokerTypeOK
  /\ LifeInv /\ StageInv /\ WorldInv

(* A step of the main thread, as the audio threads see it.                  *)
LEMMA MainIsBroker ==
  ASSUME ProcessInv, MainThread \/ World
  PROVE  [BrokerNext]_allVars /\ [ThreadNext]_threadAll
<1> USE DEF ProcessInv
<1>0. UNCHANGED threadVars
  BY DEF MainThread, World
<1>1. ASSUME UNCHANGED channels PROVE [ThreadNext]_threadAll
  BY <1>0, <1>1 DEF threadAll
<1>2. [BrokerNext]_allVars
  BY DEF MainThread, World, CloseNext, TerminateJoined, BrokerNext
<1>3. CASE Connected \/ PollSockets \/ Clean \/ Terminate \/ Tick
           \/ \E c \in Client : AnswerIdent(c) \/ PeerSends(c) \/ PeerAsks(c)
  BY <1>1, <1>2, <1>3 DEF Connected, PollSockets, Clean, Terminate, Tick, AnswerIdent, PeerSends, PeerAsks
<1>4. CASE Broadcast
  <2>1. CASE dirty
    <3>1. Sends(CmdList(Heard)) /\ Heard \in SUBSET Client
      BY <1>0, <1>4, <2>1 DEF Broadcast, Sends, BrokerTypeOK
    <3> QED BY <1>2, <3>1 DEF ThreadNext, BrokerDoes, BrokerSendsList
  <2>2. CASE ~dirty
    BY <1>1, <1>2, <1>4, <2>2 DEF Broadcast, channels
  <2> QED BY <2>1, <2>2
<1>5. CASE SendShutdown
  <2>1. Sends(CmdShutdown) /\ ~shouldRun
    BY <1>0, <1>5 DEF SendShutdown, Sends, StageInv
  <2> QED BY <1>2, <2>1 DEF ThreadNext, BrokerDoes, BrokerSendsShutdown
<1>6. ASSUME NEW c \in Client, ReceiveAudio(c) PROVE [ThreadNext]_threadAll
  <2> DEFINE n == Head(world[c])
  <2>1. world[c] \in Seq(0..MaxSeq) /\ world[c] # <<>> /\ n # Ident
        /\ Growing(world[c], published[c], sent[c])
    BY <1>6 DEF ReceiveAudio, BrokerTypeOK, WorldInv
  <2>2. n \in 0..MaxSeq
    BY <2>1, TailFacts
  <2>3. published[c] < n
    BY <2>1, GrowingTail
  <2>4. published[c] \in 0..MaxSeq
    BY DEF BrokerTypeOK, ChannelsTypeOK
  <2>5. n \in (published[c] + 1)..MaxSeq
    BY <2>2, <2>3, <2>4
  <2> HIDE DEF n
  <2>6. /\ clientSocks' = Publish(c, n) /\ published' = [published EXCEPT ![c] = n]
        /\ UNCHANGED <<shouldRun, online, cmdSock, inputSock, closed>>
    BY <1>6 DEF ReceiveAudio, n
  <2> QED BY <1>0, <2>5, <2>6 DEF ThreadNext, BrokerDoes, BrokerPublishes
<1>7. ASSUME NEW d \in Device, ForwardInput(d) PROVE [ThreadNext]_threadAll
  BY <1>0, <1>7 DEF ForwardInput, ThreadNext, BrokerDoes, BrokerTakesInput
<1>8. ASSUME NEW d \in Device, CloseCallbackSockets(d) PROVE [ThreadNext]_threadAll
  BY <1>0, <1>8 DEF CloseCallbackSockets, StageInv, ThreadNext, BrokerDoes, BrokerCloses
<1>9. CASE SigInt
  BY <1>0, <1>2, <1>9 DEF SigInt, ThreadNext, BrokerDoes, UserInterrupts
<1> QED BY <1>2, <1>3, <1>4, <1>5, <1>6, <1>7, <1>8, <1>9
    DEF MainThread, World, BrokerLoop, ReadWorld, Outside, CloseNext, TerminateJoined

(* A step of an audio thread or its callback, as the broker sees it.        *)
LEMMA DevicesAreThreads ==
  ASSUME ProcessInv, Devices
  PROVE  [BrokerNext]_allVars /\ [ThreadNext]_threadAll
<1> USE DEF ProcessInv
<1>1. PICK d \in Device :
        Thread(d) \/ Callback(d) \/ EncodeError(d) \/ PollInterrupted(d) \/ CallbackCut(d)
  BY DEF Devices, DeviceThreadsDo
<1>2. [ThreadNext]_threadAll /\ UNCHANGED brokerVars
  BY DEF Devices, ThreadNext
<1>3. ASSUME UNCHANGED channels PROVE [BrokerNext]_allVars
  BY <1>2, <1>3 DEF allVars
<1>4. CASE OpenStream(d) \/ Poll(d) \/ PollInterrupted(d) \/ ServeRequest(d) \/ EncodeError(d)
           \/ Callback(d) \/ CallbackCut(d) \/ \E s \in DOMAIN clientSocks[d] : DecodeWithoutDecoder(d, s)
  BY <1>2, <1>3, <1>4 DEF OpenStream, Poll, PollInterrupted, ServeRequest, EncodeError, Callback,
    CallbackAsks, CallbackPlays, CallbackRecords, CallbackSends, CallbackCut, DecodeWithoutDecoder
<1>5. CASE InitSocks(d)
  <2>1. ThreadConnects(d)
    BY <1>2, <1>5 DEF InitSocks, ThreadConnects, LifeInv
  <2> QED BY <1>2, <2>1 DEF BrokerNext, ThreadsDo
<1>6. CASE Cleanup(d)
  <2>1. ThreadEnds(d)
    BY <1>2, <1>6 DEF Cleanup, ThreadEnds, LifeInv
  <2> QED BY <1>2, <2>1 DEF BrokerNext, ThreadsDo
<1>7. CASE HandleList(d) \/ HandleShutdown(d)
  <2>1. cmdSock[d] # <<>>
    BY <1>7 DEF HandleList, HandleShutdown, CmdTurn, TypeInv, ReadyHolds
  <2>2. ThreadTakesCommand(d)
    BY <1>2, <1>7, <2>1 DEF HandleList, HandleShutdown, ThreadTakesCommand
  <2> QED BY <1>2, <2>2 DEF BrokerNext, ThreadsDo
<1>8. CASE EncodeRaw(d)
  <2>1. rawSock[d] \in Seq(1..MaxSeq) /\ rawSock[d] # <<>>
    BY <1>8 DEF EncodeRaw, TypeInv, ThreadTypeOK, ReadyHolds
  <2>2. Head(rawSock[d]) \in 1..MaxSeq
    BY <2>1, TailFacts
  <2>3. ThreadSends(d)
    BY <1>2, <1>8, <2>2 DEF EncodeRaw, ThreadSends
  <2> QED BY <1>2, <2>3 DEF BrokerNext, ThreadsDo
<1>9. ASSUME NEW s \in DOMAIN clientSocks[d], DecodeFrame(d, s) \/ DecodeError(d, s)
      PROVE  [BrokerNext]_allVars
  <2>1. s \in Client /\ clientSocks[d][s] # <<>>
    BY <1>9, AudioTypes DEF DecodeFrame, DecodeError, Turn, TypeInv, ReadyHolds
  <2>2. ThreadTakesFrame(d, s)
    BY <1>2, <1>9, <2>1 DEF DecodeFrame, DecodeError, TakeFrame, ThreadTakesFrame
  <2> QED BY <2>1, <2>2 DEF BrokerNext, ThreadsDo
<1> QED BY <1>1, <1>2, <1>4, <1>5, <1>6, <1>7, <1>8, <1>9 DEF Thread, Pass, ServeClient

(* Every step is a step, or no change, to either half.                      *)
LEMMA StepIsBoth ==
  ASSUME ProcessInv, [Next]_vars
  PROVE  [BrokerNext]_allVars /\ [ThreadNext]_threadAll
<1>1. CASE UNCHANGED vars
  BY <1>1 DEF vars, allVars, threadAll
<1> QED BY <1>1, MainIsBroker, DevicesAreThreads DEF Next

(* The process starts with both halves as they start.                       *)
LEMMA ProcessInit == Init => ProcessInv
<1> SUFFICES ASSUME Init PROVE ProcessInv
  OBVIOUS
<1>1. TypeInv /\ BrokerTypeOK
  BY TypeInit, BrokerTypeInit DEF Init
<1>2. LifeInv
  BY DEF Init, ThreadInit, ChannelsInit, LifeInv
<1>3. StageInv
  BY DEF Init, BrokerInit, StageInv
<1>4. WorldInv
  BY DEF Init, BrokerInit, ChannelsInit, WorldInv, Growing
<1> QED BY <1>1, <1>2, <1>3, <1>4 DEF ProcessInv

(* Each part of ProcessInv is inductive in its own half, so all of it is in *)
(* the process.                                                             *)
THEOREM ProcessInvariant == Spec => []ProcessInv
<1>1. ProcessInv /\ [Next]_vars => ProcessInv'
  BY StepIsBoth, TypeStep, BrokerTypeStep, LifeStep, StageStep, WorldStep DEF ProcessInv
<1> QED BY <1>1, ProcessInit, PTL DEF Spec

(* The process implements what the broker assumes of its audio threads.     *)
THEOREM ThreadsKeepToBroker == Spec => ThreadsKeepToBrokerSpec
<1>1. Init => BrokerInit
  BY DEF Init
<1>2. ProcessInv /\ [Next]_vars => [BrokerNext]_allVars
  BY StepIsBoth
<1> QED BY <1>1, <1>2, ProcessInvariant, PTL DEF Spec, ThreadsKeepToBrokerSpec, BrokerSpec, allVars

(* And what the audio threads assume of the broker.                         *)
THEOREM BrokerKeepsToThreads == Spec => BrokerKeepsToThreadSpec
<1>1. Init => ThreadInit
  BY DEF Init
<1>2. ProcessInv /\ [Next]_vars => [ThreadNext]_threadAll
  BY StepIsBoth
<1> QED BY <1>1, <1>2, ProcessInvariant, PTL DEF Spec, BrokerKeepsToThreadSpec, ThreadSpec, threadAll

(* The maps of a thread that runs agree on its peers, whatever joins and    *)
(* culls reach it in whatever order.                                        *)
THEOREM MapsAgreed == Spec => []MapsAgree
<1>1. Init => MapsInv
  BY DEF Init, ThreadInit, ChannelsInit, MapsInv, EmptyMap
<1>2. ProcessInv /\ MapsInv /\ [Next]_vars => MapsInv'
  BY StepIsBoth, MapsStep DEF ProcessInv
<1>3. MapsInv => MapsAgree
  BY DEF MapsInv, MapsAgree
<1> QED BY <1>1, <1>2, <1>3, ProcessInvariant, PTL DEF Spec

-----------------------------------------------------------------------------
(* The way out: from the callback over the thread and the broker to the     *)
(* peers.                                                                   *)

(* Of what a device recorded, last being the newest, q waits at the thread  *)
(* and p, which is older, at the broker; S is what has gone out, older yet. *)
LineInOrder(S, p, q, last) ==
  /\ Increasing(p) /\ Increasing(q)
  /\ Before(S, Range(p) \cup Range(q))
  /\ Before(Range(p), Range(q))
  /\ \A n \in S \cup Range(p) \cup Range(q) : n <= last

GoneOut(d) == {outgoing[p][d] : p \in Outbound}
RecordInv == \A d \in Device : LineInOrder(GoneOut(d), inputSock[d], rawSock[d], recorded[d])

(* A buffer is recorded: the newest number goes behind all others.          *)
LEMMA LineRecords ==
  ASSUME NEW S, NEW p \in Seq(1..MaxSeq), NEW q \in Seq(1..MaxSeq), NEW last \in Nat, last < MaxSeq,
         LineInOrder(S, p, q, last), S \subseteq Int
  PROVE  LineInOrder(S, p, Append(q, last + 1), last + 1)
<1> DEFINE T == 1..MaxSeq
<1>1. T \subseteq Int /\ p \in Seq(T) /\ q \in Seq(T) /\ last + 1 \in T
  BY ChannelsAssumption
<1> HIDE DEF T
<1>2. Range(p) \in SUBSET T /\ Range(q) \in SUBSET T
  BY <1>1, RangeOfSeq
<1>3. ASSUME NEW n \in S \cup Range(p) \cup Range(q) PROVE n < last + 1 /\ n <= last + 1
  <2>1. n \in Int /\ n <= last
    BY <1>1, <1>2 DEF LineInOrder
  <2> QED BY <2>1
<1>4. Increasing(Append(q, last + 1)) /\ Range(Append(q, last + 1)) = Range(q) \cup {last + 1}
  <2>1. Increasing(q) /\ Before(Range(q), {last + 1})
    BY <1>3 DEF LineInOrder, Before
  <2> QED BY <1>1, <2>1, IncreasingAppend
<1> DEFINE r == Append(q, last + 1)
<1> HIDE DEF r
<1>5. Increasing(r) /\ Range(r) = Range(q) \cup {last + 1}
  BY <1>4 DEF r
<1>6. /\ Before(S, Range(p) \cup Range(r)) /\ Before(Range(p), Range(r))
      /\ Increasing(p)
  BY <1>3, <1>5 DEF LineInOrder, Before
<1>7. \A n \in S \cup Range(p) \cup Range(r) : n <= last + 1
  BY <1>3, <1>5
<1> QED BY <1>5, <1>6, <1>7 DEF LineInOrder, r

(* The thread passes its oldest to the broker, or drops it.                 *)
LEMMA LinePasses ==
  ASSUME NEW S, NEW p \in Seq(1..MaxSeq), NEW q \in Seq(1..MaxSeq), NEW last, q # <<>>,
         LineInOrder(S, p, q, last)
  PROVE  /\ LineInOrder(S, Append(p, Head(q)), Tail(q), last)
         /\ LineInOrder(S, p, Tail(q), last)
<1> DEFINE T == 1..MaxSeq
<1>1. p \in Seq(T) /\ q \in Seq(T)
  OBVIOUS
<1> HIDE DEF T
<1>2. /\ Increasing(Tail(q)) /\ Head(q) \in T /\ Before({Head(q)}, Range(Tail(q)))
      /\ Range(q) = {Head(q)} \cup Range(Tail(q))
  BY <1>1, IncreasingTail DEF LineInOrder
<1>3. Increasing(p) /\ Before(Range(p), {Head(q)})
  BY <1>2 DEF LineInOrder, Before
<1>4. Increasing(Append(p, Head(q))) /\ Range(Append(p, Head(q))) = Range(p) \cup {Head(q)}
  BY <1>1, <1>2, <1>3, IncreasingAppend
<1> QED BY <1>2, <1>4 DEF LineInOrder, Before

(* The broker sends its oldest to the peers that take it.                   *)
LEMMA LineGoesOut ==
  ASSUME NEW S, NEW p \in Seq(1..MaxSeq), NEW q, NEW last, p # <<>>,
         LineInOrder(S, p, q, last), NEW S2 \in SUBSET (S \cup {Head(p)})
  PROVE  LineInOrder(S2, Tail(p), q, last)
<1>1. /\ Increasing(Tail(p)) /\ Before({Head(p)}, Range(Tail(p)))
      /\ Range(p) = {Head(p)} \cup Range(Tail(p))
  BY IncreasingTail DEF LineInOrder
<1> QED BY <1>1 DEF LineInOrder, Before

(* RecordInv is inductive, given the types.                                 *)
LEMMA RecordStep == ProcessInv /\ RecordInv /\ [Next]_vars => RecordInv'
<1> SUFFICES ASSUME ProcessInv, RecordInv, [Next]_vars, NEW e \in Device
             PROVE  LineInOrder(GoneOut(e), inputSock[e], rawSock[e], recorded[e])'
  BY DEF RecordInv
<1> DEFINE Order == LineInOrder(GoneOut(e), inputSock[e], rawSock[e], recorded[e])
<1>0. /\ inputSock \in [Device -> Seq(1..MaxSeq)] /\ rawSock \in [Device -> Seq(1..MaxSeq)]
      /\ recorded \in [Device -> 0..MaxSeq] /\ outgoing \in [Outbound -> [Device -> 0..MaxSeq]]
      /\ MaxSeq \in Nat
  BY ChannelsAssumption DEF ProcessInv, TypeInv, ThreadTypeOK, ChannelsTypeOK, BrokerTypeOK
<1>1. Order /\ GoneOut(e) \subseteq Int
  <2>1. Order
    BY DEF RecordInv
  <2>2. \A p \in Outbound : outgoing[p][e] \in Int
    BY <1>0
  <2> QED BY <2>1, <2>2 DEF GoneOut
<1>2. ASSUME UNCHANGED <<inputSock, rawSock, recorded, outgoing>> PROVE Order'
  BY <1>1, <1>2 DEF GoneOut
<1>3. ASSUME NEW d \in Device, ForwardInput(d), UNCHANGED threadVars PROVE Order'
  <2>1. /\ UNCHANGED <<rawSock, recorded>> /\ inputSock[d] # <<>>
        /\ inputSock' = [inputSock EXCEPT ![d] = Tail(@)]
    BY <1>3 DEF ForwardInput, threadVars
  <2>2. ASSUME NEW p \in Outbound
        PROVE  outgoing'[p][e] = outgoing[p][e] \/ (e = d /\ outgoing'[p][e] = Head(inputSock[d]))
    BY <1>0, <1>3 DEF ForwardInput, Taken
  <2>3. CASE e = d
    <3>1. GoneOut(e)' \in SUBSET (GoneOut(e) \cup {Head(inputSock[e])})
      BY <2>2, <2>3 DEF GoneOut
    <3> QED BY <1>0, <1>1, <2>1, <2>3, <3>1, LineGoesOut
  <2>4. CASE e # d
    <3>1. GoneOut(e)' = GoneOut(e)
      BY <2>2, <2>4 DEF GoneOut
    <3> QED BY <1>0, <1>1, <2>1, <2>4, <3>1
  <2> QED BY <2>3, <2>4
<1>4. ASSUME NEW d \in Device, UNCHANGED outgoing,
             EncodeRaw(d) \/ EncodeError(d) \/ CallbackSends(d) \/ Cleanup(d)
      PROVE  Order'
  <2>1. GoneOut(e)' = GoneOut(e)
    BY <1>4 DEF GoneOut
  <2>2. CASE e # d
    BY <1>0, <1>1, <1>4, <2>1, <2>2 DEF EncodeRaw, EncodeError, CallbackSends, Cleanup, channels
  <2>3. CASE e = d /\ (EncodeRaw(d) \/ EncodeError(d))
    <3>1. rawSock[e] # <<>>
      BY <2>3 DEF EncodeRaw, EncodeError, ProcessInv, TypeInv, ReadyHolds
    <3>2. /\ rawSock'[e] = Tail(rawSock[e]) /\ recorded' = recorded
          /\ inputSock'[e] = Append(inputSock[e], Head(rawSock[e])) \/ inputSock'[e] = inputSock[e]
      BY <1>0, <2>3 DEF EncodeRaw, EncodeError, channels
    <3> QED BY <1>0, <1>1, <2>1, <3>1, <3>2, LinePasses
  <2>4. CASE e = d /\ CallbackSends(d)
    <3>1. /\ recorded[e] \in Nat /\ recorded[e] < MaxSeq /\ inputSock' = inputSock
          /\ rawSock'[e] = Append(rawSock[e], recorded[e] + 1) /\ recorded'[e] = recorded[e] + 1
      BY <1>0, <2>4 DEF CallbackSends, channels, ProcessInv, TypeInv, ThreadTypeOK
    <3> QED BY <1>0, <1>1, <2>1, <3>1, LineRecords
  <2>5. CASE e = d /\ Cleanup(d)
    <3>1. Range(<<>>) = {} /\ Increasing(<<>>)
      BY DEF Range, Increasing
    <3>2. rawSock'[e] = <<>> /\ inputSock' = inputSock /\ recorded' = recorded
      BY <1>0, <2>5 DEF Cleanup
    <3> QED BY <1>1, <2>1, <3>1, <3>2 DEF LineInOrder, Before
  <2> QED BY <1>4, <2>2, <2>3, <2>4, <2>5
<1> HIDE DEF Order
<1>5. CASE MainThread \/ World
  <2>1. UNCHANGED threadVars
    BY <1>5 DEF MainThread, World
  <2>2. CASE \E d \in Device : ForwardInput(d)
    BY <1>3, <2>1, <2>2 DEF Order
  <2>3. CASE \/ Connected \/ PollSockets \/ Clean \/ Broadcast \/ SendShutdown \/ Terminate \/ Outside
             \/ \E c \in Client : AnswerIdent(c) \/ ReceiveAudio(c)
             \/ \E d \in Device : CloseCallbackSockets(d)
    <3>1. UNCHANGED <<inputSock, rawSock, recorded, outgoing>>
      BY <2>1, <2>3 DEF Connected, PollSockets, Clean, Broadcast, SendShutdown, Terminate, Outside,
        Tick, SigInt, PeerSends, PeerAsks, AnswerIdent, ReceiveAudio, CloseCallbackSockets,
        channels, brokerVars, threadVars
    <3> QED BY <1>2, <3>1 DEF Order
  <2> QED BY <1>5, <2>2, <2>3 DEF MainThread, World, BrokerLoop, ReadWorld, CloseNext, TerminateJoined
<1>6. CASE Devices
  <2>1. PICK d \in Device :
          Thread(d) \/ Callback(d) \/ EncodeError(d) \/ PollInterrupted(d) \/ CallbackCut(d)
    BY <1>6 DEF Devices, DeviceThreadsDo
  <2>2. outgoing' = outgoing
    BY <1>6 DEF Devices, brokerVars
  <2>3. CASE EncodeRaw(d) \/ EncodeError(d) \/ CallbackSends(d) \/ Cleanup(d)
    BY <1>4, <2>2, <2>3 DEF Order
  <2>4. CASE \/ InitSocks(d) \/ OpenStream(d) \/ Poll(d) \/ PollInterrupted(d) \/ ServeRequest(d)
             \/ HandleList(d) \/ HandleShutdown(d) \/ CallbackAsks(d) \/ CallbackPlays(d) \/ CallbackRecords(d)
             \/ CallbackCut(d)
             \/ \E s \in DOMAIN clientSocks[d] :
                  DecodeFrame(d, s) \/ DecodeError(d, s) \/ DecodeWithoutDecoder(d, s)
    <3>1. UNCHANGED <<inputSock, rawSock, recorded>>
      BY <2>4 DEF InitSocks, OpenStream, Poll, PollInterrupted, ServeRequest, HandleList, HandleShutdown,
        CallbackAsks, CallbackPlays, CallbackRecords, CallbackCut, DecodeFrame, DecodeError, DecodeWithoutDecoder,
        channels, stream
    <3> QED BY <1>2, <2>2, <3>1 DEF Order
  <2> QED BY <2>1, <2>3, <2>4 DEF Thread, Pass, ServeClient, Callback
<1>7. CASE UNCHANGED vars
  BY <1>2, <1>7 DEF vars, channels, brokerVars, threadVars, Order
<1> QED BY <1>5, <1>6, <1>7 DEF Next, Order

(* What is recorded goes out to every peer in the order of recording, each  *)
(* buffer at most once, whatever else the broker and the thread have to do. *)
THEOREM OutgoingOrdered == Spec => []OutgoingInOrder
<1>1. Init => RecordInv
  <2> SUFFICES ASSUME Init, NEW d \in Device
               PROVE  LineInOrder(GoneOut(d), inputSock[d], rawSock[d], recorded[d])
    BY DEF RecordInv
  <2>1. /\ inputSock[d] = <<>> /\ rawSock[d] = <<>> /\ recorded[d] = 0 /\ GoneOut(d) \subseteq {0}
    BY DEF Init, BrokerInit, ThreadInit, ChannelsInit, GoneOut
  <2>2. Range(<<>>) = {} /\ Increasing(<<>>)
    BY DEF Range, Increasing
  <2> QED BY <2>1, <2>2 DEF LineInOrder, Before
<1>2. ProcessInv /\ RecordInv /\ [Next]_vars => RecordInv'
  BY RecordStep
<1>3. RecordInv => OutgoingInOrder
  BY DEF RecordInv, LineInOrder, GoneOut, OutgoingInOrder, Before
<1> QED BY <1>1, <1>2, <1>3, ProcessInvariant, PTL DEF Spec

-----------------------------------------------------------------------------
(* What has been proved of the halves holds for the whole.                  *)

(* In a process, a silent peer is thrown out in time, nobody else is, and   *)
(* the audio threads have the broker's list, or have it waiting.            *)
THEOREM ProcessRoster == Spec => []RetentionBound /\ CulledOnlyWhenSilent /\ []ListCurrent
BY ThreadsKeepToBroker, Retention, CulledSilent, ListsCurrent, PTL DEF ThreadsKeepToBrokerSpec

(* In a process, every speaker plays each peer in order, nothing twice and  *)
(* nothing late, and no frame is decoded without a decoder, if no identity  *)
(* begins another.                                                          *)
THEOREM ProcessPlays == NoPrefixes => (Spec => ImplementsPlayout /\ []InOrder /\ []Running)
<1> SUFFICES ASSUME NoPrefixes PROVE Spec => ImplementsPlayout /\ []InOrder /\ []Running
  OBVIOUS
<1>1. ThreadSpec => ImplementsPlayout
  BY PlayoutRefined
<1>2. (ThreadSpec => []InOrder) /\ (ThreadSpec => []Running)
  BY OrderKept, NeverCrashes
<1> QED BY <1>1, <1>2, BrokerKeepsToThreads, PTL DEF BrokerKeepsToThreadSpec
============================================================================
