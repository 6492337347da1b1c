---------------------------- MODULE BrokerProofs ----------------------------
(***************************************************************************)
(* Proofs about Broker, for any peers, devices and bounds: a silent peer   *)
(* is thrown out in time, and nobody else is; types; every audio thread    *)
(* has the current list of clients, or has it waiting.  And what a whole   *)
(* process needs: nobody is told to end before SIGINT, and the frames of a *)
(* peer stay in order.                                                     *)
(***************************************************************************)
EXTENDS Broker, ChannelsProofs

allVars == <<channels, brokerVars>>

(* The steps that leave the roster, the clock and the stage alone.          *)
Elsewhere == UNCHANGED <<inbound, lastClean, now, ticked, stage>>

(* Most steps do not touch it.                                              *)
LEMMA ElsewhereSteps ==
  /\ \A c \in Client : PeerSends(c) \/ PeerAsks(c) \/ AnswerIdent(c) => Elsewhere
  /\ \A d \in Device : ForwardInput(d) \/ CloseCallbackSockets(d) => Elsewhere
  /\ SigInt \/ ThreadsDo \/ UNCHANGED allVars => Elsewhere
BY DEF PeerSends, PeerAsks, SigInt, AnswerIdent, ForwardInput, CloseCallbackSockets, ThreadsDo,
  ThreadConnects, ThreadTakesCommand, ThreadTakesFrame, ThreadSends, ThreadEnds, Elsewhere,
  allVars, roster, clock, brokerVars

(* Every step, sorted by what it does to the roster.                        *)
LEMMA RosterSteps ==
  ASSUME [BrokerNext]_allVars
  PROVE  \/ Elsewhere
         \/ Tick \/ Connected \/ PollSockets \/ Clean \/ Broadcast \/ SendShutdown \/ Terminate
         \/ \E c \in Client : ReceiveAudio(c)
BY ElsewhereSteps DEF BrokerNext, BrokerLoop, ReadWorld, Outside

(* At first nobody has been heard.                                          *)
LEMMA RetentionInit == BrokerInit => RetentionInv
BY DEF BrokerInit, RetentionInv, ClockInv, Looping, Heard, EmptyMap

(* RetentionInv is inductive: Clean restores what a tick takes.             *)
LEMMA RetentionStep == RetentionInv /\ [BrokerNext]_allVars => RetentionInv'
<1> SUFFICES ASSUME RetentionInv, [BrokerNext]_allVars PROVE RetentionInv'
  OBVIOUS
<1> USE BrokerAssumption
<1>1. CASE Elsewhere
  BY <1>1 DEF RetentionInv, ClockInv, Looping, Heard, Elsewhere
<1>2. CASE Tick
  BY <1>2 DEF Tick, RetentionInv, ClockInv, Looping, Heard, roster
<1>3. CASE Connected \/ SendShutdown \/ Terminate
  BY <1>3 DEF Connected, SendShutdown, Terminate, NextPass, RetentionInv, ClockInv, Looping, Heard,
    roster, clock
<1>4. CASE PollSockets
  BY <1>4 DEF PollSockets, RetentionInv, ClockInv, Looping, Heard, roster, clock
<1>5. CASE Broadcast
  BY <1>5 DEF Broadcast, NextPass, RetentionInv, ClockInv, Looping, Heard, clock
<1>6. CASE Clean
  <2>0. stage = "read" /\ stage' = "broadcast" /\ ticked' = FALSE /\ now' = now
    BY <1>6 DEF Clean
  <2>1. CASE now - lastClean > CleanPeriod
    <3>1. inbound' = [c \in {k \in Heard : ~Silent(k)} |-> inbound[c]] /\ lastClean' = now
      BY <1>6, <2>1 DEF Clean
    <3>2. \A c \in Heard' : c \in Heard /\ inbound'[c] = inbound[c] /\ ~Silent(c)
      BY <3>1 DEF Heard
    <3>3. \A c \in Heard' : inbound'[c] = inbound[c] /\ inbound[c] >= lastClean
                            /\ inbound[c] \in Nat /\ inbound[c] <= now
      BY <3>2 DEF Silent, RetentionInv, ClockInv
    <3>4. \A c \in Heard' : inbound[c] >= now - (CleanPeriod + 1)
      BY <2>0, <3>2, <3>3 DEF RetentionInv, ClockInv, Looping
    <3> QED BY <2>0, <3>1, <3>3, <3>4 DEF RetentionInv, ClockInv, Looping
  <2>2. CASE ~(now - lastClean > CleanPeriod)
    <3>1. UNCHANGED <<inbound, lastClean>>
      BY <1>6, <2>2 DEF Clean
    <3> QED BY <2>0, <2>2, <3>1 DEF RetentionInv, ClockInv, Looping, Heard
  <2> QED BY <2>1, <2>2
<1>7. ASSUME NEW c \in Client, ReceiveAudio(c) PROVE RetentionInv'
  <2>1. inbound' = [k \in Heard \cup {c} |-> IF k = c THEN now ELSE inbound[k]]
    BY <1>7 DEF ReceiveAudio, Stamped
  <2>2. UNCHANGED <<lastClean, now, ticked, stage>> /\ stage = "read"
    BY <1>7 DEF ReceiveAudio, clock
  <2> QED BY <2>1, <2>2 DEF RetentionInv, ClockInv, Looping, Heard
<1> QED BY RosterSteps, <1>1, <1>2, <1>3, <1>4, <1>5, <1>6, <1>7

(* RetentionInv, the inductive invariant, holds for all constants.          *)
THEOREM RetentionInvariant == BrokerSpec => []RetentionInv
<1>1. BrokerInit => RetentionInv
  BY RetentionInit
<1>2. RetentionInv /\ [BrokerNext]_allVars => RetentionInv'
  BY RetentionStep
<1> QED BY <1>1, <1>2, PTL DEF BrokerSpec, allVars

(* Whatever the peers, the devices and the order of the steps, a peer that  *)
(* has gone silent is thrown out within two periods and two ticks.          *)
THEOREM Retention == BrokerSpec => []RetentionBound
<1>1. RetentionInv => RetentionBound
  BY BrokerAssumption DEF RetentionInv, ClockInv, RetentionBound
<1> QED BY <1>1, RetentionInvariant, PTL

(* And nobody is thrown out who was heard within the last period.           *)
THEOREM CulledSilent == BrokerSpec => CulledOnlyWhenSilent
<1> DEFINE Culls == \A c \in Heard \ DOMAIN inbound' : now - inbound[c] > CleanPeriod
<1>1. RetentionInv /\ [BrokerNext]_allVars => [Culls]_allVars
  <2> SUFFICES ASSUME RetentionInv, [BrokerNext]_allVars PROVE Culls
    OBVIOUS
  <2>1. CASE Clean
    BY <2>1, BrokerAssumption DEF Clean, Silent, RetentionInv, ClockInv, Heard
  <2>2. CASE Elsewhere \/ Tick \/ Connected \/ PollSockets \/ Broadcast \/ SendShutdown \/ Terminate
    BY <2>2 DEF Elsewhere, Tick, Connected, PollSockets, Broadcast, SendShutdown, Terminate, Heard,
      roster
  <2>3. ASSUME NEW c \in Client, ReceiveAudio(c) PROVE Culls
    BY <2>3 DEF ReceiveAudio, Stamped, Heard
  <2> QED BY RosterSteps, <2>1, <2>2, <2>3
<1> QED BY <1>1, RetentionInvariant, PTL DEF BrokerSpec, CulledOnlyWhenSilent, allVars

-----------------------------------------------------------------------------
(* Types.                                                                   *)

(* The broker has nothing to forward at first.                              *)
LEMMA BrokerTypeInit == BrokerInit => BrokerTypeOK
<1> SUFFICES ASSUME BrokerInit PROVE BrokerTypeOK
  OBVIOUS
<1> USE ChannelsAssumption, BrokerAssumption
<1>1. DOMAIN EmptyMap = {}
  BY DEF EmptyMap
<1>2. ChannelsTypeOK
  BY <1>1 DEF BrokerInit, ChannelsInit, ChannelsTypeOK
<1>3. Heard = {}
  BY <1>1 DEF BrokerInit, Heard
<1>4. \A c \in Client : world[c] = <<>> /\ Len(world[c]) <= WorldCap
  BY DEF BrokerInit
<1>5. world \in [Client -> Seq(0..MaxSeq)]
  BY DEF BrokerInit
<1>6. /\ stage = "connect" /\ revents = {} /\ missed = {} /\ now = 0 /\ lastClean = 0
  BY DEF BrokerInit
<1>7. sent \in [Client -> 0..MaxSeq]
  BY DEF BrokerInit
<1>8. outgoing \in [Outbound -> [Device -> 0..MaxSeq]]
  BY DEF BrokerInit
<1>9. dirty \in BOOLEAN /\ ticked \in BOOLEAN
  BY Zenon DEF BrokerInit
<1>10. /\ stage \in {"connect", "poll", "read", "broadcast", "destroy", "join", "done"}
       /\ revents \subseteq {"world", "input"} /\ missed \subseteq Device
       /\ lastClean \in 0..now /\ now \in 0..MaxTime
       /\ Heard \subseteq Client /\ \A c \in Heard : inbound[c] \in 0..now
  BY <1>3, <1>6
<1> QED BY <1>2, <1>4, <1>5, <1>7, <1>8, <1>9, <1>10, Zenon DEF BrokerTypeOK

(* The peers, the clock and the signal.                                     *)
LEMMA OutsideTypes ==
  ASSUME BrokerTypeOK, Outside
  PROVE  BrokerTypeOK'
<1> USE ChannelsAssumption, BrokerAssumption DEF BrokerTypeOK, ChannelsTypeOK, channels, roster, clock, Heard
<1>1. CASE Tick
  BY <1>1 DEF Tick
<1>2. CASE SigInt
  BY <1>2 DEF SigInt, brokerVars
<1>3. ASSUME NEW c \in Client, PeerSends(c) PROVE BrokerTypeOK'
  <2> DEFINE T == 0..MaxSeq
             q == Offer(world[c], sent[c] + 1, WorldCap)
  <2>1. /\ world[c] \in Seq(T) /\ Len(world[c]) <= WorldCap /\ WorldCap \in Nat
        /\ sent[c] + 1 \in T
    BY <1>3 DEF PeerSends
  <2>2. q \in Seq(T) /\ Len(q) <= WorldCap
    <3> HIDE DEF T
    <3> QED BY <2>1, OfferFacts
  <2>3. /\ sent' = [sent EXCEPT ![c] = @ + 1]
        /\ world' = [world EXCEPT ![c] = q] \/ world' = world
        /\ UNCHANGED <<stage, revents, roster, clock, outgoing, channels>>
    BY <1>3 DEF PeerSends
  <2> HIDE DEF q
  <2>4. sent' \in [Client -> 0..MaxSeq]
    BY <2>1, <2>3
  <2>5. world' \in [Client -> Seq(0..MaxSeq)] /\ \A k \in Client : Len(world'[k]) <= WorldCap
    BY <2>2, <2>3
  <2> QED BY <2>3, <2>4, <2>5
<1>4. ASSUME NEW c \in Client, PeerAsks(c) PROVE BrokerTypeOK'
  <2>1. /\ Append(world[c], Ident) \in Seq(0..MaxSeq)
        /\ Len(Append(world[c], Ident)) = Len(world[c]) + 1 /\ Len(world[c]) \in Nat
    BY AppendFacts DEF Ident
  <2> QED BY <1>4, <2>1 DEF PeerAsks
<1> QED BY <1>1, <1>2, <1>3, <1>4 DEF Outside

(* The main thread.                                                         *)
LEMMA ReadTypes ==
  ASSUME BrokerTypeOK, NEW c \in Client, AnswerIdent(c) \/ ReceiveAudio(c)
  PROVE  BrokerTypeOK'
<1> USE ChannelsAssumption DEF BrokerTypeOK, Heard
<1>1. /\ world[c] \in Seq(0..MaxSeq) /\ world[c] # <<>> /\ Len(world[c]) <= WorldCap
      /\ world' = [world EXCEPT ![c] = Tail(@)]
  BY DEF AnswerIdent, ReceiveAudio
<1>2. /\ Tail(world[c]) \in Seq(0..MaxSeq) /\ Head(world[c]) \in 0..MaxSeq
      /\ Len(Tail(world[c])) = Len(world[c]) - 1 /\ Len(world[c]) \in Nat
  BY <1>1, TailFacts
<1>3. world' \in [Client -> Seq(0..MaxSeq)] /\ \A k \in Client : Len(world'[k]) <= WorldCap
  BY <1>1, <1>2, BrokerAssumption
<1>4. CASE AnswerIdent(c)
  BY <1>3, <1>4 DEF AnswerIdent, ChannelsTypeOK, channels, roster, clock
<1>5. CASE ReceiveAudio(c)
  <2>1. Head(world[c]) \in 1..MaxSeq
    BY <1>2, <1>5 DEF ReceiveAudio, Ident
  <2>2. ChannelsTypeOK'
    <3>1. /\ clientSocks' = Publish(c, Head(world[c]))
          /\ published' = [published EXCEPT ![c] = Head(world[c])]
          /\ UNCHANGED <<shouldRun, online, cmdSock, inputSock, closed>>
      BY <1>5 DEF ReceiveAudio
    <3>2. published' \in [Client -> 0..MaxSeq]
      BY <2>1, <3>1 DEF ChannelsTypeOK
    <3> QED BY <2>1, <3>1, <3>2, PublishType DEF ChannelsTypeOK
  <2>3. DOMAIN inbound' \subseteq Client /\ \A k \in DOMAIN inbound' : inbound'[k] \in 0..now'
    BY <1>5 DEF ReceiveAudio, Stamped, clock
  <2> QED BY <1>3, <1>5, <2>2, <2>3 DEF ReceiveAudio, clock
<1> QED BY <1>4, <1>5

(* A buffer of an input device, sent to the peers.                          *)
LEMMA ForwardTypes ==
  ASSUME BrokerTypeOK, NEW d \in Device, ForwardInput(d)
  PROVE  BrokerTypeOK'
<1> USE DEF BrokerTypeOK, ChannelsTypeOK, Heard
<1>1. inputSock[d] \in Seq(1..MaxSeq) /\ inputSock[d] # <<>> /\ Len(inputSock[d]) <= InCap
  BY DEF ForwardInput
<1>2. /\ Tail(inputSock[d]) \in Seq(1..MaxSeq) /\ Taken(d) \in 1..MaxSeq
      /\ Len(Tail(inputSock[d])) = Len(inputSock[d]) - 1 /\ Len(inputSock[d]) \in Nat
  BY <1>1, TailFacts DEF Taken
<1>3. inputSock' \in [Device -> Seq(1..MaxSeq)] /\ \A e \in Device : Len(inputSock'[e]) <= InCap
  BY <1>1, <1>2, ChannelsAssumption DEF ForwardInput
<1>4. outgoing' \in [Outbound -> [Device -> 0..MaxSeq]]
  BY <1>2, ChannelsAssumption DEF ForwardInput
<1> QED BY <1>3, <1>4 DEF ForwardInput, roster, clock

(* The rest of the loop, and the destructor.                                *)
LEMMA LoopTypes ==
  ASSUME BrokerTypeOK,
         Connected \/ PollSockets \/ Clean \/ Broadcast \/ SendShutdown \/ Terminate
           \/ \E d \in Device : CloseCallbackSockets(d)
  PROVE  BrokerTypeOK'
<1> USE DEF BrokerTypeOK, Heard
<1>1. CASE Connected \/ PollSockets \/ Terminate
  BY <1>1 DEF Connected, PollSockets, Terminate, NextPass, SocketsReadable, ChannelsTypeOK, channels,
    roster, clock
<1>2. CASE Clean
  <2>1. UNCHANGED <<revents, world, sent, now, missed, outgoing, channels>> /\ stage' = "broadcast"
    BY <1>2 DEF Clean
  <2>2. /\ ticked' = FALSE /\ dirty' \in BOOLEAN
        /\ lastClean' \in {lastClean, now}
        /\ \A c \in DOMAIN inbound' : c \in DOMAIN inbound /\ inbound'[c] = inbound[c]
    BY <1>2 DEF Clean
  <2>3. ChannelsTypeOK'
    BY <2>1 DEF ChannelsTypeOK, channels
  <2>4. lastClean' \in 0..now' /\ \A c \in DOMAIN inbound' : c \in Client /\ inbound'[c] \in 0..now'
    BY <2>1, <2>2, BrokerAssumption
  <2>5. UNCHANGED <<revents, world, sent, now, missed, outgoing>> /\ stage' = "broadcast"
    BY <2>1
  <2> QED BY <2>2, <2>3, <2>4, <2>5
<1>3. ASSUME NEW cmd \in Command,
             cmdSock' = [d \in Device |-> IF CmdAccepted(d) THEN Append(cmdSock[d], cmd) ELSE cmdSock[d]],
             UNCHANGED <<shouldRun, online, clientSocks, published, inputSock, closed>>
      PROVE  ChannelsTypeOK'
  <2>1. \A d \in Device : cmdSock'[d] \in Seq(Command) /\ Len(cmdSock'[d]) <= CmdCap
    BY <1>3, SentType DEF ChannelsTypeOK
  <2> QED BY <1>3, <2>1 DEF ChannelsTypeOK
<1>4. CASE Broadcast
  <2>1. CmdList(Heard) \in Command
    BY DEF Command
  <2>2. ChannelsTypeOK'
    BY <1>3, <1>4, <2>1 DEF Broadcast, ChannelsTypeOK
  <2> QED BY <1>4, <2>2 DEF Broadcast, NextPass, clock
<1>5. CASE SendShutdown
  <2>1. CmdShutdown \in Command
    BY DEF Command
  <2>2. ChannelsTypeOK'
    BY <1>3, <1>5, <2>1 DEF SendShutdown
  <2> QED BY <1>5, <2>2 DEF SendShutdown, roster, clock
<1>6. CASE \E d \in Device : CloseCallbackSockets(d)
  BY <1>6 DEF CloseCallbackSockets, ChannelsTypeOK, brokerVars
<1> QED BY <1>1, <1>2, <1>4, <1>5, <1>6

(* The audio threads.                                                       *)
LEMMA ThreadsTypes ==
  ASSUME BrokerTypeOK, ThreadsDo
  PROVE  BrokerTypeOK'
<1> USE ChannelsAssumption
<1>1. ASSUME UNCHANGED brokerVars, ChannelsTypeOK' PROVE BrokerTypeOK'
  BY <1>1 DEF BrokerTypeOK, brokerVars, Heard
<1>2. PICK d \in Device :
        \/ ThreadConnects(d) \/ ThreadTakesCommand(d) \/ ThreadSends(d) \/ ThreadEnds(d)
        \/ \E s \in Client : ThreadTakesFrame(d, s)
  BY DEF ThreadsDo
<1> USE DEF BrokerTypeOK
<1>3. CASE ThreadConnects(d)
  BY <1>1, <1>3 DEF ThreadConnects, ChannelsTypeOK
<1>4. CASE ThreadTakesCommand(d)
  <2>1. cmdSock[d] \in Seq(Command) /\ cmdSock[d] # <<>> /\ Len(cmdSock[d]) <= CmdCap
    BY <1>4 DEF ThreadTakesCommand, ChannelsTypeOK
  <2>2. /\ Tail(cmdSock[d]) \in Seq(Command) /\ Head(cmdSock[d]) \in Command
        /\ Len(Tail(cmdSock[d])) = Len(cmdSock[d]) - 1 /\ Len(cmdSock[d]) \in Nat
    BY <2>1, TailFacts
  <2>3. Head(cmdSock[d]).clients \in SUBSET Client
    BY <2>2 DEF Command, CmdList, CmdShutdown
  <2>4. /\ DOMAIN Resubscribed(d, Head(cmdSock[d]).clients) \subseteq Client
        /\ \A s \in DOMAIN Resubscribed(d, Head(cmdSock[d]).clients) :
             /\ Resubscribed(d, Head(cmdSock[d]).clients)[s] \in Seq(Frame)
             /\ Len(Resubscribed(d, Head(cmdSock[d]).clients)[s]) <= SubCap
    BY <2>3, ResubscribedType
  <2>5. cmdSock' \in [Device -> Seq(Command)] /\ \A e \in Device : Len(cmdSock'[e]) <= CmdCap
    BY <1>4, <2>1, <2>2 DEF ThreadTakesCommand, ChannelsTypeOK
  <2> QED BY <1>1, <1>4, <2>4, <2>5 DEF ThreadTakesCommand, ChannelsTypeOK
<1>5. CASE ThreadSends(d)
  <2>1. PICK n \in 1..MaxSeq : inputSock' = [inputSock EXCEPT ![d] = Append(@, n)]
    BY <1>5 DEF ThreadSends
  <2>2. /\ Append(inputSock[d], n) \in Seq(1..MaxSeq)
        /\ Len(Append(inputSock[d], n)) = Len(inputSock[d]) + 1 /\ Len(inputSock[d]) \in Nat
    BY AppendFacts DEF ChannelsTypeOK
  <2> QED BY <1>1, <1>5, <2>1, <2>2 DEF ThreadSends, ChannelsTypeOK
<1>6. CASE ThreadEnds(d)
  BY <1>1, <1>6 DEF ThreadEnds, ChannelsTypeOK, EmptyMap
<1>7. ASSUME NEW s \in Client, ThreadTakesFrame(d, s) PROVE BrokerTypeOK'
  <2>1. clientSocks[d][s] \in Seq(Frame) /\ clientSocks[d][s] # <<>> /\ Len(clientSocks[d][s]) <= SubCap
    BY <1>7 DEF ThreadTakesFrame, ChannelsTypeOK
  <2>2. /\ Tail(clientSocks[d][s]) \in Seq(Frame)
        /\ Len(Tail(clientSocks[d][s])) = Len(clientSocks[d][s]) - 1 /\ Len(clientSocks[d][s]) \in Nat
    BY <2>1, TailFacts
  <2>3. /\ clientSocks' = [clientSocks EXCEPT ![d][s] = Tail(@)]
        /\ UNCHANGED <<brokerVars, shouldRun, online, cmdSock, published, inputSock, closed>>
        /\ s \in DOMAIN clientSocks[d] /\ DOMAIN clientSocks = Device
    BY <1>7 DEF ThreadTakesFrame, ChannelsTypeOK
  <2>4. ASSUME NEW e \in Device, NEW t \in DOMAIN clientSocks'[e]
        PROVE  t \in Client /\ clientSocks'[e][t] \in Seq(Frame) /\ Len(clientSocks'[e][t]) <= SubCap
    <3>1. DOMAIN clientSocks'[e] = DOMAIN clientSocks[e]
      BY <2>3
    <3>2. clientSocks[e][t] \in Seq(Frame) /\ Len(clientSocks[e][t]) <= SubCap
      BY <3>1 DEF ChannelsTypeOK
    <3>3. CASE e = d /\ t = s
      BY <2>1, <2>2, <2>3, <3>3
    <3>4. CASE ~(e = d /\ t = s)
      BY <2>3, <3>1, <3>2, <3>4 DEF ChannelsTypeOK
    <3> QED BY <3>3, <3>4
  <2> QED BY <1>1, <2>3, <2>4 DEF ChannelsTypeOK
<1> QED BY <1>2, <1>3, <1>4, <1>5, <1>6, <1>7

(* BrokerTypeOK is inductive.                                               *)
LEMMA BrokerTypeStep == BrokerTypeOK /\ [BrokerNext]_allVars => BrokerTypeOK'
<1> SUFFICES ASSUME BrokerTypeOK, [BrokerNext]_allVars PROVE BrokerTypeOK'
  OBVIOUS
<1>1. CASE BrokerNext
  BY <1>1, OutsideTypes, ReadTypes, ForwardTypes, LoopTypes, ThreadsTypes
     DEF BrokerNext, BrokerLoop, ReadWorld
<1>2. CASE UNCHANGED allVars
  BY <1>2 DEF allVars, channels, brokerVars, BrokerTypeOK, ChannelsTypeOK, Heard
<1> QED BY <1>1, <1>2

(* The broker's variables and the channels keep their types: no queue grows *)
(* beyond its high water mark, no number is out of range.                   *)
THEOREM BrokerTypesCorrect == BrokerSpec => []BrokerTypeOK
<1>1. BrokerTypeOK /\ [BrokerNext]_allVars => BrokerTypeOK'
  BY BrokerTypeStep
<1> QED BY <1>1, BrokerTypeInit, PTL DEF BrokerSpec, allVars

-----------------------------------------------------------------------------
(* The client list: what an audio thread knows or will know when it has     *)
(* read the commands in q, if its client sockets are those for D.           *)
ListsIn(q) == {i \in 1..Len(q) : q[i].type = "CMD_CLIENTLIST"}
LastListIn(q) == CHOOSE i \in ListsIn(q) : \A j \in ListsIn(q) : j <= i
ViewOf(q, D) == IF ListsIn(q) = {} THEN D ELSE ListRead(q[LastListIn(q)].clients)

(* The last list is later in the queue than any other.                      *)
LEMMA LastListFacts ==
  ASSUME NEW q \in Seq(Command)
  PROVE  /\ ListsIn(q) # {} => LastListIn(q) \in ListsIn(q) /\ \A j \in ListsIn(q) : j <= LastListIn(q)
         /\ \A i \in ListsIn(q) : (\A j \in ListsIn(q) : j <= i) => LastListIn(q) = i
<1>1. Len(q) \in Nat /\ ListsIn(q) \subseteq 1..Len(q)
  BY LenProperties DEF ListsIn
<1>2. ASSUME ListsIn(q) # {}
      PROVE  LastListIn(q) \in ListsIn(q) /\ \A j \in ListsIn(q) : j <= LastListIn(q)
  <2>1. ListsIn(q) \subseteq 0..Len(q)
    BY <1>1
  <2>2. \E i \in ListsIn(q) : \A j \in ListsIn(q) : j <= i
    BY <1>1, <1>2, <2>1, LargestNumber
  <2> QED BY <2>2 DEF LastListIn
<1>3. ASSUME NEW i \in ListsIn(q), \A j \in ListsIn(q) : j <= i
      PROVE  LastListIn(q) = i
  <2>1. LastListIn(q) \in ListsIn(q) /\ i <= LastListIn(q) /\ LastListIn(q) <= i
    BY <1>2, <1>3
  <2> QED BY <1>1, <2>1
<1> QED BY <1>2, <1>3

(* A list that is sent is the one that will be known in the end, ...        *)
LEMMA ViewOfSent ==
  ASSUME NEW q \in Seq(Command), NEW D, NEW L \in SUBSET Client
  PROVE  ViewOf(Append(q, CmdList(L)), D) = ListRead(L)
<1> DEFINE r == Append(q, CmdList(L))
           n == Len(q) + 1
<1>1. CmdList(L) \in Command /\ CmdList(L).type = "CMD_CLIENTLIST" /\ CmdList(L).clients = L
  BY DEF Command, CmdList
<1>2. r \in Seq(Command) /\ Len(r) = n /\ Len(q) \in Nat /\ r[n] = CmdList(L)
  BY <1>1, AppendProperties, LenProperties
<1> HIDE DEF r
<1>3. n \in ListsIn(r) /\ \A j \in ListsIn(r) : j <= n
  BY <1>1, <1>2 DEF ListsIn
<1>4. LastListIn(r) = n
  BY <1>2, <1>3, LastListFacts
<1> QED BY <1>1, <1>2, <1>3, <1>4 DEF ViewOf, r

(* ... a shutdown changes nothing of that, ...                              *)
LEMMA ViewOfShutdown ==
  ASSUME NEW q \in Seq(Command), NEW D
  PROVE  ViewOf(Append(q, CmdShutdown), D) = ViewOf(q, D)
<1> DEFINE r == Append(q, CmdShutdown)
<1>1. CmdShutdown \in Command /\ CmdShutdown.type # "CMD_CLIENTLIST"
  BY DEF Command, CmdShutdown
<1>2. /\ r \in Seq(Command) /\ Len(r) = Len(q) + 1 /\ Len(q) \in Nat /\ r[Len(q) + 1] = CmdShutdown
      /\ \A i \in 1..Len(q) : r[i] = q[i]
  BY <1>1, AppendProperties, LenProperties
<1> HIDE DEF r
<1>3. ListsIn(r) = ListsIn(q)
  <2>1. \A i : i \in ListsIn(r) <=> i \in ListsIn(q)
    BY <1>1, <1>2 DEF ListsIn
  <2> QED BY <2>1
<1>4. LastListIn(r) = LastListIn(q)
  BY <1>3 DEF LastListIn
<1>5. ListsIn(q) # {} => LastListIn(q) \in 1..Len(q)
  BY LastListFacts DEF ListsIn
<1> QED BY <1>2, <1>3, <1>4, <1>5 DEF ViewOf, r

(* ... and to read a list is to know it.                                    *)
LEMMA ViewOfTail ==
  ASSUME NEW q \in Seq(Command), q # <<>>, NEW D, NEW D2,
         D2 = IF Head(q).type = "CMD_CLIENTLIST" THEN ListRead(Head(q).clients) ELSE D
  PROVE  ViewOf(Tail(q), D2) = ViewOf(q, D)
<1> DEFINE r == Tail(q)
<1>1. /\ r \in Seq(Command) /\ Len(r) = Len(q) - 1 /\ Len(q) \in Nat \ {0} /\ Head(q) = q[1]
      /\ \A i \in 1..(Len(q) - 1) : r[i] = q[i + 1]
  BY TailFacts
<1> HIDE DEF r
<1>2. \A i \in 1..(Len(q) - 1) : i \in ListsIn(r) <=> i + 1 \in ListsIn(q)
  BY <1>1 DEF ListsIn
<1>3. /\ ListsIn(r) \subseteq 1..(Len(q) - 1) /\ ListsIn(q) \subseteq 1..Len(q)
      /\ 1 \in ListsIn(q) <=> Head(q).type = "CMD_CLIENTLIST"
  BY <1>1 DEF ListsIn
<1>4. \A j \in ListsIn(q) : j # 1 => j - 1 \in 1..(Len(q) - 1) /\ (j - 1) + 1 = j
  BY <1>1, <1>3
<1>5. \A j \in ListsIn(q) : j # 1 => j - 1 \in ListsIn(r)
  BY <1>2, <1>4
<1>6. CASE ListsIn(r) = {}
  <2>1. ListsIn(q) \subseteq {1}
    BY <1>5, <1>6
  <2>2. CASE 1 \in ListsIn(q)
    <3>1. ListsIn(q) = {1}
      BY <2>1, <2>2
    <3>2. LastListIn(q) = 1
      BY <2>2, <3>1, LastListFacts
    <3> QED BY <1>1, <1>3, <1>6, <2>2, <3>2 DEF ViewOf, r
  <2>3. CASE 1 \notin ListsIn(q)
    BY <1>3, <1>6, <2>1, <2>3 DEF ViewOf, r
  <2> QED BY <2>2, <2>3
<1>7. CASE ListsIn(r) # {}
  <2> DEFINE k == LastListIn(r)
  <2>1. k \in ListsIn(r) /\ \A j \in ListsIn(r) : j <= k
    BY <1>1, <1>7, LastListFacts
  <2> HIDE DEF k
  <2>2. k \in 1..(Len(q) - 1) /\ k + 1 \in ListsIn(q)
    BY <1>2, <1>3, <2>1
  <2>3. ASSUME NEW j \in ListsIn(q) PROVE j <= k + 1
    <3>1. CASE j = 1
      BY <1>1, <2>2, <3>1
    <3>2. CASE j # 1
      <4>1. j - 1 <= k
        BY <1>5, <2>1, <3>2
      <4> QED BY <1>1, <1>3, <2>2, <4>1
    <3> QED BY <3>1, <3>2
  <2>4. LastListIn(q) = k + 1
    BY <2>2, <2>3, LastListFacts
  <2>5. r[k] = q[k + 1]
    BY <1>1, <2>2
  <2> QED BY <1>7, <2>2, <2>4, <2>5 DEF ViewOf, k, r
<1> QED BY <1>6, <1>7

(* The steps that leave the lists alone, on both sides of the channels.     *)
ListsRest ==
  /\ shouldRun' => shouldRun
  /\ missed' = missed
  /\ ~dirty' => ~dirty /\ Heard' = Heard
  /\ cmdSock' = cmdSock
  /\ \A d \in Device : DOMAIN clientSocks'[d] = DOMAIN clientSocks[d]

(* All steps but the two that send commands, and a thread's reading one and *)
(* ending.                                                                  *)
LEMMA ListsRestSteps ==
  ASSUME BrokerTypeOK,
         \/ Connected \/ PollSockets \/ Clean \/ Outside \/ Terminate \/ UNCHANGED allVars
         \/ \E c \in Client : AnswerIdent(c) \/ ReceiveAudio(c)
         \/ \E d \in Device : ForwardInput(d) \/ CloseCallbackSockets(d)
         \/ \E d \in Device : ThreadConnects(d) \/ ThreadSends(d)
         \/ \E d \in Device, s \in Client : ThreadTakesFrame(d, s)
  PROVE  ListsRest
<1> USE DEF ListsRest, Heard
<1>1. CASE Connected \/ PollSockets \/ Terminate \/ UNCHANGED allVars
  BY <1>1 DEF Connected, PollSockets, Terminate, roster, channels, brokerVars, allVars
<1>2. CASE Outside
  BY <1>2 DEF Outside, Tick, SigInt, PeerSends, PeerAsks, roster, channels, brokerVars
<1>3. CASE Clean
  <2>1. UNCHANGED <<missed, channels>>
    BY <1>3 DEF Clean
  <2>2. CASE now - lastClean > CleanPeriod
    <3>1. /\ inbound' = [c \in {k \in Heard : ~Silent(k)} |-> inbound[c]]
          /\ dirty' = (dirty \/ \E c \in Heard : Silent(c))
      BY <1>3, <2>2 DEF Clean
    <3>2. ASSUME ~dirty' PROVE ~dirty /\ Heard' = Heard
      BY <3>1, <3>2
    <3> QED BY <2>1, <3>2 DEF channels
  <2>3. CASE ~(now - lastClean > CleanPeriod)
    BY <1>3, <2>1, <2>3 DEF Clean, channels
  <2> QED BY <2>2, <2>3
<1>4. ASSUME NEW c \in Client, AnswerIdent(c) PROVE ListsRest
  BY <1>4 DEF AnswerIdent, roster, channels
<1>5. ASSUME NEW c \in Client, ReceiveAudio(c) PROVE ListsRest
  <2>1. /\ UNCHANGED <<shouldRun, cmdSock, missed>> /\ clientSocks' = Publish(c, Head(world[c]))
        /\ dirty' = (dirty \/ IsNew(c)) /\ inbound' = Stamped(c)
    BY <1>5 DEF ReceiveAudio
  <2>2. ~dirty' => ~dirty /\ Heard' = Heard
    BY <2>1 DEF IsNew, Stamped
  <2>3. \A d \in Device : DOMAIN clientSocks'[d] = DOMAIN clientSocks[d]
    BY <2>1 DEF Publish
  <2> QED BY <2>1, <2>2, <2>3
<1>6. ASSUME NEW d \in Device, ForwardInput(d) \/ CloseCallbackSockets(d) PROVE ListsRest
  BY <1>6 DEF ForwardInput, CloseCallbackSockets, roster, brokerVars
<1>7. ASSUME NEW d \in Device, ThreadConnects(d) \/ ThreadSends(d) PROVE ListsRest
  BY <1>7 DEF ThreadConnects, ThreadSends, brokerVars
<1>8. ASSUME NEW d \in Device, NEW s \in Client, ThreadTakesFrame(d, s) PROVE ListsRest
  BY <1>8 DEF ThreadTakesFrame, brokerVars, BrokerTypeOK, ChannelsTypeOK
<1> QED BY <1>1, <1>2, <1>3, <1>4, <1>5, <1>6, <1>7, <1>8

(* ListCurrent is inductive, given the types.                               *)
LEMMA ListStep ==
  ASSUME BrokerTypeOK, ListCurrent, [BrokerNext]_allVars
  PROVE  ListCurrent'
<1> DEFINE view(d) == ViewOf(cmdSock[d], DOMAIN clientSocks[d])
<1>0. /\ \A d \in Device : View(d) = view(d) /\ View(d)' = view(d)'
      /\ \A d \in Device : cmdSock[d] \in Seq(Command)
      /\ Heard \in SUBSET Client
  BY DEF View, Lists, ViewOf, ListsIn, LastListIn, BrokerTypeOK, ChannelsTypeOK
<1>1. CASE ListsRest
  BY <1>0, <1>1 DEF ListsRest, ListCurrent
<1>2. CASE Broadcast
  <2>1. shouldRun' = shouldRun /\ clientSocks' = clientSocks /\ Heard' = Heard
    BY <1>2 DEF Broadcast, Heard
  <2>2. CASE dirty
    <3>1. /\ cmdSock' = [d \in Device |->
               IF CmdAccepted(d) THEN Append(cmdSock[d], CmdList(Heard)) ELSE cmdSock[d]]
          /\ missed' = {d \in Device : ~CmdAccepted(d)}
      BY <1>2, <2>2 DEF Broadcast
    <3>2. ASSUME NEW d \in Device \ missed' PROVE view(d)' = ListRead(Heard)
      <4>1. cmdSock'[d] = Append(cmdSock[d], CmdList(Heard))
        BY <3>1
      <4> QED BY <1>0, <4>1, ViewOfSent
    <3> QED BY <1>0, <2>1, <3>2 DEF ListCurrent
  <2>3. CASE ~dirty
    <3>1. UNCHANGED <<cmdSock, missed>>
      BY <1>2, <2>3 DEF Broadcast
    <3> QED BY <1>0, <2>1, <2>3, <3>1 DEF ListCurrent
  <2> QED BY <2>2, <2>3
<1>3. CASE SendShutdown
  <2>1. UNCHANGED <<shouldRun, clientSocks, inbound, dirty, missed>>
    BY <1>3 DEF SendShutdown, roster
  <2>2. ASSUME NEW d \in Device PROVE view(d)' = view(d)
    <3>1. cmdSock'[d] = IF CmdAccepted(d) THEN Append(cmdSock[d], CmdShutdown) ELSE cmdSock[d]
      BY <1>3 DEF SendShutdown
    <3> QED BY <1>0, <2>1, <3>1, ViewOfShutdown
  <2> QED BY <1>0, <2>1, <2>2 DEF ListCurrent, Heard
<1>4. ASSUME NEW d \in Device, ThreadTakesCommand(d) PROVE ListCurrent'
  <2>1. /\ UNCHANGED <<shouldRun, inbound, dirty, missed>> /\ cmdSock[d] # <<>>
        /\ cmdSock' = [cmdSock EXCEPT ![d] = Tail(@)]
    BY <1>4 DEF ThreadTakesCommand, brokerVars
  <2>2. ASSUME NEW e \in Device PROVE view(e)' = view(e)
    <3>1. CASE e = d
      <4>1. cmdSock'[d] = Tail(cmdSock[d])
        BY <2>1 DEF BrokerTypeOK, ChannelsTypeOK
      <4>2. DOMAIN clientSocks'[d] =
              IF Head(cmdSock[d]).type = "CMD_CLIENTLIST"
              THEN ListRead(Head(cmdSock[d]).clients) ELSE DOMAIN clientSocks[d]
        BY <1>4 DEF ThreadTakesCommand, Resubscribed, BrokerTypeOK, ChannelsTypeOK
      <4> QED BY <1>0, <2>1, <3>1, <4>1, <4>2, ViewOfTail
    <3>2. CASE e # d
      BY <1>4, <2>1, <3>2 DEF ThreadTakesCommand, BrokerTypeOK, ChannelsTypeOK
    <3> QED BY <3>1, <3>2
  <2> QED BY <1>0, <2>1, <2>2 DEF ListCurrent, Heard
<1>5. ASSUME NEW d \in Device, ThreadEnds(d) PROVE ListCurrent'
  BY <1>5 DEF ThreadEnds, ListCurrent
<1> HIDE DEF view
<1> QED BY <1>1, <1>2, <1>3, <1>4, <1>5, ListsRestSteps
    DEF BrokerNext, BrokerLoop, ReadWorld, ThreadsDo

(* Whatever joins, falls silent or is read in whatever order: the list that *)
(* an audio thread has, or has waiting, is the broker's own, unless it was  *)
(* dropped on the way.                                                      *)
THEOREM ListsCurrent == BrokerSpec => []ListCurrent
<1>1. BrokerInit => ListCurrent
  <2> SUFFICES ASSUME BrokerInit, NEW d \in Device PROVE View(d) = ListRead(Heard)
    BY DEF ListCurrent
  <2>1. cmdSock[d] = <<>> /\ DOMAIN clientSocks[d] = {} /\ Heard = {}
    BY DEF BrokerInit, ChannelsInit, EmptyMap, Heard
  <2>2. Lists(d) = {}
    BY <2>1 DEF Lists
  <2> QED BY <2>1, <2>2 DEF View, ListRead
<1>2. BrokerTypeOK /\ ListCurrent /\ [BrokerNext]_allVars => ListCurrent'
  BY ListStep
<1> QED BY <1>1, <1>2, BrokerTypesCorrect, PTL DEF BrokerSpec, allVars

-----------------------------------------------------------------------------
(* What the audio threads may rely on.                                      *)

(* The destructor runs after SIGINT.                                        *)
StageInv == stage \in {"destroy", "join", "done"} => ~shouldRun

(* The frames that wait from a peer are newer than what has been published  *)
(* of it, each newer than the one before.                                   *)
Growing(q, low, high) ==
  \A i \in 1..Len(q) : q[i] # Ident =>
    /\ low < q[i] /\ q[i] <= high
    /\ \A j \in 1..Len(q) : i < j /\ q[j] # Ident => q[i] < q[j]
WorldInv == \A c \in Client : published[c] <= sent[c] /\ Growing(world[c], published[c], sent[c])

(* StageInv is inductive.                                                   *)
LEMMA StageStep == StageInv /\ [BrokerNext]_allVars => StageInv'
<1> SUFFICES ASSUME StageInv, [BrokerNext]_allVars PROVE StageInv'
  OBVIOUS
<1>1. ASSUME UNCHANGED <<stage, shouldRun>> PROVE StageInv'
  BY <1>1 DEF StageInv
<1>2. CASE Connected \/ Broadcast
  BY <1>2 DEF Connected, Broadcast, NextPass, StageInv, channels
<1>3. CASE PollSockets \/ Clean \/ SendShutdown \/ Terminate
  BY <1>3 DEF PollSockets, Clean, SendShutdown, Terminate, StageInv, channels
<1>4. CASE Outside
  BY <1>4 DEF Outside, Tick, SigInt, PeerSends, PeerAsks, StageInv, channels, brokerVars
<1>5. CASE ReadWorld
  BY <1>1, <1>5 DEF ReadWorld, AnswerIdent, ReceiveAudio, channels
<1>6. CASE \E d \in Device : ForwardInput(d) \/ CloseCallbackSockets(d)
  BY <1>1, <1>6 DEF ForwardInput, CloseCallbackSockets, brokerVars
<1>7. CASE ThreadsDo
  BY <1>1, <1>7 DEF ThreadsDo, ThreadConnects, ThreadTakesCommand, ThreadSends, ThreadEnds,
    ThreadTakesFrame, brokerVars
<1>8. CASE UNCHANGED allVars
  BY <1>1, <1>8 DEF allVars, channels, brokerVars
<1> QED BY <1>2, <1>3, <1>4, <1>5, <1>6, <1>7, <1>8 DEF BrokerNext, BrokerLoop

(* A frame number that waits is a number.                                   *)
LEMMA WaitingNumbers ==
  ASSUME NEW q \in Seq(0..MaxSeq)
  PROVE  Len(q) \in Nat /\ \A i \in 1..Len(q) : q[i] \in Int
<1> DEFINE T == 0..MaxSeq
<1>1. T \subseteq Int /\ q \in Seq(T)
  OBVIOUS
<1> HIDE DEF T
<1>2. \A i \in 1..Len(q) : q[i] \in T
  BY <1>1, ElementOfSeq
<1> QED BY <1>1, <1>2, LenProperties

(* What is sent goes behind what waits, ...                                 *)
LEMMA GrowingAppend ==
  ASSUME NEW q \in Seq(0..MaxSeq), NEW low \in Int, NEW high \in Int, Growing(q, low, high),
         NEW top \in Int, high <= top,
         NEW n \in 0..MaxSeq, n # Ident => high < n /\ low < n /\ n <= top
  PROVE  Growing(Append(q, n), low, top)
<1> DEFINE r == Append(q, n)
<1>0. /\ Len(r) = Len(q) + 1
      /\ \A i \in 1..Len(q) : r[i] = q[i]
      /\ r[Len(q) + 1] = n
  BY AppendProperties
<1>1. /\ Len(r) = Len(q) + 1 /\ Len(q) \in Nat
      /\ \A i \in 1..Len(q) : r[i] = q[i] /\ q[i] \in Int
      /\ r[Len(q) + 1] = n /\ n \in Int
  BY <1>0, WaitingNumbers
<1> HIDE DEF r
<1>2. SUFFICES ASSUME NEW i \in 1..Len(r), r[i] # Ident
               PROVE  /\ low < r[i] /\ r[i] <= top
                      /\ \A j \in 1..Len(r) : i < j /\ r[j] # Ident => r[i] < r[j]
  BY DEF Growing, r
<1>3. CASE i = Len(q) + 1
  BY <1>1, <1>2, <1>3
<1>4. CASE i \in 1..Len(q)
  <2>1. low < r[i] /\ r[i] <= high
    BY <1>1, <1>2, <1>4 DEF Growing
  <2>2. ASSUME NEW j \in 1..Len(r), i < j, r[j] # Ident PROVE r[i] < r[j]
    <3>1. CASE j \in 1..Len(q)
      BY <1>1, <1>2, <1>4, <2>2, <3>1 DEF Growing
    <3>2. CASE j = Len(q) + 1
      BY <1>1, <1>4, <2>1, <2>2, <3>2
    <3> QED BY <1>1, <3>1, <3>2
  <2> QED BY <1>1, <1>4, <2>1, <2>2
<1> QED BY <1>1, <1>3, <1>4

(* ... and what is read was the oldest.                                     *)
LEMMA GrowingTail ==
  ASSUME NEW q \in Seq(0..MaxSeq), q # <<>>, NEW low, NEW high, Growing(q, low, high)
  PROVE  /\ Growing(Tail(q), low, high)
         /\ Head(q) # Ident =>
              low < Head(q) /\ Head(q) <= high /\ Growing(Tail(q), Head(q), high)
<1>1. /\ Len(Tail(q)) = Len(q) - 1 /\ Len(q) \in Nat \ {0} /\ Head(q) = q[1]
      /\ \A i \in 1..(Len(q) - 1) : Tail(q)[i] = q[i + 1]
  BY TailFacts
<1>2. /\ 1 \in 1..Len(q)
      /\ \A i \in 1..(Len(q) - 1) : i + 1 \in 1..Len(q) /\ 1 < i + 1
      /\ \A i, j \in 1..(Len(q) - 1) : i < j => i + 1 < j + 1
  BY <1>1
<1>3. Growing(Tail(q), low, high)
  BY <1>1, <1>2 DEF Growing
<1>4. ASSUME Head(q) # Ident
      PROVE  low < Head(q) /\ Head(q) <= high /\ Growing(Tail(q), Head(q), high)
  BY <1>1, <1>2, <1>4 DEF Growing
<1> QED BY <1>3, <1>4

(* WorldInv is inductive: a socket of the broker keeps the order in which   *)
(* its peer has sent.                                                       *)
LEMMA WorldStep == BrokerTypeOK /\ WorldInv /\ [BrokerNext]_allVars => WorldInv'
<1> SUFFICES ASSUME BrokerTypeOK, WorldInv, [BrokerNext]_allVars PROVE WorldInv'
  OBVIOUS
<1>1. ASSUME UNCHANGED <<world, sent, published>> PROVE WorldInv'
  BY <1>1 DEF WorldInv
<1>2. ASSUME NEW c \in Client
      PROVE  /\ published[c] \in Int /\ sent[c] \in Int /\ published[c] <= sent[c]
             /\ world[c] \in Seq(0..MaxSeq) /\ Growing(world[c], published[c], sent[c])
  BY DEF WorldInv, BrokerTypeOK, ChannelsTypeOK
<1>3. /\ DOMAIN world = Client /\ DOMAIN sent = Client /\ DOMAIN published = Client
      /\ MaxSeq \in Nat
  BY ChannelsAssumption DEF BrokerTypeOK, ChannelsTypeOK
<1>4. ASSUME NEW c \in Client, PeerSends(c) PROVE WorldInv'
  <2> DEFINE n == sent[c] + 1
  <2>1. n \in 0..MaxSeq /\ n \in Int /\ n # Ident /\ sent[c] < n /\ published[c] < n
    <3>1. sent[c] \in 0..MaxSeq /\ sent[c] < MaxSeq
      BY <1>4 DEF PeerSends, BrokerTypeOK
    <3> QED BY <1>2, <1>3, <3>1 DEF Ident
  <2> HIDE DEF n
  <2>2. /\ Growing(world[c], published[c], n)
        /\ Growing(Append(world[c], n), published[c], n)
    <3>1. Growing(Append(world[c], n), published[c], n)
      BY <1>2, <2>1, GrowingAppend
    <3>2. \A i \in 1..Len(world[c]) : world[c][i] \in Int
      BY <1>2, WaitingNumbers
    <3>3. \A m \in Int : m <= sent[c] => m <= n
      BY <1>2, <2>1
    <3> QED BY <1>2, <3>1, <3>2, <3>3 DEF Growing
  <2>3. /\ sent' = [sent EXCEPT ![c] = n] /\ published' = published
        /\ world' = [world EXCEPT ![c] = Offer(@, n, WorldCap)] \/ world' = world
    BY <1>4 DEF PeerSends, channels, n
  <2>4. world'[c] = Append(world[c], n) \/ world'[c] = world[c]
    BY <1>3, <2>3 DEF Offer
  <2>5. \A k \in Client \ {c} : world'[k] = world[k] /\ sent'[k] = sent[k]
    BY <1>3, <2>3
  <2>6. sent'[c] = n /\ published'[c] <= n
    BY <1>2, <1>3, <2>1, <2>3
  <2>7. ASSUME NEW k \in Client PROVE published'[k] <= sent'[k] /\ Growing(world'[k], published'[k], sent'[k])
    BY <1>2, <2>2, <2>3, <2>4, <2>5, <2>6
  <2> QED BY <2>7 DEF WorldInv
<1>5. ASSUME NEW c \in Client, PeerAsks(c) PROVE WorldInv'
  <2>1. Growing(Append(world[c], Ident), published[c], sent[c])
    BY <1>2, <1>3, GrowingAppend DEF Ident
  <2> QED BY <1>2, <1>3, <1>5, <2>1 DEF PeerAsks, WorldInv, channels
<1>6. ASSUME NEW c \in Client, AnswerIdent(c) \/ ReceiveAudio(c) PROVE WorldInv'
  <2>1. world[c] # <<>> /\ world' = [world EXCEPT ![c] = Tail(@)] /\ sent' = sent
    BY <1>6 DEF AnswerIdent, ReceiveAudio
  <2>2. /\ Growing(Tail(world[c]), published[c], sent[c])
        /\ Head(world[c]) # Ident =>
             /\ published[c] < Head(world[c]) /\ Head(world[c]) <= sent[c]
             /\ Growing(Tail(world[c]), Head(world[c]), sent[c])
    BY <1>2, <2>1, GrowingTail
  <2>3. CASE AnswerIdent(c)
    BY <1>2, <1>3, <2>1, <2>2, <2>3 DEF AnswerIdent, WorldInv, channels
  <2>4. CASE ReceiveAudio(c)
    <3>1. Head(world[c]) # Ident /\ published' = [published EXCEPT ![c] = Head(world[c])]
      BY <2>4 DEF ReceiveAudio
    <3> QED BY <1>2, <1>3, <2>1, <2>2, <3>1 DEF WorldInv
  <2> QED BY <1>6, <2>3, <2>4
<1>7. CASE \/ Connected \/ PollSockets \/ Clean \/ Broadcast \/ SendShutdown \/ Terminate \/ Tick \/ SigInt
           \/ \E d \in Device : ForwardInput(d) \/ CloseCallbackSockets(d)
  BY <1>1, <1>7 DEF Connected, PollSockets, Clean, Broadcast, SendShutdown, Terminate, Tick, SigInt,
    ForwardInput, CloseCallbackSockets, channels, brokerVars
<1>8. CASE ThreadsDo
  BY <1>1, <1>8 DEF ThreadsDo, ThreadConnects, ThreadTakesCommand, ThreadSends, ThreadEnds,
    ThreadTakesFrame, brokerVars
<1>9. CASE UNCHANGED allVars
  BY <1>1, <1>9 DEF allVars, channels, brokerVars
<1> QED BY <1>4, <1>5, <1>6, <1>7, <1>8, <1>9 DEF BrokerNext, BrokerLoop, Outside, ReadWorld
====
