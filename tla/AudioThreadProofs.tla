------------------------- MODULE AudioThreadProofs -------------------------
(***************************************************************************)
(* Proofs about the audio threads behind any broker.  Types come first;    *)
(* then the order of the audio on its way from the sockets to the          *)
(* speaker, from which it follows that the flags are true, that no         *)
(* backlog is idle, that the threads implement Playout and that none       *)
(* crashes; last what a whole process needs of them.                       *)
(***************************************************************************)
EXTENDS AudioThread, ChannelsProofs, FiniteSetTheorems

threadAll == <<channels, threadVars>>

(* What the last poll reported is still there to be read.                   *)
ReadyHolds ==
  \A d \in Device :
    /\ "cmd" \in ready[d] => cmdSock[d] # <<>>
    /\ "raw" \in ready[d] => rawSock[d] # <<>>
    /\ \A s \in ready[d] \cap Client : s \in DOMAIN clientSocks[d] /\ clientSocks[d][s] # <<>>

TypeInv == ThreadTypeOK /\ ReadyHolds

(* The last frame of c in a buffer, if there is one, is heard.              *)
LEMMA LatestFacts ==
  ASSUME NEW frames, frames \subseteq Frame, NEW c \in Client, NEW h \in 0..MaxSeq
  PROVE  /\ NumbersOf(frames, c) \subseteq 1..MaxSeq
         /\ NumbersOf(frames, c) = {} => Latest(frames, c, h) = h
         /\ NumbersOf(frames, c) # {} =>
              /\ Latest(frames, c, h) \in NumbersOf(frames, c)
              /\ \A m \in NumbersOf(frames, c) : m <= Latest(frames, c, h)
         /\ Latest(frames, c, h) \in 0..MaxSeq
<1> DEFINE N == NumbersOf(frames, c)
<1>1. N \subseteq 1..MaxSeq
  BY DEF NumbersOf, Frame
<1>2. CASE N = {}
  BY <1>1, <1>2 DEF Latest
<1>3. CASE N # {}
  <2>1. \E n \in N : \A m \in N : m <= n
    BY <1>1, <1>3, LargestNumber, ChannelsAssumption
  <2>2. Latest(frames, c, h) = CHOOSE n \in N : \A m \in N : m <= n
    BY <1>3 DEF Latest
  <2>3. Latest(frames, c, h) \in N /\ \A m \in N : m <= Latest(frames, c, h)
    BY <2>1, <2>2
  <2> QED BY <1>1, <1>3, <2>3
<1> QED BY <1>2, <1>3

(* Before a thread runs everything has its type and nothing is ready.       *)
LEMMA TypeInit == ThreadInit => TypeInv
<1> SUFFICES ASSUME ThreadInit PROVE TypeInv
  OBVIOUS
<1> USE ChannelsAssumption, AudioThreadAssumption
<1>1. ChannelsTypeOK
  BY DEF ThreadInit, ChannelsInit, ChannelsTypeOK, EmptyMap
<1>2. ThreadTypeOK
  BY <1>1 DEF ThreadInit, ThreadTypeOK, EmptyMap
<1>3. ReadyHolds
  BY DEF ThreadInit, ReadyHolds
<1> QED BY <1>2, <1>3 DEF TypeInv

(* What a poll may report is what can be read.                              *)
LEMMA ReadableFacts ==
  ASSUME TypeInv, NEW d \in Device
  PROVE  /\ Readable(d) \subseteq {"mixed", "cmd", "raw"} \cup Client
         /\ "cmd" \in Readable(d) => cmdSock[d] # <<>>
         /\ "raw" \in Readable(d) => rawSock[d] # <<>>
         /\ \A s \in Readable(d) \cap Client : s \in DOMAIN clientSocks[d] /\ clientSocks[d][s] # <<>>
<1>1. DOMAIN clientSocks[d] \subseteq Client /\ Client \cap {"mixed", "cmd", "raw"} = {}
  BY AudioThreadAssumption DEF TypeInv, ThreadTypeOK, ChannelsTypeOK
<1> QED BY <1>1 DEF Readable

(* The sockets are opened, the stream is opened, and zmq::poll returns.     *)
LEMMA TypeStart ==
  ASSUME TypeInv, NEW d \in Device,
         InitSocks(d) \/ OpenStream(d) \/ Poll(d) \/ PollInterrupted(d)
  PROVE  TypeInv'
<1> USE DEF TypeInv, ThreadTypeOK, ChannelsTypeOK, ReadyHolds, mixer, stream, channels
<1>1. CASE InitSocks(d)
  BY <1>1 DEF InitSocks
<1>2. CASE OpenStream(d)
  BY <1>2 DEF OpenStream
<1>3. CASE Poll(d)
  <2>1. PICK S \in SUBSET Readable(d) : ready' = [ready EXCEPT ![d] = S]
    BY <1>3 DEF Poll
  <2>2. UNCHANGED <<status, mixer, stream, channels>>
    BY <1>3 DEF Poll
  <2>3. ThreadTypeOK'
    BY <2>1, <2>2, ReadableFacts
  <2>4. ASSUME NEW e \in Device
        PROVE  ready'[e] = IF e = d THEN S ELSE ready[e]
    BY <2>1
  <2>5. ReadyHolds'
    BY <2>2, <2>4, ReadableFacts
  <2> QED BY <2>3, <2>5
<1>4. CASE PollInterrupted(d)
  BY <1>4 DEF PollInterrupted
<1> QED BY <1>1, <1>2, <1>3, <1>4

(* The end of audio_thread, where its sockets and its maps go.              *)
LEMMA TypeCleanup ==
  ASSUME TypeInv, NEW d \in Device, Cleanup(d)
  PROVE  TypeInv'
<1> USE DEF TypeInv, ThreadTypeOK, ChannelsTypeOK, ReadyHolds
<1> USE ChannelsAssumption, AudioThreadAssumption
<1>1. ChannelsTypeOK'
  BY DEF Cleanup, EmptyMap
<1>2. ThreadTypeOK'
  BY <1>1 DEF Cleanup, EmptyMap
<1>3. ReadyHolds'
  BY DEF Cleanup
<1> QED BY <1>1, <1>2, <1>3

(* The answer to the callback: no frame comes out of an empty backlog.      *)
LEMMA TypeRequest ==
  ASSUME TypeInv, NEW d \in Device, ServeRequest(d)
  PROVE  TypeInv'
<1> USE DEF TypeInv
<1>1. /\ chunks[d] \in [Client -> Seq(1..MaxSeq)] /\ mix[d] \subseteq Frame
      /\ DOMAIN mixedIn[d] \subseteq Client /\ mixedIn[d] \in [DOMAIN mixedIn[d] -> BOOLEAN]
  BY DEF ThreadTypeOK
<1>0. ASSUME NEW c \in Backlogged(d)
      PROVE  c \in Client /\ Head(chunks[d][c]) \in 1..MaxSeq /\ Tail(chunks[d][c]) \in Seq(1..MaxSeq)
  BY <1>1, TailFacts DEF Backlogged
<1>2. {[from |-> c, seq |-> Head(chunks[d][c])] : c \in Backlogged(d)} \subseteq Frame
  BY <1>0 DEF Frame
<1>3. ChunksLeft(d) \in [Client -> Seq(1..MaxSeq)]
  BY <1>0, <1>1 DEF ChunksLeft
<1>4. DOMAIN MixedInNext(d) \subseteq Client /\ MixedInNext(d) \in [DOMAIN MixedInNext(d) -> BOOLEAN]
  BY <1>1 DEF MixedInNext
<1>5. UNCHANGED <<status, decoders, heard, rawSock, recorded, direction, channels>>
  BY DEF ServeRequest
<1>6. ChannelsTypeOK'
  BY <1>5 DEF ThreadTypeOK, ChannelsTypeOK, channels
<1>7. ThreadTypeOK'
  BY <1>1, <1>2, <1>3, <1>4, <1>5, <1>6 DEF ServeRequest, ThreadTypeOK
<1>8. ReadyHolds'
  BY <1>5, AudioThreadAssumption DEF ServeRequest, ReadyHolds, ThreadTypeOK, channels
<1> QED BY <1>7, <1>8

(* A command is read: no map gets a key that is not a peer.                 *)
LEMMA TypeCommand ==
  ASSUME TypeInv, NEW d \in Device, HandleList(d) \/ HandleShutdown(d)
  PROVE  TypeInv'
<1> USE DEF TypeInv
<1>1. cmdSock[d] \in Seq(Command) /\ cmdSock[d] # <<>> /\ Len(cmdSock[d]) <= CmdCap
  BY DEF HandleList, HandleShutdown, CmdTurn, ThreadTypeOK, ChannelsTypeOK, ReadyHolds
<1>2. Tail(cmdSock[d]) \in Seq(Command) /\ Len(Tail(cmdSock[d])) <= CmdCap
  BY <1>1, TailFacts, ChannelsAssumption
<1>3. Head(cmdSock[d]).clients \subseteq Client
  BY <1>1, TailFacts DEF Command, CmdList, CmdShutdown
<1>4. CASE HandleList(d)
  <2>1. Listed(d) \subseteq Client /\ Kicked(d) \subseteq Client /\ Joined(d) \subseteq Client
    BY <1>3 DEF Listed, ListRead, Kicked, Joined, ThreadTypeOK, ChannelsTypeOK
  <2>2. ChannelsTypeOK'
    BY <1>2, <1>3, <1>4, ResubscribedType DEF HandleList, ThreadTypeOK, ChannelsTypeOK
  <2>3. /\ DOMAIN FlagsKept(d) \subseteq Client
        /\ FlagsKept(d) \in [DOMAIN FlagsKept(d) -> BOOLEAN]
    BY <2>1 DEF FlagsKept, ThreadTypeOK
  <2>4. ChunksKept(d) \in [Client -> Seq(1..MaxSeq)]
    <3>1. <<>> \in Seq(1..MaxSeq) /\ chunks[d] \in [Client -> Seq(1..MaxSeq)]
      BY DEF ThreadTypeOK
    <3> QED BY <3>1 DEF ChunksKept
  <2>5. ThreadTypeOK'
    BY <1>4, <2>1, <2>2, <2>3, <2>4 DEF HandleList, ThreadTypeOK, stream
  <2>6. ReadyHolds'
    BY <1>4, AudioThreadAssumption DEF HandleList, ReadyHolds, ThreadTypeOK, ChannelsTypeOK, stream
  <2> QED BY <2>5, <2>6
<1>5. CASE HandleShutdown(d)
  <2>1. ChannelsTypeOK'
    BY <1>2, <1>5 DEF HandleShutdown, ThreadTypeOK, ChannelsTypeOK
  <2>2. ThreadTypeOK'
    BY <1>5, <2>1 DEF HandleShutdown, LastPass, ThreadTypeOK, mixer, stream
  <2>3. ReadyHolds'
    BY <1>5, AudioThreadAssumption
    DEF HandleShutdown, ReadyHolds, ThreadTypeOK, ChannelsTypeOK, mixer, stream
  <2> QED BY <2>2, <2>3
<1> QED BY <1>4, <1>5

(* A buffer of the callback goes to the broker, or is dropped.              *)
LEMMA TypeRaw ==
  ASSUME TypeInv, NEW d \in Device, EncodeRaw(d) \/ EncodeError(d)
  PROVE  TypeInv'
<1> USE DEF TypeInv
<1>1. rawSock[d] \in Seq(1..MaxSeq) /\ rawSock[d] # <<>> /\ Len(rawSock[d]) <= RawCap
  BY DEF EncodeRaw, EncodeError, ThreadTypeOK, ReadyHolds
<1>2. /\ Tail(rawSock[d]) \in Seq(1..MaxSeq) /\ Len(Tail(rawSock[d])) <= RawCap
      /\ Head(rawSock[d]) \in 1..MaxSeq
  <2>1. /\ Tail(rawSock[d]) \in Seq(1..MaxSeq) /\ Len(Tail(rawSock[d])) = Len(rawSock[d]) - 1
        /\ Len(rawSock[d]) \in Nat /\ Head(rawSock[d]) \in 1..MaxSeq
    BY <1>1, TailFacts
  <2> QED BY <1>1, <2>1, AudioThreadAssumption
<1>3. ChannelsTypeOK'
  <2>1. CASE EncodeRaw(d)
    <3>1. inputSock[d] \in Seq(1..MaxSeq) /\ Len(inputSock[d]) < InCap
      BY <2>1 DEF EncodeRaw, ThreadTypeOK, ChannelsTypeOK
    <3>2. /\ Append(inputSock[d], Head(rawSock[d])) \in Seq(1..MaxSeq)
          /\ Len(Append(inputSock[d], Head(rawSock[d]))) <= InCap
      BY <1>2, <3>1, AppendFacts, ChannelsAssumption
    <3> QED BY <2>1, <3>2 DEF EncodeRaw, ThreadTypeOK, ChannelsTypeOK
  <2>2. CASE EncodeError(d)
    BY <2>2 DEF EncodeError, ThreadTypeOK, ChannelsTypeOK, channels
  <2> QED BY <2>1, <2>2
<1>4. /\ rawSock' = [rawSock EXCEPT ![d] = Tail(@)] /\ ready' = [ready EXCEPT ![d] = @ \ {"raw"}]
      /\ UNCHANGED <<status, mixer, callback, reply, heard, recorded, direction, cmdSock, clientSocks>>
  BY DEF EncodeRaw, EncodeError, channels
<1>5. ThreadTypeOK'
  BY <1>2, <1>3, <1>4 DEF ThreadTypeOK, mixer
<1>6. ReadyHolds'
  BY <1>4, AudioThreadAssumption DEF ReadyHolds, ThreadTypeOK
<1> QED BY <1>5, <1>6

(* A frame is read from a client socket.                                    *)
LEMMA TypeFrame ==
  ASSUME TypeInv, NEW d \in Device, NEW s \in DOMAIN clientSocks[d],
         DecodeFrame(d, s) \/ DecodeError(d, s) \/ DecodeWithoutDecoder(d, s)
  PROVE  TypeInv'
<1> USE DEF TypeInv
<1>1. s \in Client /\ clientSocks[d][s] \in Seq(Frame) /\ Len(clientSocks[d][s]) <= SubCap
  BY DEF ThreadTypeOK, ChannelsTypeOK
<1>2. clientSocks[d][s] # <<>>
  BY <1>1 DEF DecodeFrame, DecodeError, DecodeWithoutDecoder, Turn, ReadyHolds
<1>3. /\ Tail(clientSocks[d][s]) \in Seq(Frame) /\ Len(Tail(clientSocks[d][s])) <= SubCap
      /\ Received(d, s) \in Frame
  BY <1>1, <1>2, TailFacts, ChannelsAssumption DEF Received
<1>4. CASE DecodeWithoutDecoder(d, s)
  BY <1>4 DEF DecodeWithoutDecoder, ThreadTypeOK, ChannelsTypeOK, ReadyHolds, mixer, channels
<1>5. CASE TakeFrame(d, s) /\ UNCHANGED <<shouldRun, online, cmdSock, published, inputSock, closed>>
  <2>1. ChannelsTypeOK'
    <3>1. DOMAIN clientSocks' = Device
      BY <1>5 DEF TakeFrame, ThreadTypeOK, ChannelsTypeOK
    <3>2. ASSUME NEW e \in Device PROVE DOMAIN clientSocks'[e] = DOMAIN clientSocks[e]
      BY <1>5 DEF TakeFrame, ThreadTypeOK, ChannelsTypeOK
    <3>3. ASSUME NEW e \in Device, NEW t \in DOMAIN clientSocks[e]
          PROVE  clientSocks'[e][t] \in Seq(Frame) /\ Len(clientSocks'[e][t]) <= SubCap
      <4>1. clientSocks'[e][t] = IF e = d /\ t = s THEN Tail(clientSocks[d][s]) ELSE clientSocks[e][t]
        BY <1>5, <1>1 DEF TakeFrame, ThreadTypeOK, ChannelsTypeOK
      <4> QED BY <4>1, <1>3 DEF ThreadTypeOK, ChannelsTypeOK
    <3> QED BY <1>5, <3>1, <3>2, <3>3 DEF ThreadTypeOK, ChannelsTypeOK
  <2>2. CASE DecodeError(d, s)
    <3>1. ThreadTypeOK'
      BY <2>1, <2>2 DEF DecodeError, ThreadTypeOK, mixer, stream
    <3>2. ReadyHolds'
      BY <2>2 DEF DecodeError, TakeFrame, ReadyHolds, ThreadTypeOK, ChannelsTypeOK, mixer, stream
    <3> QED BY <3>1, <3>2
  <2>3. CASE DecodeFrame(d, s)
    <3> DEFINE f == Received(d, s)
    <3>0. f.from \in Client /\ f.seq \in 1..MaxSeq /\ f \in Frame
      BY <1>3 DEF Frame
    <3>b. /\ ready' = [ready EXCEPT ![d] = @ \ {s}] /\ TakeFrame(d, s)
          /\ UNCHANGED <<status, decoders, leavers, stream, cmdSock>>
      BY <2>3 DEF DecodeFrame
    <3>c. /\ ready' \in [Device -> SUBSET ({"mixed", "cmd", "raw"} \cup Client)]
          /\ UNCHANGED <<direction, status, decoders, leavers, callback, reply, heard, rawSock, recorded>>
      BY <3>b DEF ThreadTypeOK, stream
    <3>1. ASSUME /\ chunks' = [chunks EXCEPT ![d][f.from] = Append(@, f.seq)]
                 /\ UNCHANGED <<mix, mixedIn>>
          PROVE  ThreadTypeOK'
      <4> DEFINE q == Append(chunks[d][f.from], f.seq)
      <4>1. q \in Seq(1..MaxSeq)
        BY <3>0, AppendFacts DEF ThreadTypeOK
      <4>2. chunks' = [chunks EXCEPT ![d][f.from] = q]
        BY <3>1
      <4> HIDE DEF q, f
      <4>3. [chunks[d] EXCEPT ![f.from] = q] \in [Client -> Seq(1..MaxSeq)]
        BY <4>1, <3>0 DEF ThreadTypeOK
      <4>4. chunks' \in [Device -> [Client -> Seq(1..MaxSeq)]]
        BY <4>2, <4>3 DEF ThreadTypeOK
      <4>5. UNCHANGED <<mix, mixedIn>>
        BY <3>1
      <4> QED BY <2>1, <3>c, <4>4, <4>5 DEF ThreadTypeOK
    <3>2. ASSUME /\ mix' = [mix EXCEPT ![d] = @ \cup {f}]
                 /\ mixedIn' = [mixedIn EXCEPT ![d] =
                      [k \in DOMAIN @ \cup {f.from} |-> IF k = f.from THEN TRUE ELSE @[k]]]
                 /\ UNCHANGED chunks
          PROVE  ThreadTypeOK'
      <4> DEFINE flags == [k \in DOMAIN mixedIn[d] \cup {f.from} |-> IF k = f.from THEN TRUE ELSE mixedIn[d][k]]
      <4>1. DOMAIN flags \subseteq Client /\ flags \in [DOMAIN flags -> BOOLEAN]
        BY <3>0 DEF ThreadTypeOK
      <4>2. mixedIn' = [mixedIn EXCEPT ![d] = flags]
        BY <3>2
      <4> HIDE DEF f, flags
      <4>3. mix' \in [Device -> SUBSET Frame]
        BY <3>0, <3>2 DEF ThreadTypeOK
      <4>4. /\ DOMAIN mixedIn' = Device
            /\ \A e \in Device :
                 DOMAIN mixedIn'[e] \subseteq Client /\ mixedIn'[e] \in [DOMAIN mixedIn'[e] -> BOOLEAN]
        BY <4>1, <4>2 DEF ThreadTypeOK
      <4>5. chunks' \in [Device -> [Client -> Seq(1..MaxSeq)]]
        BY <3>2 DEF ThreadTypeOK
      <4> QED BY <2>1, <3>c, <4>3, <4>4, <4>5 DEF ThreadTypeOK
    <3>4. ThreadTypeOK'
      BY <2>3, <3>1, <3>2 DEF DecodeFrame
    <3>5. ReadyHolds'
      <4>1. s \notin {"cmd", "raw"}
        BY <1>1, AudioThreadAssumption
      <4> QED BY <3>b, <4>1
          DEF TakeFrame, ReadyHolds, ThreadTypeOK, ChannelsTypeOK, stream
    <3> QED BY <3>4, <3>5
  <2> QED BY <1>4, <2>2, <2>3
<1> QED BY <1>4, <1>5 DEF DecodeFrame, DecodeError

(* The callback of PortAudio.                                               *)
LEMMA TypeCallback ==
  ASSUME TypeInv, NEW d \in Device,
         \/ CallbackAsks(d) \/ CallbackPlays(d) \/ CallbackCut(d)
         \/ CallbackRecords(d) \/ CallbackSends(d)
  PROVE  TypeInv'
<1> USE DEF TypeInv
<1>1. ChannelsTypeOK'
  BY DEF CallbackAsks, CallbackPlays, CallbackCut, CallbackRecords, CallbackSends, ThreadTypeOK,
         ChannelsTypeOK, channels
<1>2. CASE CallbackAsks(d)
  BY <1>1, <1>2 DEF CallbackAsks, ThreadTypeOK, ReadyHolds, mixer, channels
<1>3. CASE CallbackCut(d)
  BY <1>1, <1>3 DEF CallbackCut, ThreadTypeOK, ReadyHolds, mixer, channels
<1>4. CASE CallbackPlays(d)
  <2>1. ASSUME NEW c \in Client
        PROVE  Latest(reply[d], c, heard[d][c]) \in 0..MaxSeq
    <3>1. reply[d] \subseteq Frame /\ heard[d][c] \in 0..MaxSeq
      BY DEF ThreadTypeOK
    <3> QED BY <3>1, LatestFacts
  <2>2. heard' \in [Device -> [Client -> 0..MaxSeq]]
    BY <1>4, <2>1 DEF CallbackPlays, ThreadTypeOK
  <2>3. ThreadTypeOK'
    BY <1>1, <1>4, <2>2 DEF CallbackPlays, ThreadTypeOK, mixer
  <2> QED BY <2>3, <1>4 DEF CallbackPlays, ReadyHolds, channels
<1>5. CASE CallbackRecords(d)
  BY <1>1, <1>5 DEF CallbackRecords, ThreadTypeOK, ReadyHolds, mixer, channels
<1>6. CASE CallbackSends(d)
  <2>1. /\ rawSock[d] \in Seq(1..MaxSeq) /\ Len(rawSock[d]) < RawCap
        /\ recorded[d] \in 0..MaxSeq /\ recorded[d] < MaxSeq
    BY <1>6 DEF CallbackSends, ThreadTypeOK
  <2>2. recorded[d] + 1 \in 1..MaxSeq
    BY <2>1, ChannelsAssumption
  <2>3. /\ Append(rawSock[d], recorded[d] + 1) \in Seq(1..MaxSeq)
        /\ Append(rawSock[d], recorded[d] + 1) # <<>>
        /\ Len(Append(rawSock[d], recorded[d] + 1)) = Len(rawSock[d]) + 1
        /\ Len(rawSock[d]) \in Nat
    BY <2>1, <2>2, AppendFacts
  <2>4. Len(Append(rawSock[d], recorded[d] + 1)) <= RawCap
    BY <2>1, <2>3, AudioThreadAssumption
  <2>5. ThreadTypeOK'
    BY <1>1, <1>6, <2>2, <2>3, <2>4 DEF CallbackSends, ThreadTypeOK, mixer
  <2> QED BY <2>3, <2>5, <1>6 DEF CallbackSends, ReadyHolds, channels, ThreadTypeOK
<1> QED BY <1>2, <1>3, <1>4, <1>5, <1>6

(* What the broker does with its ends of the channels.                      *)
LEMMA TypeBroker ==
  ASSUME TypeInv, BrokerDoes
  PROVE  TypeInv'
<1> USE DEF TypeInv
<1>1. ChannelsTypeOK
  BY DEF ThreadTypeOK
<1>2. ASSUME ChannelsTypeOK', UNCHANGED threadVars PROVE ThreadTypeOK'
  BY <1>2 DEF ThreadTypeOK, threadVars
<1>3. ASSUME NEW cmd \in Command, Sends(cmd) PROVE TypeInv'
  <2>1. cmdSock' \in [Device -> Seq(Command)] /\ \A d \in Device : Len(cmdSock'[d]) <= CmdCap
    BY <1>1, <1>3, SentType DEF Sends, ChannelsTypeOK
  <2>2. ChannelsTypeOK'
    BY <1>1, <1>3, <2>1 DEF Sends, ChannelsTypeOK
  <2>3. ASSUME NEW d \in Device, cmdSock[d] # <<>> PROVE cmdSock'[d] # <<>>
    BY <1>1, <1>3, <2>3, AppendFacts DEF Sends, ChannelsTypeOK
  <2> QED BY <1>2, <1>3, <2>2, <2>3 DEF Sends, ReadyHolds, threadVars
<1>4. CmdShutdown \in Command /\ \A L \in SUBSET Client : CmdList(L) \in Command
  BY DEF Command
<1>5. ASSUME NEW c \in Client, BrokerPublishes(c) PROVE TypeInv'
  <2>1. PICK n \in (published[c] + 1)..MaxSeq :
          /\ clientSocks' = Publish(c, n) /\ published' = [published EXCEPT ![c] = n]
          /\ UNCHANGED <<threadVars, shouldRun, online, cmdSock, inputSock, closed>>
    BY <1>5 DEF BrokerPublishes
  <2>2. published[c] \in 0..MaxSeq /\ n \in 1..MaxSeq
    BY <1>1, <2>1, ChannelsAssumption DEF ChannelsTypeOK
  <2>3. published' \in [Client -> 0..MaxSeq]
    BY <1>1, <2>1, <2>2 DEF ChannelsTypeOK
  <2>4. ChannelsTypeOK'
    BY <1>1, <2>1, <2>2, <2>3, PublishType DEF ChannelsTypeOK
  <2> QED BY <1>1, <1>2, <2>1, <2>2, <2>4, PublishType DEF ReadyHolds, threadVars
<1>6. ASSUME NEW d \in Device, BrokerTakesInput(d) PROVE TypeInv'
  <2>1. inputSock[d] \in Seq(1..MaxSeq) /\ inputSock[d] # <<>> /\ Len(inputSock[d]) <= InCap
    BY <1>1, <1>6 DEF BrokerTakesInput, ChannelsTypeOK
  <2>2. /\ Tail(inputSock[d]) \in Seq(1..MaxSeq) /\ Len(Tail(inputSock[d])) = Len(inputSock[d]) - 1
        /\ Len(inputSock[d]) \in Nat
    BY <2>1, TailFacts
  <2>3. Len(Tail(inputSock[d])) <= InCap
    BY <2>1, <2>2, ChannelsAssumption
  <2>4. ChannelsTypeOK'
    BY <1>1, <1>6, <2>2, <2>3 DEF BrokerTakesInput, ChannelsTypeOK
  <2> QED BY <1>2, <1>6, <2>4 DEF BrokerTakesInput, ReadyHolds, threadVars
<1>7. ASSUME NEW d \in Device, BrokerCloses(d) PROVE TypeInv'
  <2>1. ChannelsTypeOK'
    BY <1>1, <1>7 DEF BrokerCloses, ChannelsTypeOK
  <2> QED BY <1>2, <1>7, <2>1 DEF BrokerCloses, ReadyHolds, threadVars
<1>8. CASE UserInterrupts
  <2>1. ChannelsTypeOK'
    BY <1>1, <1>8 DEF UserInterrupts, ChannelsTypeOK
  <2> QED BY <1>2, <1>8, <2>1 DEF UserInterrupts, ReadyHolds, threadVars
<1> QED BY <1>3, <1>4, <1>5, <1>6, <1>7, <1>8 DEF BrokerDoes, BrokerSendsList, BrokerSendsShutdown

(* TypeInv is inductive.                                                    *)
LEMMA TypeStep == TypeInv /\ [ThreadNext]_threadAll => TypeInv'
<1> SUFFICES ASSUME TypeInv, [ThreadNext]_threadAll PROVE TypeInv'
  OBVIOUS
<1>1. CASE BrokerDoes
  BY <1>1, TypeBroker
<1>2. CASE DeviceThreadsDo
  <2>1. PICK d \in Device :
          Thread(d) \/ Callback(d) \/ EncodeError(d) \/ PollInterrupted(d) \/ CallbackCut(d)
    BY <1>2 DEF DeviceThreadsDo
  <2> QED BY <2>1, TypeStart, TypeCleanup, TypeRequest, TypeCommand, TypeRaw, TypeFrame, TypeCallback
      DEF Thread, Callback, Pass, ServeClient
<1>3. CASE UNCHANGED threadAll
  BY <1>3 DEF TypeInv, ThreadTypeOK, ChannelsTypeOK, ReadyHolds, threadAll, threadVars, channels
<1> QED BY <1>1, <1>2, <1>3 DEF ThreadNext

(* For any peers, devices and bounds: the maps of a thread hold peers only, *)
(* no socket is filled above its mark, and what a poll reported can still   *)
(* be read when its turn comes, since nobody else reads the thread's        *)
(* sockets.                                                                 *)
THEOREM TypeInvariant == ThreadSpec => []TypeInv
<1>1. TypeInv /\ [ThreadNext]_threadAll => TypeInv'
  BY TypeStep
<1> QED BY <1>1, TypeInit, PTL DEF ThreadSpec, threadAll

(* No identity is the beginning of another one.  Where one is, a frame may  *)
(* come through two sockets, and be heard twice.                            *)
NoPrefixes == \A s \in Client : Covers[s] = {s}

(* What is on its way from the sockets of d to its speaker is older the     *)
(* further it is along: the numbers heard, in the reply, in mix_buff, in    *)
(* the backlog and still to arrive.                                         *)
OlderFirst(h, P, M, q, A, last) ==
  /\ Before({h}, P \cup M \cup Range(q) \cup A)
  /\ Before(P, M \cup Range(q) \cup A)
  /\ Before(M, Range(q) \cup A)
  /\ Before(Range(q), A)
  /\ Increasing(q)
  /\ \A n \in {h} \cup P \cup M \cup Range(q) \cup A : n <= last

Lane(d, c) ==
  OlderFirst(heard[d][c], Playing(d, c), Mixed(d, c), chunks[d][c], Arriving(d, c), published[c])

(* Each client socket holds frames of its peer, each newer than the one     *)
(* before.                                                                  *)
SortedFrames(q, s) ==
  \A i, j \in 1..Len(q) : q[i].from = s /\ (i < j => q[i].seq < q[j].seq)
SocketsSorted(socks) == \A s \in DOMAIN socks : SortedFrames(socks[s], s)

NumbersIn(q) == {f.seq : f \in Range(q)}
ArrivingIn(socks, c) == UNION {NumbersOf(Range(socks[s]), c) : s \in DOMAIN socks}

(* The maps of a thread agree on its peers, though decoders stay.           *)
SamePeers(d) ==
  /\ DOMAIN mixedIn[d] = DOMAIN clientSocks[d]
  /\ DOMAIN clientSocks[d] \subseteq decoders[d]

(* The flag of c is set if and only if c has its frame in mix_buff; nothing *)
(* waits behind an empty place.                                             *)
FlagTells(d, c) ==
  /\ chunks[d][c] # <<>> => AlreadyMixedIn(d, c)
  /\ c \notin leavers[d] =>
       IF AlreadyMixedIn(d, c) THEN \E n \in 1..MaxSeq : Mixed(d, c) = {n} ELSE Mixed(d, c) = {}

DeviceInv(d) ==
  /\ SamePeers(d)
  /\ SocketsSorted(clientSocks[d])
  /\ \A c \in Client : Lane(d, c) /\ FlagTells(d, c)

AudioInv == \A d \in Device : DeviceInv(d)

(* What is lost on the way leaves the rest in order.                        *)
LEMMA LaneLoses ==
  ASSUME NEW h, NEW P, NEW M, NEW q, NEW A, NEW last, OlderFirst(h, P, M, q, A, last),
         NEW P2 \in SUBSET P, NEW M2 \in SUBSET M, NEW A2 \in SUBSET A, NEW q2 \in {q, <<>>}
  PROVE  OlderFirst(h, P2, M2, q2, A2, last)
<1>1. Range(<<>>) = {} /\ Increasing(<<>>)
  BY DEF Range, Increasing
<1>2. Range(q2) \subseteq Range(q) /\ Increasing(q2)
  BY <1>1 DEF OlderFirst
<1> QED BY <1>2 DEF OlderFirst, Before

(* The head of a queue of growing numbers is the smallest of them.          *)
LEMMA IncreasingTail ==
  ASSUME NEW T, NEW q \in Seq(T), q # <<>>, Increasing(q)
  PROVE  /\ Increasing(Tail(q)) /\ Tail(q) \in Seq(T) /\ Head(q) \in T
         /\ Before({Head(q)}, Range(Tail(q)))
         /\ Range(q) = {Head(q)} \cup Range(Tail(q))
<1>1. /\ Tail(q) \in Seq(T) /\ Head(q) \in T
      /\ Len(Tail(q)) = Len(q) - 1 /\ Len(q) \in Nat \ {0}
      /\ \A i \in 1..(Len(q) - 1) : Tail(q)[i] = q[i + 1]
      /\ Head(q) = q[1]
      /\ Range(q) = {Head(q)} \cup Range(Tail(q))
  BY TailFacts
<1>2. Increasing(Tail(q))
  <2>1. SUFFICES ASSUME NEW i \in 1..(Len(q) - 1), NEW j \in 1..(Len(q) - 1), i < j
                 PROVE  Tail(q)[i] < Tail(q)[j]
    BY <1>1 DEF Increasing
  <2>2. i + 1 \in 1..Len(q) /\ j + 1 \in 1..Len(q) /\ i + 1 < j + 1
    BY <1>1, <2>1
  <2>3. q[i + 1] < q[j + 1]
    BY <2>2 DEF Increasing
  <2> QED BY <1>1, <2>3
<1>3. Before({Head(q)}, Range(Tail(q)))
  <2>1. SUFFICES ASSUME NEW n \in Range(Tail(q)) PROVE Head(q) < n
    BY DEF Before
  <2>2. PICK i \in 1..(Len(q) - 1) : n = Tail(q)[i]
    BY <1>1, LenProperties DEF Range
  <2>3. 1 \in 1..Len(q) /\ i + 1 \in 1..Len(q) /\ 1 < i + 1
    BY <1>1, <2>2
  <2>4. q[1] < q[i + 1]
    BY <2>3 DEF Increasing
  <2> QED BY <1>1, <2>2, <2>4
<1> QED BY <1>1, <1>2, <1>3

(* A larger number goes behind them.                                        *)
LEMMA IncreasingAppend ==
  ASSUME NEW T, NEW q \in Seq(T), NEW n \in T, Increasing(q), Before(Range(q), {n})
  PROVE  /\ Increasing(Append(q, n)) /\ Append(q, n) \in Seq(T)
         /\ Range(Append(q, n)) = Range(q) \cup {n}
<1>1. /\ Append(q, n) \in Seq(T) /\ Len(Append(q, n)) = Len(q) + 1 /\ Len(q) \in Nat
      /\ Range(Append(q, n)) = Range(q) \cup {n}
  BY AppendFacts
<1>2. /\ \A i \in 1..Len(q) : Append(q, n)[i] = q[i]
      /\ Append(q, n)[Len(q) + 1] = n
  BY AppendProperties
<1>3. SUFFICES ASSUME NEW i \in 1..(Len(q) + 1), NEW j \in 1..(Len(q) + 1), i < j
               PROVE  Append(q, n)[i] < Append(q, n)[j]
  BY <1>1 DEF Increasing
<1>4. i \in 1..Len(q) /\ Append(q, n)[i] = q[i]
  BY <1>1, <1>2, <1>3
<1>5. CASE j = Len(q) + 1
  <2>1. q[i] \in Range(q)
    BY <1>4, LenProperties DEF Range
  <2> QED BY <1>2, <1>4, <1>5, <2>1 DEF Before
<1>6. CASE j # Len(q) + 1
  <2>1. j \in 1..Len(q)
    BY <1>1, <1>3, <1>6
  <2> QED BY <1>2, <1>3, <1>4, <2>1 DEF Increasing
<1> QED BY <1>5, <1>6

(* The request of the callback moves everything on by a stage.              *)
LEMMA LaneMoves ==
  ASSUME NEW h, NEW P, NEW M, NEW q \in Seq(1..MaxSeq), NEW A, NEW last,
         OlderFirst(h, P, M, q, A, last)
  PROVE  /\ OlderFirst(h, M, {}, q, A, last)
         /\ q # <<>> => OlderFirst(h, M, {Head(q)}, Tail(q), A, last)
<1>1. OlderFirst(h, M, {}, q, A, last)
  BY DEF OlderFirst, Before
<1>2. ASSUME q # <<>> PROVE OlderFirst(h, M, {Head(q)}, Tail(q), A, last)
  <2>1. /\ Range(q) = {Head(q)} \cup Range(Tail(q)) /\ Increasing(Tail(q))
        /\ Before({Head(q)}, Range(Tail(q)))
    BY <1>2, IncreasingTail DEF OlderFirst
  <2> QED BY <2>1 DEF OlderFirst, Before
<1> QED BY <1>1, <1>2

(* The oldest frame of those that arrive goes behind what waits already, or *)
(* into mix_buff if nothing waits.                                          *)
LEMMA LaneTakes ==
  ASSUME NEW h, NEW P, NEW M, NEW T \in SUBSET Int, NEW q \in Seq(T), NEW A, NEW last, NEW n \in T,
         OlderFirst(h, P, M, q, {n} \cup A, last), Before({n}, A)
  PROVE  /\ OlderFirst(h, P, M, Append(q, n), A, last)
         /\ q = <<>> => OlderFirst(h, P, M \cup {n}, q, A, last)
<1>1. Increasing(q) /\ Before(Range(q), {n})
  BY DEF OlderFirst, Before
<1>2. Increasing(Append(q, n)) /\ Range(Append(q, n)) = Range(q) \cup {n}
  BY <1>1, IncreasingAppend
<1>3. OlderFirst(h, P, M, Append(q, n), A, last)
  BY <1>2 DEF OlderFirst, Before
<1>4. ASSUME q = <<>> PROVE OlderFirst(h, P, M \cup {n}, q, A, last)
  <2>1. Range(q) = {}
    BY <1>4 DEF Range
  <2> QED BY <2>1 DEF OlderFirst, Before
<1> QED BY <1>3, <1>4

(* The newest frame of the buffer has been heard.                           *)
LEMMA LanePlays ==
  ASSUME NEW h, NEW P, NEW M, NEW q, NEW A, NEW last, OlderFirst(h, P, M, q, A, last),
         NEW k \in {h} \cup P
  PROVE  OlderFirst(k, {}, M, q, A, last)
BY DEF OlderFirst, Before

(* A frame that is published is newer than all that are on their way.       *)
LEMMA LanePublishes ==
  ASSUME NEW h \in Int, NEW P \in SUBSET Int, NEW M \in SUBSET Int, NEW q \in Seq(1..MaxSeq),
         NEW A \in SUBSET Int, NEW last \in Int, OlderFirst(h, P, M, q, A, last),
         NEW n \in Int, last < n, NEW S \in SUBSET {n}
  PROVE  OlderFirst(h, P, M, q, A \cup S, n)
<1>1. Range(q) \in SUBSET (1..MaxSeq)
  BY RangeOfSeq
<1>2. Range(q) \in SUBSET Int
  BY <1>1
<1> DEFINE W == {h} \cup P \cup M \cup Range(q) \cup A
<1>3. ASSUME NEW m \in W PROVE m < n /\ m <= n
  <2>1. m \in Int /\ m <= last
    BY <1>2 DEF OlderFirst
  <2> QED BY <2>1
<1>4. \A m \in W, k \in S : m < k
  BY <1>3
<1>5. \A m \in W \cup S : m <= n
  BY <1>3
<1> HIDE DEF W
<1>6. {h} \cup P \cup M \cup Range(q) \cup A = W
  BY DEF W
<1> QED BY <1>4, <1>5, <1>6 DEF OlderFirst, Before

(* The first of a peer's frames in a queue is the oldest one.               *)
LEMMA FramesTail ==
  ASSUME NEW q \in Seq(Frame), q # <<>>, NEW s, SortedFrames(q, s)
  PROVE  /\ SortedFrames(Tail(q), s) /\ Tail(q) \in Seq(Frame)
         /\ Head(q).from = s
         /\ NumbersIn(q) = {Head(q).seq} \cup NumbersIn(Tail(q))
         /\ Before({Head(q).seq}, NumbersIn(Tail(q)))
<1>1. /\ Tail(q) \in Seq(Frame) /\ Head(q) = q[1]
      /\ Len(Tail(q)) = Len(q) - 1 /\ Len(q) \in Nat \ {0}
      /\ \A i \in 1..(Len(q) - 1) : Tail(q)[i] = q[i + 1]
      /\ Range(q) = {Head(q)} \cup Range(Tail(q))
  BY TailFacts
<1>2. \A i, j \in 1..Len(q) : q[i].from = s /\ (i < j => q[i].seq < q[j].seq)
  BY DEF SortedFrames
<1>3. 1 \in 1..Len(q) /\ \A i \in 1..(Len(q) - 1) : i + 1 \in 1..Len(q) /\ 1 < i + 1
  BY <1>1
<1>4. SortedFrames(Tail(q), s)
  <2>1. SUFFICES ASSUME NEW i \in 1..(Len(q) - 1), NEW j \in 1..(Len(q) - 1)
                 PROVE  Tail(q)[i].from = s /\ (i < j => Tail(q)[i].seq < Tail(q)[j].seq)
    BY <1>1 DEF SortedFrames
  <2>2. Tail(q)[i] = q[i + 1] /\ Tail(q)[j] = q[j + 1] /\ (i < j => i + 1 < j + 1)
    BY <1>1
  <2> QED BY <1>2, <1>3, <2>2
<1>5. NumbersIn(q) = {Head(q).seq} \cup NumbersIn(Tail(q))
  BY <1>1 DEF NumbersIn
<1>6. ASSUME NEW f \in Range(Tail(q)) PROVE Head(q).seq < f.seq
  <2>1. PICK i \in 1..(Len(q) - 1) : f = Tail(q)[i]
    BY <1>1, LenProperties DEF Range
  <2> QED BY <1>1, <1>2, <1>3, <2>1
<1> QED BY <1>1, <1>2, <1>3, <1>4, <1>5, <1>6 DEF Before, NumbersIn

(* A newer frame goes behind them.                                          *)
LEMMA FramesAppend ==
  ASSUME NEW q \in Seq(Frame), NEW f \in Frame, SortedFrames(q, f.from),
         \A m \in NumbersIn(q) : m < f.seq
  PROVE  /\ SortedFrames(Append(q, f), f.from) /\ Append(q, f) \in Seq(Frame)
         /\ NumbersIn(Append(q, f)) = NumbersIn(q) \cup {f.seq}
<1> DEFINE r == Append(q, f)
<1>1. /\ r \in Seq(Frame) /\ Len(r) = Len(q) + 1 /\ Len(q) \in Nat
      /\ \A i \in 1..Len(q) : r[i] = q[i]
      /\ r[Len(q) + 1] = f
  BY AppendProperties, LenProperties
<1>2. Range(r) = Range(q) \cup {f}
  BY AppendFacts
<1> HIDE DEF r
<1>3. \A i \in 1..Len(q) : q[i].seq < f.seq
  BY LenProperties DEF NumbersIn, Range
<1>4. ASSUME NEW i \in 1..Len(r), NEW j \in 1..Len(r)
      PROVE  r[i].from = f.from /\ (i < j => r[i].seq < r[j].seq)
  <2>1. i \in 1..Len(q) \/ i = Len(q) + 1
    BY <1>1
  <2>2. j \in 1..Len(q) \/ j = Len(q) + 1
    BY <1>1
  <2>3. i < j => i \in 1..Len(q)
    BY <1>1
  <2> QED BY <1>1, <1>3, <2>1, <2>2, <2>3 DEF SortedFrames
<1>5. NumbersIn(r) = NumbersIn(q) \cup {f.seq}
  BY <1>2 DEF NumbersIn
<1> QED BY <1>1, <1>4, <1>5 DEF SortedFrames, r

(* Frames of a peer arrive through its own socket only.                     *)
LEMMA ArrivingOwn ==
  ASSUME NEW socks, \A s \in DOMAIN socks : socks[s] \in Seq(Frame),
         SocketsSorted(socks), NEW c
  PROVE  ArrivingIn(socks, c) = IF c \in DOMAIN socks THEN NumbersIn(socks[c]) ELSE {}
<1>1. ASSUME NEW s \in DOMAIN socks
      PROVE  NumbersOf(Range(socks[s]), c) = IF s = c THEN NumbersIn(socks[s]) ELSE {}
  <2>1. \A i \in 1..Len(socks[s]) : socks[s][i].from = s
    BY DEF SocketsSorted, SortedFrames
  <2>2. \A f \in Range(socks[s]) : f.from = s
    BY <2>1, LenProperties DEF Range
  <2> QED BY <2>2 DEF NumbersOf, NumbersIn
<1> QED BY <1>1 DEF ArrivingIn

(* The first frame of a socket is older than what is left there.            *)
LEMMA SocketTakes ==
  ASSUME NEW socks, \A s \in DOMAIN socks : socks[s] \in Seq(Frame),
         SocketsSorted(socks), NEW s \in DOMAIN socks, socks[s] # <<>>,
         NEW socks2, socks2 = [socks EXCEPT ![s] = Tail(socks[s])]
  PROVE  /\ SocketsSorted(socks2)
         /\ Head(socks[s]).from = s
         /\ \A c \in Client \ {s} : ArrivingIn(socks2, c) = ArrivingIn(socks, c)
         /\ ArrivingIn(socks, s) = {Head(socks[s]).seq} \cup ArrivingIn(socks2, s)
         /\ Before({Head(socks[s]).seq}, ArrivingIn(socks2, s))
<1>1. /\ DOMAIN socks2 = DOMAIN socks /\ socks2[s] = Tail(socks[s])
      /\ \A t \in DOMAIN socks \ {s} : socks2[t] = socks[t]
  OBVIOUS
<1>2. SortedFrames(socks[s], s)
  BY DEF SocketsSorted
<1>3. /\ SortedFrames(Tail(socks[s]), s) /\ Tail(socks[s]) \in Seq(Frame)
      /\ Head(socks[s]).from = s
      /\ NumbersIn(socks[s]) = {Head(socks[s]).seq} \cup NumbersIn(Tail(socks[s]))
      /\ Before({Head(socks[s]).seq}, NumbersIn(Tail(socks[s])))
  BY <1>2, FramesTail
<1>4. SocketsSorted(socks2)
  BY <1>1, <1>3 DEF SocketsSorted
<1>5. \A t \in DOMAIN socks2 : socks2[t] \in Seq(Frame)
  BY <1>1, <1>3
<1>6. \A c : ArrivingIn(socks, c) = IF c \in DOMAIN socks THEN NumbersIn(socks[c]) ELSE {}
  BY ArrivingOwn
<1>7. \A c : ArrivingIn(socks2, c) = IF c \in DOMAIN socks2 THEN NumbersIn(socks2[c]) ELSE {}
  BY <1>4, <1>5, ArrivingOwn
<1> QED BY <1>1, <1>3, <1>4, <1>6, <1>7

(* A new list of peers empties sockets, at most.                            *)
LEMMA SocketsResubscribed ==
  ASSUME NEW socks, SocketsSorted(socks), NEW L,
         NEW socks2, socks2 = [s \in L |-> IF s \in DOMAIN socks THEN socks[s] ELSE <<>>]
  PROVE  /\ SocketsSorted(socks2)
         /\ \A c : ArrivingIn(socks2, c) \in SUBSET ArrivingIn(socks, c)
<1>1. Len(<<>>) = 0 /\ Range(<<>>) = {}
  BY DEF Range
<1>2. SocketsSorted(socks2)
  BY <1>1 DEF SocketsSorted, SortedFrames
<1>3. ASSUME NEW c, NEW s \in DOMAIN socks2
      PROVE  NumbersOf(Range(socks2[s]), c) \subseteq ArrivingIn(socks, c)
  <2>1. CASE s \in DOMAIN socks
    BY <2>1 DEF ArrivingIn
  <2>2. CASE s \notin DOMAIN socks
    BY <1>1, <2>2 DEF NumbersOf
  <2> QED BY <2>1, <2>2
<1> QED BY <1>2, <1>3 DEF ArrivingIn

(* A frame that is newer than all keeps the sockets sorted.                 *)
LEMMA SocketsPublished ==
  ASSUME NEW socks, \A s \in DOMAIN socks : socks[s] \in Seq(Frame),
         SocketsSorted(socks), NEW f \in Frame,
         \A m \in ArrivingIn(socks, f.from) : m < f.seq,
         NEW socks2, DOMAIN socks2 = DOMAIN socks,
         \A s \in DOMAIN socks :
           socks2[s] = IF s = f.from THEN Offer(socks[s], f, SubCap) ELSE socks[s]
  PROVE  /\ SocketsSorted(socks2)
         /\ \A k \in Client \ {f.from} : ArrivingIn(socks2, k) = ArrivingIn(socks, k)
         /\ \/ ArrivingIn(socks2, f.from) = ArrivingIn(socks, f.from)
            \/ ArrivingIn(socks2, f.from) = ArrivingIn(socks, f.from) \cup {f.seq}
<1>0. DOMAIN socks2 = DOMAIN socks
  OBVIOUS
<1>1. CASE \A t \in DOMAIN socks : socks2[t] = socks[t]
  <2>1. SocketsSorted(socks2) /\ \A c : ArrivingIn(socks2, c) = ArrivingIn(socks, c)
    BY <1>0, <1>1 DEF SocketsSorted, ArrivingIn
  <2> QED BY <2>1
<1>2. CASE f.from \in DOMAIN socks /\ Len(socks[f.from]) < SubCap
  <2>1. /\ DOMAIN socks2 = DOMAIN socks /\ socks2[f.from] = Append(socks[f.from], f)
        /\ \A t \in DOMAIN socks \ {f.from} : socks2[t] = socks[t]
    BY <1>2 DEF Offer
  <2>2. \A c : ArrivingIn(socks, c) = IF c \in DOMAIN socks THEN NumbersIn(socks[c]) ELSE {}
    BY ArrivingOwn
  <2>3. SortedFrames(socks[f.from], f.from) /\ \A m \in NumbersIn(socks[f.from]) : m < f.seq
    BY <1>2, <2>2 DEF SocketsSorted
  <2>4. /\ SortedFrames(Append(socks[f.from], f), f.from) /\ Append(socks[f.from], f) \in Seq(Frame)
        /\ NumbersIn(Append(socks[f.from], f)) = NumbersIn(socks[f.from]) \cup {f.seq}
    BY <1>2, <2>3, FramesAppend
  <2>5. SocketsSorted(socks2)
    BY <2>1, <2>4 DEF SocketsSorted
  <2>6. \A t \in DOMAIN socks2 : socks2[t] \in Seq(Frame)
    BY <2>1, <2>4
  <2>7. \A c : ArrivingIn(socks2, c) = IF c \in DOMAIN socks2 THEN NumbersIn(socks2[c]) ELSE {}
    BY <2>5, <2>6, ArrivingOwn
  <2>8. ArrivingIn(socks2, f.from) = ArrivingIn(socks, f.from) \cup {f.seq}
    BY <1>2, <2>1, <2>2, <2>4, <2>7
  <2>9. \A k \in Client \ {f.from} : ArrivingIn(socks2, k) = ArrivingIn(socks, k)
    BY <2>1, <2>2, <2>7
  <2> QED BY <2>5, <2>8, <2>9
<1>3. CASE ~(f.from \in DOMAIN socks /\ Len(socks[f.from]) < SubCap)
  BY <1>1, <1>3 DEF Offer
<1> QED BY <1>2, <1>3

-----------------------------------------------------------------------------
(* What the steps do to the audio.                                          *)

audio == <<clientSocks, published, decoders, mixedIn, chunks, mix, leavers, reply, heard>>

(* Nothing of the audio of d changes.                                       *)
Untouched(d) ==
  /\ clientSocks'[d] = clientSocks[d] /\ decoders'[d] = decoders[d] /\ mixedIn'[d] = mixedIn[d]
  /\ chunks'[d] = chunks[d] /\ mix'[d] = mix[d] /\ leavers'[d] = leavers[d]
  /\ reply'[d] = reply[d] /\ heard'[d] = heard[d]

(* Frames of d may get lost, none is heard.                                 *)
Loses(d) ==
  heard'[d] = heard[d] /\ \A c \in Client : Waiting'[d][c] \in SUBSET Waiting[d][c]

DeviceStep(d) ==
  \/ Cleanup(d) \/ ServeRequest(d) \/ HandleList(d) \/ CallbackPlays(d) \/ CallbackCut(d)
  \/ \E s \in DOMAIN clientSocks[d] : DecodeFrame(d, s) \/ DecodeError(d, s)

(* Every step, sorted by what it does to the audio.                         *)
LEMMA AudioSteps ==
  ASSUME [ThreadNext]_threadAll
  PROVE  \/ UNCHANGED audio
         \/ \E c \in Client : BrokerPublishes(c)
         \/ \E d \in Device : DeviceStep(d)
<1> USE DEF audio, channels, threadVars, mixer, stream
<1>1. CASE BrokerDoes
  BY <1>1 DEF BrokerDoes, BrokerSendsList, BrokerSendsShutdown, Sends, BrokerTakesInput, BrokerCloses,
    UserInterrupts
<1>2. ASSUME NEW d \in Device,
             InitSocks(d) \/ OpenStream(d) \/ Poll(d) \/ PollInterrupted(d) \/ HandleShutdown(d)
               \/ EncodeRaw(d) \/ EncodeError(d)
      PROVE  UNCHANGED audio
  BY <1>2 DEF InitSocks, OpenStream, Poll, PollInterrupted, HandleShutdown, EncodeRaw, EncodeError
<1>3. ASSUME NEW d \in Device, CallbackAsks(d) \/ CallbackRecords(d) \/ CallbackSends(d)
      PROVE  UNCHANGED audio
  BY <1>3 DEF CallbackAsks, CallbackRecords, CallbackSends
<1>4. ASSUME NEW d \in Device, NEW s, DecodeWithoutDecoder(d, s) PROVE UNCHANGED audio
  BY <1>4 DEF DecodeWithoutDecoder
<1>5. CASE DeviceThreadsDo
  <2>1. PICK d \in Device :
          Thread(d) \/ Callback(d) \/ EncodeError(d) \/ PollInterrupted(d) \/ CallbackCut(d)
    BY <1>5 DEF DeviceThreadsDo
  <2> QED BY <2>1, <1>2, <1>3, <1>4 DEF Thread, Callback, Pass, ServeClient, DeviceStep
<1>6. CASE UNCHANGED threadAll
  BY <1>6 DEF threadAll
<1> QED BY <1>1, <1>5, <1>6 DEF ThreadNext

(* A device does not touch the audio of another one.                        *)
LEMMA OthersUntouched ==
  ASSUME TypeInv, NEW d \in Device, DeviceStep(d)
  PROVE  published' = published /\ \A e \in Device \ {d} : Untouched(e)
<1> USE DEF TypeInv, ThreadTypeOK, ChannelsTypeOK, Untouched
<1>1. CASE Cleanup(d)
  BY <1>1 DEF Cleanup
<1>2. CASE ServeRequest(d)
  BY <1>2 DEF ServeRequest, channels
<1>3. CASE HandleList(d)
  BY <1>3 DEF HandleList, stream
<1>4. CASE CallbackPlays(d) \/ CallbackCut(d)
  BY <1>4 DEF CallbackPlays, CallbackCut, mixer, channels
<1>5. ASSUME NEW s \in DOMAIN clientSocks[d], DecodeFrame(d, s) \/ DecodeError(d, s)
      PROVE  published' = published /\ \A e \in Device \ {d} : Untouched(e)
  <2>1. CASE DecodeError(d, s)
    BY <2>1 DEF DecodeError, TakeFrame, mixer, stream
  <2>2. CASE DecodeFrame(d, s)
    BY <2>2 DEF DecodeFrame, TakeFrame, stream
  <2> QED BY <1>5, <2>1, <2>2
<1> QED BY <1>1, <1>2, <1>3, <1>4, <1>5 DEF DeviceStep

(* Where nothing of it changes, the order stays.                            *)
LEMMA DeviceRests ==
  ASSUME NEW d \in Device, DeviceInv(d), Untouched(d), published' = published
  PROVE  DeviceInv(d)'
BY DEF DeviceInv, SamePeers, Lane, FlagTells, AlreadyMixedIn, Playing, Mixed, Arriving, Untouched

(* The pieces of the audio of d, typed.                                     *)
LEMMA AudioTypes ==
  ASSUME TypeInv, NEW d \in Device
  PROVE  /\ DOMAIN clientSocks[d] \subseteq Client
         /\ \A s \in DOMAIN clientSocks[d] : clientSocks[d][s] \in Seq(Frame)
         /\ DOMAIN mixedIn[d] \subseteq Client
         /\ \A c \in DOMAIN mixedIn[d] : mixedIn[d][c] \in BOOLEAN
         /\ \A c \in Client : chunks[d][c] \in Seq(1..MaxSeq) /\ heard[d][c] \in 0..MaxSeq
         /\ mix[d] \subseteq Frame /\ reply[d] \subseteq Frame
         /\ \A c \in Client :
              /\ Playing(d, c) \subseteq 1..MaxSeq /\ Mixed(d, c) \subseteq 1..MaxSeq
              /\ Queued(d, c) \subseteq 1..MaxSeq /\ Arriving(d, c) \subseteq 1..MaxSeq
<1>1. /\ DOMAIN clientSocks[d] \subseteq Client
      /\ \A s \in DOMAIN clientSocks[d] : clientSocks[d][s] \in Seq(Frame)
      /\ DOMAIN mixedIn[d] \subseteq Client
      /\ \A c \in DOMAIN mixedIn[d] : mixedIn[d][c] \in BOOLEAN
      /\ \A c \in Client : chunks[d][c] \in Seq(1..MaxSeq) /\ heard[d][c] \in 0..MaxSeq
      /\ mix[d] \subseteq Frame /\ reply[d] \subseteq Frame
  BY DEF TypeInv, ThreadTypeOK, ChannelsTypeOK
<1>2. ASSUME NEW frames, frames \subseteq Frame, NEW c PROVE NumbersOf(frames, c) \subseteq 1..MaxSeq
  BY <1>2 DEF NumbersOf, Frame
<1>3. \A s \in DOMAIN clientSocks[d] : Range(clientSocks[d][s]) \subseteq Frame
  BY <1>1, RangeOfSeq
<1>4. \A c \in Client : Queued(d, c) \subseteq 1..MaxSeq
  <2> DEFINE S == 1..MaxSeq
  <2>1. \A c \in Client : chunks[d][c] \in Seq(S)
    BY <1>1
  <2> HIDE DEF S
  <2>2. \A c \in Client : Range(chunks[d][c]) \in SUBSET S
    BY <2>1, RangeOfSeq
  <2> QED BY <2>2 DEF S, Queued
<1> QED BY <1>1, <1>2, <1>3, <1>4 DEF Playing, Mixed, Arriving

(* The end of the thread loses what waits there, and breaks no order.       *)
LEMMA CleanupKeeps ==
  ASSUME TypeInv, NEW d \in Device, DeviceInv(d), Cleanup(d)
  PROVE  DeviceInv(d)' /\ Loses(d)
<1>1. /\ clientSocks'[d] = EmptyMap /\ mixedIn'[d] = EmptyMap /\ decoders'[d] = {}
      /\ mix'[d] = {} /\ reply' = reply /\ heard' = heard /\ published' = published
      /\ \A c \in Client : chunks'[d][c] = <<>>
  BY DEF Cleanup, TypeInv, ThreadTypeOK, ChannelsTypeOK
<1>2. DOMAIN EmptyMap = {}
  BY DEF EmptyMap
<1>3. \A c \in Client : Arriving(d, c)' = {} /\ Mixed(d, c)' = {} /\ Playing(d, c)' = Playing(d, c)
  BY <1>1, <1>2 DEF Arriving, Mixed, Playing, NumbersOf
<1>4. \A c \in Client : Queued(d, c)' = {}
  BY <1>1 DEF Queued, Range
<1>5. \A c \in Client : Lane(d, c)'
  BY <1>1, <1>3, LaneLoses DEF DeviceInv, Lane
<1>6. \A c \in Client : FlagTells(d, c)'
  BY <1>1, <1>2, <1>3 DEF FlagTells, AlreadyMixedIn
<1>7. SamePeers(d)' /\ SocketsSorted(clientSocks'[d])
  BY <1>1, <1>2 DEF SamePeers, SocketsSorted
<1>8. Loses(d)
  BY <1>1, <1>3, <1>4 DEF Loses, Waiting
<1> QED BY <1>5, <1>6, <1>7, <1>8 DEF DeviceInv

(* The buffer that is handed over and what takes its place in mix_buff are  *)
(* in order, and the flags follow the backlogs.                             *)
LEMMA RequestKeeps ==
  ASSUME TypeInv, NEW d \in Device, DeviceInv(d), ServeRequest(d)
  PROVE  DeviceInv(d)' /\ Loses(d)
<1>1. /\ UNCHANGED <<clientSocks, decoders, published, heard>>
      /\ reply'[d] = mix[d]
      /\ mix'[d] = {[from |-> c, seq |-> Head(chunks[d][c])] : c \in Backlogged(d)}
      /\ chunks'[d] = ChunksLeft(d) /\ mixedIn'[d] = MixedInNext(d) /\ leavers'[d] = {}
  BY DEF ServeRequest, TypeInv, ThreadTypeOK, ChannelsTypeOK, channels
<1>2. \A c \in Client : c \in Backlogged(d) <=> chunks[d][c] # <<>>
  BY AudioTypes DEF DeviceInv, FlagTells, AlreadyMixedIn, Backlogged
<1>3. ASSUME NEW c \in Client
      PROVE  /\ Playing(d, c)' = Mixed(d, c)
             /\ Arriving(d, c)' = Arriving(d, c)
             /\ chunks'[d][c] = IF chunks[d][c] # <<>> THEN Tail(chunks[d][c]) ELSE chunks[d][c]
             /\ Mixed(d, c)' = IF chunks[d][c] # <<>> THEN {Head(chunks[d][c])} ELSE {}
  <2>1. \A k \in Backlogged(d) : k \in Client
    BY AudioTypes DEF Backlogged
  <2>2. \A n : n \in Mixed(d, c)' <=> c \in Backlogged(d) /\ n = Head(chunks[d][c])
    <3>1. \A n : n \in Mixed(d, c)' <=> \E f \in mix'[d] : f.from = c /\ n = f.seq
      BY DEF Mixed, NumbersOf
    <3>2. ASSUME c \in Backlogged(d)
          PROVE  [from |-> c, seq |-> Head(chunks[d][c])] \in mix'[d]
      BY <1>1, <3>2
    <3>3. \A f \in mix'[d] : f.from \in Backlogged(d) /\ f.seq = Head(chunks[d][f.from])
      BY <1>1
    <3> QED BY <3>1, <3>2, <3>3
  <2> QED BY <1>1, <1>2, <2>1, <2>2 DEF Playing, Mixed, Arriving, ChunksLeft
<1>4. ASSUME NEW c \in Client PROVE AlreadyMixedIn(d, c)' <=> chunks[d][c] # <<>>
  BY <1>1, <1>2, AudioTypes DEF AlreadyMixedIn, MixedInNext, DeviceInv, FlagTells
<1>5. ASSUME NEW c \in Client PROVE Lane(d, c)'
  <2>1. OlderFirst(heard[d][c], Playing(d, c), Mixed(d, c), chunks[d][c], Arriving(d, c), published[c])
    BY DEF DeviceInv, Lane
  <2>2. chunks[d][c] \in Seq(1..MaxSeq)
    BY AudioTypes
  <2>3. OlderFirst(heard[d][c], Mixed(d, c), Mixed(d, c)', chunks'[d][c], Arriving(d, c), published[c])
    <3> DEFINE q == chunks[d][c]
    <3>1. /\ OlderFirst(heard[d][c], Mixed(d, c), {}, q, Arriving(d, c), published[c])
          /\ q # <<>> => OlderFirst(heard[d][c], Mixed(d, c), {Head(q)}, Tail(q), Arriving(d, c), published[c])
      BY <2>1, <2>2, LaneMoves
    <3> QED BY <1>3, <3>1
  <2> QED BY <1>1, <1>3, <2>3 DEF Lane
<1>6. ASSUME NEW c \in Client PROVE FlagTells(d, c)'
  <2>1. chunks[d][c] # <<>> => Head(chunks[d][c]) \in 1..MaxSeq
    BY AudioTypes, TailFacts
  <2> QED BY <1>3, <1>4, <2>1 DEF FlagTells
<1>7. SamePeers(d)' /\ SocketsSorted(clientSocks'[d])
  BY <1>1 DEF DeviceInv, SamePeers, MixedInNext
<1>8. ASSUME NEW c \in Client PROVE Waiting'[d][c] \in SUBSET Waiting[d][c]
  <2>1. Queued(d, c)' \subseteq Queued(d, c) /\ Mixed(d, c)' \subseteq Queued(d, c)
    <3> DEFINE S == 1..MaxSeq
    <3>1. chunks[d][c] \in Seq(S)
      BY AudioTypes
    <3> HIDE DEF S
    <3>2. chunks[d][c] # <<>> =>
            Range(chunks[d][c]) = {Head(chunks[d][c])} \cup Range(Tail(chunks[d][c]))
      BY <3>1, TailFacts
    <3> QED BY <1>3, <3>2 DEF Queued
  <2> QED BY <1>3, <2>1 DEF Waiting
<1> QED BY <1>1, <1>5, <1>6, <1>7, <1>8 DEF DeviceInv, Loses

(* A new list takes away what the peers that are gone have waiting, and     *)
(* begins afresh for the new ones.                                          *)
LEMMA ListKeeps ==
  ASSUME TypeInv, NEW d \in Device, DeviceInv(d), HandleList(d)
  PROVE  DeviceInv(d)' /\ Loses(d)
<1>1. /\ UNCHANGED <<reply, mix, heard, published>>
      /\ clientSocks'[d] = Resubscribed(d, Head(cmdSock[d]).clients)
      /\ decoders'[d] = decoders[d] \cup Joined(d)
      /\ mixedIn'[d] = FlagsKept(d) /\ chunks'[d] = ChunksKept(d)
      /\ leavers'[d] = leavers[d] \cup Kicked(d)
  BY DEF HandleList, TypeInv, ThreadTypeOK, ChannelsTypeOK, stream
<1>2. Listed(d) \subseteq Client
  <2>1. cmdSock[d] \in Seq(Command) /\ cmdSock[d] # <<>>
    BY DEF HandleList, CmdTurn, TypeInv, ThreadTypeOK, ChannelsTypeOK, ReadyHolds
  <2>2. Head(cmdSock[d]).clients \subseteq Client
    BY <2>1, TailFacts DEF Command, CmdList, CmdShutdown
  <2> QED BY <2>2 DEF Listed, ListRead
<1>3. clientSocks'[d] = [s \in Listed(d) |-> IF s \in DOMAIN clientSocks[d] THEN clientSocks[d][s] ELSE <<>>]
  BY <1>1 DEF Resubscribed, Listed
<1>4. /\ SocketsSorted(clientSocks'[d])
      /\ \A c \in Client : ArrivingIn(clientSocks'[d], c) \in SUBSET ArrivingIn(clientSocks[d], c)
  BY <1>2, <1>3, SocketsResubscribed DEF DeviceInv
<1>5. ASSUME NEW c \in Client
      PROVE  /\ Playing(d, c)' = Playing(d, c) /\ Mixed(d, c)' = Mixed(d, c)
             /\ Arriving(d, c)' \in SUBSET Arriving(d, c)
             /\ chunks'[d][c] = IF c \in Kicked(d) THEN <<>> ELSE chunks[d][c]
  BY <1>1, <1>4 DEF Playing, Mixed, Arriving, ArrivingIn, ChunksKept
<1>6. ASSUME NEW c \in Client PROVE Lane(d, c)'
  <2>1. OlderFirst(heard[d][c], Playing(d, c), Mixed(d, c), chunks[d][c], Arriving(d, c), published[c])
    BY DEF DeviceInv, Lane
  <2> QED BY <1>1, <1>5, <2>1, LaneLoses DEF Lane
<1>7. DOMAIN mixedIn'[d] = Listed(d) /\ SamePeers(d)'
  BY <1>1, <1>3 DEF FlagsKept, Kicked, Joined, DeviceInv, SamePeers
<1>8. ASSUME NEW c \in Client
      PROVE  AlreadyMixedIn(d, c)' <=> AlreadyMixedIn(d, c) /\ c \notin Kicked(d)
  BY <1>1, <1>7 DEF AlreadyMixedIn, FlagsKept, Kicked, Joined, DeviceInv, SamePeers
<1>9. ASSUME NEW c \in Client PROVE FlagTells(d, c)'
  BY <1>1, <1>5, <1>8 DEF FlagTells, DeviceInv
<1>10. ASSUME NEW c \in Client PROVE Waiting'[d][c] \in SUBSET Waiting[d][c]
  <2>1. Queued(d, c)' \subseteq Queued(d, c)
    BY <1>5 DEF Queued, Range
  <2> QED BY <1>5, <2>1 DEF Waiting
<1> QED BY <1>1, <1>4, <1>6, <1>7, <1>9, <1>10 DEF DeviceInv, Loses

(* A frame is taken out of the socket for s: the others stay.               *)
LEMMA FrameTaken ==
  ASSUME TypeInv, NEW d \in Device, DeviceInv(d), NEW s \in DOMAIN clientSocks[d],
         DecodeFrame(d, s) \/ DecodeError(d, s)
  PROVE  /\ s \in Client /\ Received(d, s) = [from |-> s, seq |-> Received(d, s).seq]
         /\ Received(d, s).seq \in 1..MaxSeq
         /\ DOMAIN clientSocks'[d] = DOMAIN clientSocks[d] /\ SocketsSorted(clientSocks'[d])
         /\ \A c \in Client \ {s} : Arriving(d, c)' = Arriving(d, c)
         /\ Arriving(d, s) = {Received(d, s).seq} \cup Arriving(d, s)'
         /\ Before({Received(d, s).seq}, Arriving(d, s)')
<1> DEFINE socks == clientSocks[d]
<1>1. s \in Client /\ \A t \in DOMAIN socks : socks[t] \in Seq(Frame)
  BY AudioTypes
<1>2. socks[s] # <<>>
  BY <1>1 DEF DecodeFrame, DecodeError, Turn, TypeInv, ReadyHolds
<1>3. clientSocks'[d] = [socks EXCEPT ![s] = Tail(socks[s])]
  BY DEF DecodeFrame, DecodeError, TakeFrame, TypeInv, ThreadTypeOK, ChannelsTypeOK
<1>4. SocketsSorted(socks)
  BY DEF DeviceInv
<1>5. Head(socks[s]) \in Frame
  BY <1>1, <1>2, TailFacts
<1> HIDE DEF socks
<1>6. /\ SocketsSorted(clientSocks'[d])
      /\ Head(socks[s]).from = s
      /\ \A c \in Client \ {s} : ArrivingIn(clientSocks'[d], c) = ArrivingIn(socks, c)
      /\ ArrivingIn(socks, s) = {Head(socks[s]).seq} \cup ArrivingIn(clientSocks'[d], s)
      /\ Before({Head(socks[s]).seq}, ArrivingIn(clientSocks'[d], s))
  BY <1>1, <1>2, <1>3, <1>4, SocketTakes DEF socks
<1>7. Received(d, s) = Head(socks[s]) /\ DOMAIN clientSocks'[d] = DOMAIN socks
  BY <1>3 DEF Received, socks
<1>8. \A c : Arriving(d, c) = ArrivingIn(socks, c) /\ Arriving(d, c)' = ArrivingIn(clientSocks'[d], c)
  BY DEF Arriving, ArrivingIn, socks
<1> QED BY <1>1, <1>5, <1>6, <1>7, <1>8 DEF Frame, socks

(* A frame that does not decode is lost.                                    *)
LEMMA ErrorKeeps ==
  ASSUME TypeInv, NEW d \in Device, DeviceInv(d), NEW s \in DOMAIN clientSocks[d], DecodeError(d, s)
  PROVE  DeviceInv(d)' /\ Loses(d)
<1>1. UNCHANGED <<decoders, mixedIn, chunks, mix, leavers, reply, heard, published>>
  BY DEF DecodeError, mixer, stream
<1>2. /\ DOMAIN clientSocks'[d] = DOMAIN clientSocks[d] /\ SocketsSorted(clientSocks'[d])
      /\ \A c \in Client : Arriving(d, c)' \in SUBSET Arriving(d, c)
  BY FrameTaken
<1>3. \A c \in Client : Playing(d, c)' = Playing(d, c) /\ Mixed(d, c)' = Mixed(d, c)
  BY <1>1 DEF Playing, Mixed
<1>4. \A c \in Client : Lane(d, c)'
  BY <1>1, <1>2, <1>3, LaneLoses DEF DeviceInv, Lane
<1>5. \A c \in Client : FlagTells(d, c)'
  BY <1>1, <1>3 DEF DeviceInv, FlagTells, AlreadyMixedIn
<1>6. SamePeers(d)'
  BY <1>1, <1>2 DEF DeviceInv, SamePeers
<1>7. Loses(d)
  BY <1>1, <1>2, <1>3 DEF Loses, Waiting, Queued
<1> QED BY <1>2, <1>4, <1>5, <1>6, <1>7 DEF DeviceInv

(* A frame goes into mix_buff, or behind those of its peer that wait.       *)
LEMMA FrameKeeps ==
  ASSUME TypeInv, NEW d \in Device, DeviceInv(d), NEW s \in DOMAIN clientSocks[d], DecodeFrame(d, s)
  PROVE  DeviceInv(d)' /\ Loses(d)
<1> DEFINE n == Received(d, s).seq
<1>1. /\ s \in Client /\ n \in 1..MaxSeq /\ Received(d, s) = [from |-> s, seq |-> n]
      /\ DOMAIN clientSocks'[d] = DOMAIN clientSocks[d] /\ SocketsSorted(clientSocks'[d])
      /\ \A c \in Client \ {s} : Arriving(d, c)' = Arriving(d, c)
      /\ Arriving(d, s) = {n} \cup Arriving(d, s)' /\ Before({n}, Arriving(d, s)')
  BY FrameTaken
<1>2. /\ UNCHANGED <<decoders, leavers, reply, heard, published>>
      /\ s \in decoders[d]
      /\ \/ /\ HasToWait(d, s)
            /\ chunks' = [chunks EXCEPT ![d][s] = Append(@, n)]
            /\ UNCHANGED <<mix, mixedIn>>
         \/ /\ ~HasToWait(d, s)
            /\ mix' = [mix EXCEPT ![d] = @ \cup {Received(d, s)}]
            /\ mixedIn' = [mixedIn EXCEPT ![d] =
                 [k \in DOMAIN @ \cup {s} |-> IF k = s THEN TRUE ELSE @[k]]]
            /\ UNCHANGED chunks
  <2> DEFINE f == Received(d, s)
  <2>1. f.from = s /\ f.seq = n
    BY <1>1
  <2> HIDE DEF n, f
  <2>2. /\ s \in decoders[d]
        /\ UNCHANGED <<decoders, leavers, stream, published>>
        /\ \/ /\ HasToWait(d, s)
              /\ chunks' = [chunks EXCEPT ![d][s] = Append(@, n)]
              /\ UNCHANGED <<mix, mixedIn>>
           \/ /\ ~HasToWait(d, s)
              /\ mix' = [mix EXCEPT ![d] = @ \cup {f}]
              /\ mixedIn' = [mixedIn EXCEPT ![d] =
                   [k \in DOMAIN @ \cup {s} |-> IF k = s THEN TRUE ELSE @[k]]]
              /\ UNCHANGED chunks
    BY <2>1 DEF DecodeFrame, f
  <2> QED BY <2>2 DEF stream, f
<1>3. \A c \in Client : Playing(d, c)' = Playing(d, c)
  BY <1>2 DEF Playing
<1>4. /\ chunks[d][s] \in Seq(1..MaxSeq) /\ DOMAIN chunks[d] = Client /\ DOMAIN chunks = Device
      /\ DOMAIN mix = Device /\ DOMAIN mixedIn = Device
  BY <1>1 DEF TypeInv, ThreadTypeOK
<1> HIDE DEF n
<1>5. OlderFirst(heard[d][s], Playing(d, s), Mixed(d, s), chunks[d][s], {n} \cup Arriving(d, s)', published[s])
  BY <1>1 DEF DeviceInv, Lane
<1>6. /\ OlderFirst(heard[d][s], Playing(d, s), Mixed(d, s), Append(chunks[d][s], n), Arriving(d, s)', published[s])
      /\ chunks[d][s] = <<>> =>
           OlderFirst(heard[d][s], Playing(d, s), Mixed(d, s) \cup {n}, chunks[d][s], Arriving(d, s)', published[s])
  <2> DEFINE T == 1..MaxSeq
  <2>1. T \in SUBSET Int /\ chunks[d][s] \in Seq(T) /\ n \in T
    BY <1>1, <1>4
  <2> HIDE DEF T
  <2> QED BY <1>1, <1>5, <2>1, LaneTakes
<1>7. DOMAIN mixedIn[d] = DOMAIN clientSocks[d] /\ DOMAIN clientSocks[d] \subseteq decoders[d]
  BY DEF DeviceInv, SamePeers
<1>8. CASE /\ HasToWait(d, s)
           /\ chunks' = [chunks EXCEPT ![d][s] = Append(@, n)]
           /\ UNCHANGED <<mix, mixedIn>>
  <2>1. /\ chunks'[d][s] = Append(chunks[d][s], n)
        /\ \A c \in Client \ {s} : chunks'[d][c] = chunks[d][c]
    BY <1>1, <1>4, <1>8
  <2>2. \A c \in Client : Mixed(d, c)' = Mixed(d, c) /\ (AlreadyMixedIn(d, c)' <=> AlreadyMixedIn(d, c))
    BY <1>8 DEF Mixed, AlreadyMixedIn
  <2>3. ASSUME NEW c \in Client PROVE Lane(d, c)'
    <3>1. CASE c = s
      BY <1>1, <1>2, <1>3, <1>6, <2>1, <2>2, <3>1 DEF Lane
    <3>2. CASE c # s
      BY <1>1, <1>2, <1>3, <2>1, <2>2, <3>2 DEF DeviceInv, Lane
    <3> QED BY <3>1, <3>2
  <2>4. \A c \in Client : FlagTells(d, c)'
    BY <1>2, <1>8, <2>1, <2>2 DEF DeviceInv, FlagTells, HasToWait
  <2>5. SamePeers(d)'
    BY <1>1, <1>2, <1>7, <1>8 DEF SamePeers
  <2>6. Queued(d, s)' = Queued(d, s) \cup {n}
    <3> DEFINE T == 1..MaxSeq
    <3>1. chunks[d][s] \in Seq(T) /\ n \in T
      BY <1>1, <1>4
    <3> HIDE DEF T
    <3> QED BY <2>1, <3>1, AppendFacts DEF Queued
  <2>7. \A c \in Client : Waiting'[d][c] \in SUBSET Waiting[d][c]
    BY <1>1, <1>3, <2>1, <2>2, <2>6 DEF Waiting, Queued
  <2> QED BY <1>1, <1>2, <2>3, <2>4, <2>5, <2>7 DEF DeviceInv, Loses
<1>9. CASE /\ ~HasToWait(d, s)
           /\ mix' = [mix EXCEPT ![d] = @ \cup {Received(d, s)}]
           /\ mixedIn' = [mixedIn EXCEPT ![d] =
                [k \in DOMAIN @ \cup {s} |-> IF k = s THEN TRUE ELSE @[k]]]
           /\ UNCHANGED chunks
  <2>1. mix'[d] = mix[d] \cup {[from |-> s, seq |-> n]}
    BY <1>1, <1>4, <1>9
  <2>2. Mixed(d, s)' = Mixed(d, s) \cup {n} /\ \A c \in Client \ {s} : Mixed(d, c)' = Mixed(d, c)
    <3> DEFINE f == [from |-> s, seq |-> n]
    <3>1. f.from = s /\ f.seq = n
      OBVIOUS
    <3>2. mix'[d] = mix[d] \cup {f}
      BY <2>1
    <3> HIDE DEF f
    <3>3. \A k : k \in Mixed(d, s)' <=> k \in Mixed(d, s) \cup {n}
      BY <3>1, <3>2 DEF Mixed, NumbersOf
    <3>4. \A c \in Client \ {s} : \A k : k \in Mixed(d, c)' <=> k \in Mixed(d, c)
      BY <3>1, <3>2 DEF Mixed, NumbersOf
    <3> QED BY <3>3, <3>4
  <2>3. mixedIn'[d] = [k \in DOMAIN mixedIn[d] \cup {s} |-> IF k = s THEN TRUE ELSE mixedIn[d][k]]
    BY <1>4, <1>9
  <2>4. \A c \in Client : AlreadyMixedIn(d, c)' <=> (c = s \/ AlreadyMixedIn(d, c))
    BY <1>7, <2>3 DEF AlreadyMixedIn
  <2>5. chunks[d][s] = <<>>
    BY <1>1, <1>9 DEF DeviceInv, FlagTells, HasToWait
  <2>6. ASSUME NEW c \in Client PROVE Lane(d, c)'
    <3>1. CASE c = s
      BY <1>1, <1>2, <1>3, <1>6, <1>9, <2>2, <2>5, <3>1 DEF Lane
    <3>2. CASE c # s
      BY <1>1, <1>2, <1>3, <1>9, <2>2, <3>2 DEF DeviceInv, Lane
    <3> QED BY <3>1, <3>2
  <2>7. ASSUME NEW c \in Client PROVE FlagTells(d, c)'
    <3>1. s \notin leavers[d] => Mixed(d, s) = {}
      BY <1>1, <1>9 DEF DeviceInv, FlagTells, HasToWait
    <3>2. CASE c = s
      BY <1>1, <1>2, <2>2, <2>4, <3>1, <3>2 DEF FlagTells
    <3>3. CASE c # s
      BY <1>2, <1>9, <2>2, <2>4, <3>3 DEF DeviceInv, FlagTells
    <3> QED BY <3>2, <3>3
  <2>8. SamePeers(d)'
    BY <1>1, <1>2, <1>7, <2>3 DEF SamePeers
  <2>9. \A c \in Client : Waiting'[d][c] \in SUBSET Waiting[d][c]
    BY <1>1, <1>3, <1>9, <2>2 DEF Waiting, Queued
  <2> QED BY <1>1, <1>2, <2>6, <2>7, <2>8, <2>9 DEF DeviceInv, Loses
<1> QED BY <1>2, <1>8, <1>9

(* A reply that comes when the callback has ended is lost.                  *)
LEMMA CutKeeps ==
  ASSUME TypeInv, NEW d \in Device, DeviceInv(d), CallbackCut(d)
  PROVE  DeviceInv(d)' /\ Loses(d)
<1>1. UNCHANGED <<clientSocks, decoders, mixedIn, chunks, mix, leavers, heard, published>> /\ reply'[d] = {}
  BY DEF CallbackCut, mixer, channels, TypeInv, ThreadTypeOK
<1>2. \A c \in Client : /\ Playing(d, c)' = {} /\ Mixed(d, c)' = Mixed(d, c)
                        /\ Arriving(d, c)' = Arriving(d, c)
  BY <1>1 DEF Playing, Mixed, Arriving, NumbersOf
<1>3. \A c \in Client : Lane(d, c)'
  BY <1>1, <1>2, LaneLoses DEF DeviceInv, Lane
<1>4. \A c \in Client : FlagTells(d, c)'
  BY <1>1, <1>2 DEF DeviceInv, FlagTells, AlreadyMixedIn
<1>5. SamePeers(d)' /\ SocketsSorted(clientSocks'[d])
  BY <1>1 DEF DeviceInv, SamePeers
<1> QED BY <1>1, <1>2, <1>3, <1>4, <1>5 DEF DeviceInv, Loses, Waiting, Queued

(* Nothing older than what is heard waits when a buffer has been played.    *)
Plays(d) ==
  \A c \in Client :
    /\ heard'[d][c] \in {heard[d][c]} \cup Waiting[d][c]
    /\ Waiting'[d][c] = {n \in Waiting[d][c] : n > heard'[d][c]}

(* A buffer that is played is older than all that is still to come.         *)
LEMMA PlayKeeps ==
  ASSUME TypeInv, NEW d \in Device, DeviceInv(d), CallbackPlays(d)
  PROVE  DeviceInv(d)' /\ Plays(d)
<1>1. /\ UNCHANGED <<clientSocks, decoders, mixedIn, chunks, mix, leavers, published>> /\ reply'[d] = {}
      /\ \A c \in Client : heard'[d][c] = Latest(reply[d], c, heard[d][c])
  BY DEF CallbackPlays, mixer, channels, TypeInv, ThreadTypeOK
<1>2. \A c \in Client : /\ Playing(d, c)' = {} /\ Mixed(d, c)' = Mixed(d, c)
                        /\ Arriving(d, c)' = Arriving(d, c) /\ Queued(d, c)' = Queued(d, c)
  BY <1>1 DEF Playing, Mixed, Arriving, Queued, NumbersOf
<1>3. ASSUME NEW c \in Client
      PROVE  /\ heard'[d][c] \in {heard[d][c]} \cup Playing(d, c)
             /\ heard'[d][c] \in Int /\ heard[d][c] \in Int
             /\ \A m \in Playing(d, c) : m <= heard'[d][c] /\ m \in Int
  <2>1. reply[d] \subseteq Frame /\ heard[d][c] \in 0..MaxSeq
    BY AudioTypes
  <2>2. /\ Playing(d, c) \subseteq 1..MaxSeq
        /\ Playing(d, c) = {} => heard'[d][c] = heard[d][c]
        /\ Playing(d, c) # {} =>
             heard'[d][c] \in Playing(d, c) /\ \A m \in Playing(d, c) : m <= heard'[d][c]
    <3>1. heard'[d][c] = Latest(reply[d], c, heard[d][c])
      BY <1>1
    <3> QED BY <2>1, <3>1, LatestFacts DEF Playing
  <2> QED BY <2>1, <2>2
<1>4. ASSUME NEW c \in Client PROVE Lane(d, c)'
  <2>1. OlderFirst(heard[d][c], Playing(d, c), Mixed(d, c), chunks[d][c], Arriving(d, c), published[c])
    BY DEF DeviceInv, Lane
  <2>2. OlderFirst(heard'[d][c], {}, Mixed(d, c), chunks[d][c], Arriving(d, c), published[c])
    BY <1>3, <2>1, LanePlays
  <2> QED BY <1>1, <1>2, <2>2 DEF Lane
<1>5. \A c \in Client : FlagTells(d, c)'
  BY <1>1, <1>2 DEF DeviceInv, FlagTells, AlreadyMixedIn
<1>6. SamePeers(d)' /\ SocketsSorted(clientSocks'[d])
  BY <1>1 DEF DeviceInv, SamePeers
<1>7. ASSUME NEW c \in Client
      PROVE  /\ heard'[d][c] \in {heard[d][c]} \cup Waiting[d][c]
             /\ Waiting'[d][c] = {n \in Waiting[d][c] : n > heard'[d][c]}
  <2> DEFINE rest == Mixed(d, c) \cup Queued(d, c) \cup Arriving(d, c)
  <2>1. Waiting[d][c] = Playing(d, c) \cup rest /\ Waiting'[d][c] = rest
    BY <1>2 DEF Waiting
  <2>2. \A n \in rest : n > heard[d][c] /\ \A m \in Playing(d, c) : n > m
    <3>1. rest \subseteq Int
      BY AudioTypes
    <3> QED BY <1>3, <3>1 DEF DeviceInv, Lane, OlderFirst, Before, Queued
  <2> HIDE DEF rest
  <2>3. \A n \in rest : n > heard'[d][c]
    BY <1>3, <2>2
  <2>4. \A m \in Playing(d, c) : ~(m > heard'[d][c])
    BY <1>3
  <2> QED BY <1>3, <2>1, <2>3, <2>4
<1> QED BY <1>4, <1>5, <1>6, <1>7 DEF DeviceInv, Plays

(* A frame that is published reaches the socket of its peer, or is lost.    *)
LEMMA PublishKeeps ==
  ASSUME NoPrefixes, TypeInv, NEW c \in Client, NEW n \in (published[c] + 1)..MaxSeq,
         clientSocks' = Publish(c, n), published' = [published EXCEPT ![c] = n],
         UNCHANGED threadVars, NEW d \in Device, DeviceInv(d)
  PROVE  /\ DeviceInv(d)'
         /\ \A k \in Client \ {c} : Waiting'[d][k] = Waiting[d][k]
         /\ Waiting'[d][c] = Waiting[d][c] \/ Waiting'[d][c] = Waiting[d][c] \cup {n}
<1> DEFINE socks == clientSocks[d]
           f == [from |-> c, seq |-> n]
<1>1. /\ UNCHANGED <<decoders, mixedIn, chunks, mix, leavers, reply, heard>>
      /\ published \in [Client -> 0..MaxSeq] /\ MaxSeq \in Nat
  BY ChannelsAssumption DEF threadVars, TypeInv, ThreadTypeOK, ChannelsTypeOK
<1>2. /\ n \in 1..MaxSeq /\ published[c] < n /\ published'[c] = n
      /\ \A k \in Client \ {c} : published'[k] = published[k]
  BY <1>1
<1>3. f \in Frame /\ f.from = c /\ f.seq = n
  BY <1>2 DEF Frame
<1>4. \A s \in DOMAIN socks : s \in Client /\ socks[s] \in Seq(Frame)
  BY AudioTypes
<1>5. clientSocks'[d] = [s \in DOMAIN socks |-> IF s = f.from THEN Offer(socks[s], f, SubCap) ELSE socks[s]]
  BY <1>3, <1>4 DEF Publish, NoPrefixes
<1>6. SocketsSorted(socks)
  BY DEF DeviceInv
<1>7. \A m \in ArrivingIn(socks, c) : m < n
  <2>1. Arriving(d, c) = ArrivingIn(socks, c) /\ Arriving(d, c) \subseteq 1..MaxSeq
    BY AudioTypes DEF Arriving, ArrivingIn
  <2>2. \A m \in Arriving(d, c) : m <= published[c]
    BY DEF DeviceInv, Lane, OlderFirst
  <2> QED BY <1>1, <1>2, <2>1, <2>2
<1> HIDE DEF f
<1>8. /\ SocketsSorted(clientSocks'[d])
      /\ \A k \in Client \ {c} : ArrivingIn(clientSocks'[d], k) = ArrivingIn(socks, k)
      /\ \E S \in SUBSET {n} : ArrivingIn(clientSocks'[d], c) = ArrivingIn(socks, c) \cup S
  <2> HIDE DEF socks
  <2>1. \A m \in ArrivingIn(socks, f.from) : m < f.seq
    BY <1>3, <1>7
  <2>2. /\ DOMAIN clientSocks'[d] = DOMAIN socks
        /\ \A s \in DOMAIN socks :
             clientSocks'[d][s] = IF s = f.from THEN Offer(socks[s], f, SubCap) ELSE socks[s]
    BY <1>5
  <2>3. \A s \in DOMAIN socks : socks[s] \in Seq(Frame)
    BY <1>4
  <2>4. /\ SocketsSorted(clientSocks'[d])
        /\ \A k \in Client \ {f.from} : ArrivingIn(clientSocks'[d], k) = ArrivingIn(socks, k)
        /\ \/ ArrivingIn(clientSocks'[d], f.from) = ArrivingIn(socks, f.from)
           \/ ArrivingIn(clientSocks'[d], f.from) = ArrivingIn(socks, f.from) \cup {f.seq}
    BY <1>3, <1>6, <2>1, <2>2, <2>3, SocketsPublished
  <2>5. ArrivingIn(socks, c) = ArrivingIn(socks, c) \cup {}
    OBVIOUS
  <2> QED BY <1>3, <2>4, <2>5
<1>9. PICK S \in SUBSET {n} : ArrivingIn(clientSocks'[d], c) = ArrivingIn(socks, c) \cup S
  BY <1>8
<1>10. /\ \A k \in Client \ {c} : Arriving(d, k)' = Arriving(d, k)
       /\ Arriving(d, c)' = Arriving(d, c) \cup S
  BY <1>8, <1>9 DEF Arriving, ArrivingIn
<1>11. \A k \in Client :
         /\ Playing(d, k)' = Playing(d, k) /\ Mixed(d, k)' = Mixed(d, k)
         /\ Queued(d, k)' = Queued(d, k)
  BY <1>1 DEF Playing, Mixed, Queued
<1>12. ASSUME NEW k \in Client PROVE Lane(d, k)'
  <2>1. OlderFirst(heard[d][k], Playing(d, k), Mixed(d, k), chunks[d][k], Arriving(d, k), published[k])
    BY DEF DeviceInv, Lane
  <2>2. CASE k = c
    <3> DEFINE T == 1..MaxSeq
    <3>1. /\ heard[d][c] \in Int /\ Playing(d, c) \in SUBSET Int /\ Mixed(d, c) \in SUBSET Int
          /\ chunks[d][c] \in Seq(1..MaxSeq) /\ Arriving(d, c) \in SUBSET Int
      BY AudioTypes
    <3>2. published[c] \in Int /\ n \in Int
      BY <1>1
    <3>3. OlderFirst(heard[d][c], Playing(d, c), Mixed(d, c), chunks[d][c], Arriving(d, c) \cup S, n)
      BY <1>2, <2>1, <2>2, <3>1, <3>2, LanePublishes
    <3> QED BY <1>1, <1>2, <1>10, <1>11, <2>2, <3>3 DEF Lane
  <2>3. CASE k # c
    BY <1>1, <1>2, <1>10, <1>11, <2>1, <2>3 DEF Lane
  <2> QED BY <2>2, <2>3
<1>13. \A k \in Client : FlagTells(d, k)'
  BY <1>1, <1>11 DEF DeviceInv, FlagTells, AlreadyMixedIn
<1>14. SamePeers(d)'
  BY <1>1, <1>5 DEF DeviceInv, SamePeers
<1>15. /\ \A k \in Client \ {c} : Waiting'[d][k] = Waiting[d][k]
       /\ Waiting'[d][c] = Waiting[d][c] \cup S
  BY <1>10, <1>11 DEF Waiting
<1>16. S = {} \/ S = {n}
  OBVIOUS
<1> QED BY <1>8, <1>16, <1>12, <1>13, <1>14, <1>15 DEF DeviceInv

(* Nothing is on its way at first.                                          *)
LEMMA AudioInit == ThreadInit => AudioInv
<1> SUFFICES ASSUME ThreadInit, NEW d \in Device PROVE DeviceInv(d)
  BY DEF AudioInv
<1>1. /\ decoders[d] = {} /\ mixedIn[d] = EmptyMap /\ clientSocks[d] = EmptyMap
      /\ mix[d] = {} /\ reply[d] = {}
      /\ \A c \in Client : chunks[d][c] = <<>> /\ heard[d][c] = 0 /\ published[c] = 0
  BY DEF ThreadInit, ChannelsInit
<1>2. DOMAIN EmptyMap = {}
  BY DEF EmptyMap
<1>3. Range(<<>>) = {} /\ Increasing(<<>>)
  BY DEF Range, Increasing
<1>4. \A c \in Client : Playing(d, c) = {} /\ Mixed(d, c) = {} /\ Arriving(d, c) = {}
  BY <1>1, <1>2 DEF Playing, Mixed, Arriving, NumbersOf
<1>5. \A c \in Client : Lane(d, c)
  BY <1>1, <1>3, <1>4 DEF Lane, OlderFirst, Before
<1>6. \A c \in Client : FlagTells(d, c)
  BY <1>1, <1>2, <1>4 DEF FlagTells, AlreadyMixedIn
<1>7. SamePeers(d) /\ SocketsSorted(clientSocks[d])
  BY <1>1, <1>2 DEF SamePeers, SocketsSorted
<1> QED BY <1>5, <1>6, <1>7 DEF DeviceInv

(* What a step of the threads may do to the audio of a device.              *)
LEMMA DeviceStepKeeps ==
  ASSUME TypeInv, NEW d \in Device, DeviceInv(d), DeviceStep(d)
  PROVE  DeviceInv(d)' /\ (Loses(d) \/ Plays(d))
BY CleanupKeeps, RequestKeeps, ListKeeps, FrameKeeps, ErrorKeeps, CutKeeps, PlayKeeps DEF DeviceStep

(* AudioInv is inductive, given the types: each step moves frames forward   *)
(* along their way, loses some, or adds a newer one at its beginning.       *)
LEMMA AudioStep == NoPrefixes /\ TypeInv /\ AudioInv /\ [ThreadNext]_threadAll => AudioInv'
<1> SUFFICES ASSUME NoPrefixes, TypeInv, AudioInv, [ThreadNext]_threadAll, NEW e \in Device
             PROVE  DeviceInv(e)'
  BY DEF AudioInv
<1>1. DeviceInv(e)
  BY DEF AudioInv
<1>2. CASE UNCHANGED audio
  BY <1>1, <1>2, DeviceRests DEF audio, Untouched
<1>3. ASSUME NEW c \in Client, BrokerPublishes(c) PROVE DeviceInv(e)'
  <2>1. PICK n \in (published[c] + 1)..MaxSeq :
          /\ clientSocks' = Publish(c, n)
          /\ published' = [published EXCEPT ![c] = n]
          /\ UNCHANGED threadVars
    BY <1>3 DEF BrokerPublishes
  <2> QED BY <1>1, <2>1, PublishKeeps
<1>4. ASSUME NEW d \in Device, DeviceStep(d) PROVE DeviceInv(e)'
  <2>1. CASE e = d
    BY <1>1, <1>4, <2>1, DeviceStepKeeps
  <2>2. CASE e # d
    BY <1>1, <1>4, <2>2, OthersUntouched, DeviceRests
  <2> QED BY <2>1, <2>2
<1> QED BY <1>2, <1>3, <1>4, AudioSteps

(* What the theorems about the audio rest on.                               *)
LEMMA AudioInvariant == NoPrefixes => (ThreadSpec => [](TypeInv /\ AudioInv))
<1> SUFFICES ASSUME NoPrefixes PROVE ThreadSpec => [](TypeInv /\ AudioInv)
  OBVIOUS
<1>1. ThreadInit => TypeInv /\ AudioInv
  BY TypeInit, AudioInit
<1>2. TypeInv /\ AudioInv /\ [ThreadNext]_threadAll => (TypeInv /\ AudioInv)'
  BY TypeStep, AudioStep
<1> QED BY <1>1, <1>2, PTL DEF ThreadSpec, threadAll

(* The variables of the audio threads, the callbacks and the channels keep  *)
(* their types whatever the broker does.                                    *)
THEOREM TypesCorrect == ThreadSpec => []ThreadTypeOK
<1>1. TypeInv => ThreadTypeOK
  BY DEF TypeInv
<1> QED BY <1>1, TypeInvariant, PTL

(* Each frame of a peer is newer than all that are ahead of it on the way   *)
(* to a speaker: neither the backlog nor mix_buff nor a cull and a join in  *)
(* between lets one overtake another (audio.cpp:535-570).                   *)
THEOREM OrderKept == NoPrefixes => (ThreadSpec => []InOrder)
<1> SUFFICES ASSUME NoPrefixes PROVE ThreadSpec => []InOrder
  OBVIOUS
<1>1. AudioInv => InOrder
  BY DEF AudioInv, DeviceInv, Lane, OlderFirst, InOrder, Queued
<1> QED BY <1>1, AudioInvariant, PTL

(* No frame waits in a backlog while the place of its peer in mix_buff is   *)
(* empty: the answer to a request takes from every backlog it can.          *)
THEOREM BacklogServed == NoPrefixes => (ThreadSpec => []NoIdleBacklog)
<1> SUFFICES ASSUME NoPrefixes PROVE ThreadSpec => []NoIdleBacklog
  OBVIOUS
<1>1. AudioInv => NoIdleBacklog
  BY DEF AudioInv, DeviceInv, FlagTells, NoIdleBacklog
<1> QED BY <1>1, AudioInvariant, PTL

(* client_already_mixed_in says of each peer that stays whether mix_buff    *)
(* holds exactly one frame of it, or none: a frame is never added on top of *)
(* another of the same peer (audio.cpp:545-565).                            *)
THEOREM FlagsTrue == NoPrefixes => (ThreadSpec => []FlagTruth)
<1> SUFFICES ASSUME NoPrefixes PROVE ThreadSpec => []FlagTruth
  OBVIOUS
<1>1. ASSUME AudioInv, NEW d \in Device, NEW c \in Client \ leavers[d]
      PROVE  Cardinality(Mixed(d, c)) = (IF AlreadyMixedIn(d, c) THEN 1 ELSE 0)
  <2>1. IF AlreadyMixedIn(d, c) THEN \E n \in 1..MaxSeq : Mixed(d, c) = {n} ELSE Mixed(d, c) = {}
    BY <1>1 DEF AudioInv, DeviceInv, FlagTells
  <2> QED BY <2>1, FS_EmptySet, FS_Singleton
<1>2. AudioInv => FlagTruth
  BY <1>1 DEF FlagTruth
<1> QED BY <1>2, AudioInvariant, PTL

-----------------------------------------------------------------------------
(* The threads are a Playout.                                               *)

(* What waits are frame numbers.                                            *)
LEMMA WaitingType ==
  TypeInv => Waiting \in [Device -> [Client -> SUBSET (1..MaxSeq)]]
BY AudioTypes DEF Waiting

(* At first a Playout has nothing to play either.                           *)
LEMMA PlayoutInit == ThreadInit => Speakers!Init
<1> SUFFICES ASSUME ThreadInit PROVE Speakers!Init
  OBVIOUS
<1>1. /\ published = [c \in Client |-> 0]
      /\ heard = [d \in Device |-> [c \in Client |-> 0]]
      /\ \A d \in Device : mix[d] = {} /\ reply[d] = {} /\ clientSocks[d] = EmptyMap
      /\ \A d \in Device, c \in Client : chunks[d][c] = <<>>
  BY DEF ThreadInit, ChannelsInit
<1>2. DOMAIN EmptyMap = {} /\ Range(<<>>) = {}
  BY DEF EmptyMap, Range
<1>3. \A d \in Device, c \in Client : Waiting[d][c] = {}
  BY <1>1, <1>2 DEF Waiting, Playing, Mixed, Queued, Arriving, NumbersOf
<1>4. Waiting = [d \in Device |-> [c \in Client |-> {}]]
  BY <1>3 DEF Waiting
<1> QED BY <1>1, <1>4 DEF Speakers!Init

(* A frame the broker publishes is one a Playout is given.                  *)
LEMMA PublishMaps ==
  ASSUME NoPrefixes, TypeInv, AudioInv, NEW c \in Client, BrokerPublishes(c)
  PROVE  Speakers!PublishFrame(c)
<1>1. PICK n \in (published[c] + 1)..MaxSeq :
        /\ clientSocks' = Publish(c, n)
        /\ published' = [published EXCEPT ![c] = n]
        /\ UNCHANGED threadVars
  BY DEF BrokerPublishes
<1> DEFINE D == {d \in Device : n \in Waiting'[d][c]}
<1>2. ASSUME NEW d \in Device
      PROVE  Waiting'[d] = IF d \in D THEN [Waiting[d] EXCEPT ![c] = @ \cup {n}] ELSE Waiting[d]
  <2>0. DeviceInv(d)
    BY DEF AudioInv
  <2>1. /\ \A k \in Client \ {c} : Waiting'[d][k] = Waiting[d][k]
        /\ Waiting'[d][c] = Waiting[d][c] \/ Waiting'[d][c] = Waiting[d][c] \cup {n}
    BY <1>1, <2>0, PublishKeeps
  <2>2. /\ Waiting[d] = [k \in Client |-> Waiting[d][k]]
        /\ Waiting'[d] = [k \in Client |-> Waiting'[d][k]]
    BY DEF Waiting
  <2>3. CASE n \in Waiting'[d][c]
    <3>1. Waiting'[d][c] = Waiting[d][c] \cup {n}
      BY <2>1, <2>3
    <3> QED BY <2>1, <2>2, <2>3, <3>1
  <2>4. CASE n \notin Waiting'[d][c]
    <3>1. Waiting'[d][c] = Waiting[d][c]
      BY <2>1, <2>4
    <3> QED BY <2>1, <2>2, <2>4, <3>1
  <2> QED BY <2>3, <2>4
<1>3. Waiting' = [d \in Device |-> Waiting'[d]]
  BY DEF Waiting
<1>4. D \in SUBSET Device
  OBVIOUS
<1> HIDE DEF D
<1>5. Waiting' = [d \in Device |-> IF d \in D THEN [Waiting[d] EXCEPT ![c] = @ \cup {n}] ELSE Waiting[d]]
  BY <1>2, <1>3
<1>6. heard' = heard
  BY <1>1 DEF threadVars
<1> QED BY <1>1, <1>4, <1>5, <1>6 DEF Speakers!PublishFrame

(* What a device does is to lose frames, or to play some.                   *)
LEMMA DeviceStepMaps ==
  ASSUME TypeInv, AudioInv, NEW d \in Device, DeviceStep(d),
         heard' \in [Device -> [Client -> 0..MaxSeq]],
         Waiting' \in [Device -> [Client -> SUBSET (1..MaxSeq)]]
  PROVE  Speakers!Lose(d) \/ Speakers!Play(d)
<1>1. /\ published' = published
      /\ \A e \in Device \ {d} : heard'[e] = heard[e] /\ Waiting'[e] = Waiting[e]
  <2>1. /\ published' = published
        /\ \A e \in Device \ {d} : Untouched(e)
    BY OthersUntouched
  <2>2. ASSUME NEW e \in Device, Untouched(e) PROVE heard'[e] = heard[e] /\ Waiting'[e] = Waiting[e]
    BY <2>2 DEF Untouched, Waiting, Playing, Mixed, Queued, Arriving
  <2> QED BY <2>1, <2>2
<1>2. Waiting \in [Device -> [Client -> SUBSET (1..MaxSeq)]]
  BY WaitingType
<1>3. heard \in [Device -> [Client -> 0..MaxSeq]]
  BY DEF TypeInv, ThreadTypeOK
<1>4. CASE Loses(d)
  <2>1. heard' = heard
    BY <1>1, <1>3, <1>4 DEF Loses
  <2> QED BY <1>1, <1>2, <1>4, <2>1 DEF Loses, Speakers!Lose
<1>5. CASE Plays(d)
  <2> DEFINE h == heard'[d]
  <2>1. h \in [Client -> 0..MaxSeq] /\ heard' = [heard EXCEPT ![d] = h]
    BY <1>1, <1>3
  <2>2. \A c \in Client : h[c] \in {heard[d][c]} \cup Waiting[d][c]
    BY <1>5 DEF Plays
  <2>3. Waiting'[d] = [c \in Client |-> {n \in Waiting[d][c] : n > h[c]}]
    BY <1>2, <1>5 DEF Plays
  <2>4. Waiting' = [Waiting EXCEPT ![d] = [c \in Client |-> {n \in Waiting[d][c] : n > h[c]}]]
    BY <1>1, <1>2, <2>3
  <2> HIDE DEF h
  <2> QED BY <1>1, <2>1, <2>2, <2>4 DEF Speakers!Play
<1> QED BY <1>4, <1>5, DeviceStepKeeps DEF AudioInv

(* A device, with its sockets, decoders, flags, backlogs and callback, is a *)
(* Playout: of each peer it plays growing numbers, and nothing is heard     *)
(* that was not published. Every step is a step of Playout or leaves it     *)
(* alone.                                                                   *)
THEOREM PlayoutRefined == NoPrefixes => (ThreadSpec => ImplementsPlayout)
<1> SUFFICES ASSUME NoPrefixes PROVE ThreadSpec => ImplementsPlayout
  OBVIOUS
<1> DEFINE types ==
  /\ heard \in [Device -> [Client -> 0..MaxSeq]]
  /\ Waiting \in [Device -> [Client -> SUBSET (1..MaxSeq)]]
<1>1. TypeInv => types
  BY WaitingType DEF TypeInv, ThreadTypeOK
<1>2. TypeInv /\ AudioInv /\ types' /\ [ThreadNext]_threadAll => [Speakers!Next]_(Speakers!vars)
  <2> SUFFICES ASSUME TypeInv, AudioInv, types', [ThreadNext]_threadAll
               PROVE  [Speakers!Next]_(Speakers!vars)
    OBVIOUS
  <2>1. CASE UNCHANGED audio
    <3>1. Waiting' = Waiting
      BY <2>1 DEF audio, Waiting, Playing, Mixed, Queued, Arriving
    <3> QED BY <2>1, <3>1 DEF audio, Speakers!vars
  <2>2. ASSUME NEW c \in Client, BrokerPublishes(c) PROVE Speakers!Next
    BY <2>2, PublishMaps DEF Speakers!Next
  <2>3. ASSUME NEW d \in Device, DeviceStep(d) PROVE Speakers!Next
    BY <2>3, DeviceStepMaps DEF Speakers!Next
  <2> QED BY <2>1, <2>2, <2>3, AudioSteps
<1> HIDE DEF types
<1> QED BY <1>1, <1>2, PlayoutInit, AudioInvariant, PTL
      DEF ThreadSpec, threadAll, ImplementsPlayout, Speakers!Spec

-----------------------------------------------------------------------------
(* The other way a thread could fail: a frame without a decoder.            *)

(* A frame that is read comes from the peer of its socket, who has a        *)
(* decoder: where no identity begins another, no null decoder is used.      *)
THEOREM NeverCrashes == NoPrefixes => (ThreadSpec => []Running)
<1> SUFFICES ASSUME NoPrefixes PROVE ThreadSpec => []Running
  OBVIOUS
<1>1. ThreadInit => Running
  BY DEF ThreadInit, Running
<1>2. TypeInv /\ AudioInv /\ Running /\ [ThreadNext]_threadAll => Running'
  <2> SUFFICES ASSUME TypeInv, AudioInv, Running, [ThreadNext]_threadAll PROVE Running'
    OBVIOUS
  <2>0. status \in [Device -> {"starting", "opening", "running", "ending", "stopped", "crashed"}]
    BY DEF TypeInv, ThreadTypeOK
  <2>1. CASE BrokerDoes
    BY <2>1 DEF BrokerDoes, BrokerSendsList, BrokerSendsShutdown, Sends, BrokerPublishes,
      BrokerTakesInput, BrokerCloses, UserInterrupts, threadVars, Running
  <2>2. ASSUME NEW d \in Device, NEW s \in DOMAIN clientSocks[d] PROVE ~DecodeWithoutDecoder(d, s)
    <3>1. SUFFICES ASSUME DecodeWithoutDecoder(d, s) PROVE FALSE
      OBVIOUS
    <3>2. DeviceInv(d)
      BY DEF AudioInv
    <3>3. s \in Client /\ clientSocks[d][s] \in Seq(Frame)
      BY AudioTypes
    <3>4. clientSocks[d][s] # <<>>
      BY <3>1, <3>3 DEF DecodeWithoutDecoder, Turn, TypeInv, ReadyHolds
    <3>5. SortedFrames(clientSocks[d][s], s)
      BY <3>2 DEF DeviceInv, SocketsSorted
    <3>6. Received(d, s).from = s
      BY <3>3, <3>4, <3>5, FramesTail DEF Received
    <3> QED BY <3>1, <3>2, <3>6 DEF DecodeWithoutDecoder, DeviceInv, SamePeers
  <2>3. ASSUME NEW d \in Device,
               Thread(d) \/ Callback(d) \/ EncodeError(d) \/ PollInterrupted(d) \/ CallbackCut(d)
        PROVE  Running'
    <3> USE <2>0 DEF Running
    <3>1. CASE InitSocks(d) \/ OpenStream(d) \/ PollInterrupted(d) \/ Cleanup(d)
      BY <3>1 DEF InitSocks, OpenStream, PollInterrupted, Cleanup
    <3>2. CASE HandleShutdown(d)
      BY <3>2 DEF HandleShutdown, LastPass
    <3>3. CASE Poll(d) \/ ServeRequest(d) \/ HandleList(d) \/ EncodeRaw(d) \/ EncodeError(d) \/ Callback(d)
                 \/ CallbackCut(d)
      BY <3>3 DEF Poll, ServeRequest, HandleList, EncodeRaw, EncodeError, Callback, CallbackAsks,
        CallbackPlays, CallbackRecords, CallbackSends, CallbackCut
    <3>4. ASSUME NEW s \in DOMAIN clientSocks[d], DecodeFrame(d, s) \/ DecodeError(d, s) PROVE Running'
      BY <3>4 DEF DecodeFrame, DecodeError
    <3> QED BY <2>2, <2>3, <3>1, <3>2, <3>3, <3>4 DEF Thread, Pass, ServeClient
  <2>4. CASE UNCHANGED threadAll
    BY <2>4 DEF threadAll, threadVars, Running
  <2> QED BY <2>1, <2>3, <2>4 DEF ThreadNext, DeviceThreadsDo
<1> QED BY <1>1, <1>2, AudioInvariant, PTL DEF ThreadSpec, threadAll

-----------------------------------------------------------------------------
(* What holds whatever the identities are.                                  *)

(* A thread that has not opened its cmd_sock is not online, and nobody is   *)
(* told to end before SIGINT.                                               *)
LifeInv ==
  \A d \in Device :
    /\ status[d] = "starting" => d \notin online
    /\ status[d] = "ending" => ~shouldRun
    /\ \A i \in 1..Len(cmdSock[d]) : cmdSock[d][i].type = "CMD_SHUTDOWN" => ~shouldRun

(* Every peer that is listened to has a decoder and a mixing flag, and      *)
(* nobody has a backlog without a flag.                                     *)
MapsInv ==
  \A d \in Device :
    /\ DOMAIN clientSocks[d] \subseteq decoders[d] \cap DOMAIN mixedIn[d]
    /\ \A c \in Client \ DOMAIN mixedIn[d] : chunks[d][c] = <<>>

(* LifeInv is inductive.                                                    *)
LEMMA LifeStep == TypeInv /\ LifeInv /\ [ThreadNext]_threadAll => LifeInv'
<1> SUFFICES ASSUME TypeInv, LifeInv, [ThreadNext]_threadAll PROVE LifeInv'
  OBVIOUS
<1> USE DEF TypeInv, ThreadTypeOK, ChannelsTypeOK, LifeInv
<1>1. ASSUME UNCHANGED <<status, shouldRun, online, cmdSock>> PROVE LifeInv'
  BY <1>1
<1>2. ASSUME NEW cmd \in Command, cmd.type = "CMD_SHUTDOWN" => ~shouldRun, Sends(cmd) PROVE LifeInv'
  <2>1. UNCHANGED <<status, shouldRun, online>>
    BY <1>2 DEF Sends, threadVars
  <2>2. ASSUME NEW d \in Device, NEW i \in 1..Len(cmdSock'[d]), cmdSock'[d][i].type = "CMD_SHUTDOWN"
        PROVE  ~shouldRun
    <3>1. CASE CmdAccepted(d)
      <4>1. cmdSock'[d] = Append(cmdSock[d], cmd) /\ cmdSock[d] \in Seq(Command)
        BY <1>2, <3>1 DEF Sends
      <4>2. /\ Len(cmdSock'[d]) = Len(cmdSock[d]) + 1 /\ Len(cmdSock[d]) \in Nat
            /\ \A j \in 1..Len(cmdSock[d]) : cmdSock'[d][j] = cmdSock[d][j]
            /\ cmdSock'[d][Len(cmdSock[d]) + 1] = cmd
        BY <4>1, AppendProperties, LenProperties
      <4>3. i \in 1..Len(cmdSock[d]) \/ i = Len(cmdSock[d]) + 1
        BY <2>2, <4>2
      <4> QED BY <1>2, <2>2, <4>2, <4>3
    <3>2. CASE ~CmdAccepted(d)
      BY <1>2, <2>2, <3>2 DEF Sends
    <3> QED BY <3>1, <3>2
  <2> QED BY <2>1, <2>2
<1>3. CASE BrokerDoes
  <2>1. \A L \in SUBSET Client : CmdList(L) \in Command /\ CmdList(L).type # "CMD_SHUTDOWN"
    BY DEF Command, CmdList
  <2>2. CmdShutdown \in Command
    BY DEF Command
  <2>3. CASE BrokerSendsList \/ BrokerSendsShutdown
    BY <1>2, <2>1, <2>2, <2>3 DEF BrokerSendsList, BrokerSendsShutdown
  <2>4. CASE UserInterrupts
    BY <2>4 DEF UserInterrupts, threadVars
  <2>5. CASE \/ \E c \in Client : BrokerPublishes(c)
             \/ \E d \in Device : BrokerTakesInput(d) \/ BrokerCloses(d)
    BY <1>1, <2>5 DEF BrokerPublishes, BrokerTakesInput, BrokerCloses, threadVars
  <2> QED BY <1>3, <2>3, <2>4, <2>5 DEF BrokerDoes
<1>4. ASSUME NEW d \in Device,
             Thread(d) \/ Callback(d) \/ EncodeError(d) \/ PollInterrupted(d) \/ CallbackCut(d)
      PROVE  LifeInv'
  <2>1. CASE InitSocks(d)
    BY <2>1 DEF InitSocks
  <2>2. CASE OpenStream(d) \/ PollInterrupted(d)
    BY <2>2 DEF OpenStream, PollInterrupted, channels
  <2>3. CASE Cleanup(d)
    BY <2>3 DEF Cleanup
  <2>4. CASE HandleList(d) \/ HandleShutdown(d)
    <3>1. cmdSock[d] \in Seq(Command) /\ cmdSock[d] # <<>>
      BY <2>4 DEF HandleList, HandleShutdown, CmdTurn, ReadyHolds
    <3>2. /\ Len(Tail(cmdSock[d])) = Len(cmdSock[d]) - 1 /\ Len(cmdSock[d]) \in Nat \ {0}
          /\ \A i \in 1..(Len(cmdSock[d]) - 1) : Tail(cmdSock[d])[i] = cmdSock[d][i + 1]
          /\ Head(cmdSock[d]) = cmdSock[d][1]
      BY <3>1, TailFacts
    <3>3. cmdSock' = [cmdSock EXCEPT ![d] = Tail(@)] /\ UNCHANGED <<shouldRun, online>>
      BY <2>4 DEF HandleList, HandleShutdown
    <3>4. ASSUME NEW e \in Device, NEW i \in 1..Len(cmdSock'[e]), cmdSock'[e][i].type = "CMD_SHUTDOWN"
          PROVE  ~shouldRun
      <4>1. CASE e = d
        <5>1. i + 1 \in 1..Len(cmdSock[d]) /\ cmdSock[d][i + 1].type = "CMD_SHUTDOWN"
          BY <3>2, <3>3, <3>4, <4>1
        <5> QED BY <5>1
      <4>2. CASE e # d
        BY <3>3, <3>4, <4>2
      <4> QED BY <4>1, <4>2
    <3>5. CASE HandleList(d)
      BY <3>3, <3>4, <3>5 DEF HandleList
    <3>6. CASE HandleShutdown(d)
      <4>1. 1 \in 1..Len(cmdSock[d]) /\ cmdSock[d][1].type = "CMD_SHUTDOWN"
        BY <3>2, <3>6 DEF HandleShutdown
      <4>2. ~shouldRun
        BY <4>1
      <4> QED BY <3>3, <3>6, <4>2 DEF HandleShutdown, LastPass
    <3> QED BY <2>4, <3>5, <3>6
  <2>5. CASE Poll(d) \/ ServeRequest(d) \/ EncodeRaw(d) \/ EncodeError(d) \/ Callback(d) \/ CallbackCut(d)
    BY <1>1, <2>5 DEF Poll, ServeRequest, EncodeRaw, EncodeError, Callback, CallbackAsks, CallbackPlays,
      CallbackRecords, CallbackSends, CallbackCut, channels
  <2>6. ASSUME NEW s \in DOMAIN clientSocks[d], DecodeFrame(d, s) \/ DecodeError(d, s) PROVE LifeInv'
    BY <1>1, <2>6 DEF DecodeFrame, DecodeError
  <2>7. ASSUME NEW s \in DOMAIN clientSocks[d], DecodeWithoutDecoder(d, s) PROVE LifeInv'
    BY <2>7 DEF DecodeWithoutDecoder, channels
  <2> QED BY <1>4, <2>1, <2>2, <2>3, <2>4, <2>5, <2>6, <2>7 DEF Thread, Pass, ServeClient
<1>5. CASE UNCHANGED threadAll
  BY <1>1, <1>5 DEF threadAll, threadVars, channels
<1> QED BY <1>3, <1>4, <1>5 DEF ThreadNext, DeviceThreadsDo

(* MapsInv is inductive, with no assumption on the identities.              *)
LEMMA MapsStep == TypeInv /\ MapsInv /\ [ThreadNext]_threadAll => MapsInv'
<1> SUFFICES ASSUME TypeInv, MapsInv, [ThreadNext]_threadAll PROVE MapsInv'
  OBVIOUS
<1> DEFINE agree(d) ==
  /\ DOMAIN clientSocks[d] \subseteq decoders[d] \cap DOMAIN mixedIn[d]
  /\ \A c \in Client \ DOMAIN mixedIn[d] : chunks[d][c] = <<>>
<1>1. \A d \in Device : agree(d)
  BY DEF MapsInv
<1>2. ASSUME NEW d \in Device, UNCHANGED <<decoders, mixedIn, chunks>>,
             DOMAIN clientSocks'[d] = DOMAIN clientSocks[d]
      PROVE  agree(d)'
  BY <1>1, <1>2
<1>3. CASE UNCHANGED audio
  BY <1>2, <1>3 DEF audio, MapsInv
<1>4. ASSUME NEW c \in Client, BrokerPublishes(c) PROVE MapsInv'
  <2>1. \A d \in Device : DOMAIN clientSocks'[d] = DOMAIN clientSocks[d]
    BY <1>4 DEF BrokerPublishes, Publish
  <2> QED BY <1>2, <1>4, <2>1 DEF BrokerPublishes, threadVars, MapsInv
<1>5. ASSUME NEW d \in Device, DeviceStep(d) PROVE MapsInv'
  <2> USE DEF TypeInv, ThreadTypeOK, ChannelsTypeOK
  <2>1. ASSUME NEW e \in Device \ {d} PROVE agree(e)'
    BY <1>1, <1>5, OthersUntouched DEF Untouched
  <2>2. ASSUME Cleanup(d) PROVE agree(d)'
    BY <2>2 DEF Cleanup, EmptyMap
  <2>3. ASSUME ServeRequest(d) PROVE agree(d)'
    <3>1. /\ clientSocks' = clientSocks /\ decoders' = decoders
          /\ mixedIn'[d] = MixedInNext(d) /\ chunks'[d] = ChunksLeft(d)
      BY <2>3 DEF ServeRequest, channels
    <3>2. /\ DOMAIN mixedIn'[d] = DOMAIN mixedIn[d]
          /\ \A c \in Client \ DOMAIN mixedIn[d] : chunks'[d][c] = chunks[d][c]
      BY <3>1 DEF ChunksLeft, Backlogged, MixedInNext
    <3> QED BY <1>1, <3>1, <3>2
  <2>4. ASSUME HandleList(d) PROVE agree(d)'
    <3>1. /\ DOMAIN clientSocks'[d] = Listed(d) /\ decoders'[d] = decoders[d] \cup Joined(d)
          /\ mixedIn'[d] = FlagsKept(d) /\ chunks'[d] = ChunksKept(d)
      BY <2>4 DEF HandleList, Resubscribed, Listed
    <3>2. DOMAIN mixedIn'[d] = (DOMAIN mixedIn[d] \ Kicked(d)) \cup Joined(d)
      BY <3>1 DEF FlagsKept
    <3>3. \A c \in Client : chunks'[d][c] = IF c \in Kicked(d) THEN <<>> ELSE chunks[d][c]
      BY <3>1 DEF ChunksKept
    <3> QED BY <1>1, <3>1, <3>2, <3>3 DEF Kicked, Joined
  <2>5. ASSUME CallbackPlays(d) \/ CallbackCut(d) PROVE agree(d)'
    BY <1>2, <2>5 DEF CallbackPlays, CallbackCut, mixer, channels
  <2>6. ASSUME NEW s \in DOMAIN clientSocks[d], DecodeFrame(d, s) \/ DecodeError(d, s) PROVE agree(d)'
    <3>1. DOMAIN clientSocks'[d] = DOMAIN clientSocks[d]
      <4>1. TakeFrame(d, s)
        BY <2>6 DEF DecodeFrame, DecodeError
      <4> QED BY <4>1 DEF TakeFrame
    <3>2. CASE DecodeError(d, s)
      BY <1>2, <3>1, <3>2 DEF DecodeError, mixer
    <3>3. CASE DecodeFrame(d, s)
      <4> DEFINE c == Received(d, s).from
      <4>1. c \in decoders[d] /\ decoders' = decoders /\ c \in Client
        BY <3>3 DEF DecodeFrame
      <4>2. \/ /\ c \in DOMAIN mixedIn[d] /\ mixedIn' = mixedIn
               /\ chunks' = [chunks EXCEPT ![d][c] = Append(@, Received(d, s).seq)]
            \/ DOMAIN mixedIn'[d] = DOMAIN mixedIn[d] \cup {c} /\ chunks' = chunks
        <5>1. \/ /\ HasToWait(d, c)
                 /\ chunks' = [chunks EXCEPT ![d][c] = Append(@, Received(d, s).seq)]
                 /\ UNCHANGED <<mix, mixedIn>>
              \/ /\ mixedIn' = [mixedIn EXCEPT ![d] =
                      [k \in DOMAIN @ \cup {c} |-> IF k = c THEN TRUE ELSE @[k]]]
                 /\ UNCHANGED chunks
          BY <3>3 DEF DecodeFrame
        <5> HIDE DEF c
        <5>2. ASSUME mixedIn' = [mixedIn EXCEPT ![d] =
                       [k \in DOMAIN @ \cup {c} |-> IF k = c THEN TRUE ELSE @[k]]]
              PROVE  DOMAIN mixedIn'[d] = DOMAIN mixedIn[d] \cup {c}
          <6>1. mixedIn'[d] = [k \in DOMAIN mixedIn[d] \cup {c} |-> IF k = c THEN TRUE ELSE mixedIn[d][k]]
            BY <5>2
          <6> QED BY <6>1
        <5> QED BY <5>1, <5>2 DEF HasToWait, AlreadyMixedIn
      <4> HIDE DEF c
      <4> QED BY <1>1, <3>1, <4>1, <4>2
    <3> QED BY <2>6, <3>2, <3>3
  <2>7. agree(d)'
    BY <1>5, <2>2, <2>3, <2>4, <2>5, <2>6 DEF DeviceStep
  <2> QED BY <2>1, <2>7 DEF MapsInv
<1> QED BY <1>3, <1>4, <1>5, AudioSteps
============================================================================
