---------------------------- MODULE AudioThread ----------------------------
(***************************************************************************)
(* The audio thread of each device, and the PortAudio callback it serves.  *)
(* The callback of an output device asks for a buffer and waits for it;    *)
(* the thread answers with mix_buff and then mixes the next buffer out of  *)
(* the backlog of every peer.  In between, a frame that arrives goes into  *)
(* mix_buff if its peer has none in there yet, and into its backlog        *)
(* otherwise.  The callback of an input device sends raw buffers, which    *)
(* the thread encodes and passes to the broker, and waits for room.        *)
(*                                                                         *)
(* A pass of the loop serves, in this order, the sockets that the poll     *)
(* reported: the request of the callback, a command, a raw buffer, and a   *)
(* frame of every peer.  The broker is an environment here.                *)
(***************************************************************************)
EXTENDS Channels

CONSTANTS
  Directions,  \* what parseOptions may make of the directions of the devices
  RawCap       \* high water mark of the path from the callback to raw_audio_out

ASSUME AudioThreadAssumption ==
  /\ Directions \subseteq [Device -> {"INPUT", "OUTPUT"}]
  /\ RawCap \in Nat \ {0}
  \* in the sets of ready sockets the thread's own three are told from those for the peers
  /\ Client \cap {"mixed", "cmd", "raw"} = {}

VARIABLES
  direction,  \* whether a device plays or records
  status,     \* "starting", "opening", "running", "ending", "stopped" or "crashed"
  ready,      \* the sockets that the last poll reported and that are still to be served
  decoders,   \* the peers that have a decoder
  mixedIn,    \* clientMixedInAlready
  chunks,     \* clientChunks, an absent entry being the same as an empty one
  mix,        \* the frames that have been added up in mix_buff
  leavers,    \* history: the peers kicked since mix_buff was cleared last
  callback,   \* "idle", "asked", "answered", or "sending" (it may have to wait in its zmq_send)
  reply,      \* the frames in the buffer that answers the callback
  heard,      \* the last frame of each peer that has been played
  rawSock,    \* the buffers on their way from the callback to the thread
  recorded    \* the number of the last buffer that the callback has sent

threadVars == <<direction, status, ready, decoders, mixedIn, chunks, mix, leavers, callback, reply, heard, rawSock, recorded>>
mixer == <<decoders, mixedIn, chunks, mix, leavers>>
stream == <<direction, callback, reply, heard, rawSock, recorded>>

ThreadInit ==
  /\ ChannelsInit
  /\ direction \in Directions
  /\ status = [d \in Device |-> "starting"]
  /\ ready = [d \in Device |-> {}]
  /\ decoders = [d \in Device |-> {}]
  /\ mixedIn = [d \in Device |-> EmptyMap]
  /\ chunks = [d \in Device |-> [c \in Client |-> <<>>]]
  /\ mix = [d \in Device |-> {}]
  /\ leavers = [d \in Device |-> {}]
  /\ callback = [d \in Device |-> "idle"]
  /\ reply = [d \in Device |-> {}]
  /\ heard = [d \in Device |-> [c \in Client |-> 0]]
  /\ rawSock = [d \in Device |-> <<>>]
  /\ recorded = [d \in Device |-> 0]

Streaming(d) == status[d] \in {"running", "ending"}

-----------------------------------------------------------------------------
(* The life of a thread.                                                    *)

(* initSocks: from here on commands find the thread.                        *)
InitSocks(d) ==
  /\ status[d] = "starting"
  /\ status' = [status EXCEPT ![d] = "opening"]
  /\ online' = online \cup {d}
  /\ UNCHANGED <<ready, mixer, stream>>
  /\ UNCHANGED <<shouldRun, cmdSock, clientSocks, published, inputSock, closed>>

(* initOpus and initPortAudio: the callback starts.                         *)
OpenStream(d) ==
  /\ status[d] = "opening"
  /\ status' = [status EXCEPT ![d] = "running"]
  /\ UNCHANGED <<ready, mixer, stream, channels>>

Readable(d) ==
  {i \in {"mixed"} : callback[d] = "asked"} \cup
  {i \in {"cmd"} : cmdSock[d] # <<>>} \cup
  {i \in {"raw"} : rawSock[d] # <<>>} \cup
  {s \in DOMAIN clientSocks[d] : clientSocks[d][s] # <<>>}

(* zmq_poll waits until there is something to report; of the sockets that   *)
(* become readable while it looks at them it may leave some out.            *)
Poll(d) ==
  /\ status[d] = "running" /\ ready[d] = {}
  /\ \E S \in SUBSET Readable(d) \ {{}} : ready' = [ready EXCEPT ![d] = S]
  /\ UNCHANGED <<status, mixer, stream, channels>>

(* Faulty variant: any failure of zmq_poll ends the thread.                 *)
PollFails(d) ==
  /\ status[d] = "running" /\ ready[d] = {}
  /\ status' = [status EXCEPT ![d] = "ending"]
  /\ UNCHANGED <<ready, mixer, stream, channels>>

(* zmq_poll fails: the signal has interrupted this thread.                  *)
PollInterrupted(d) ==
  /\ ~shouldRun
  /\ status[d] = "running" /\ ready[d] = {}
  /\ status' = [status EXCEPT ![d] = "ending"]
  /\ UNCHANGED <<ready, mixer, stream, channels>>

(* The end of the thread: Pa_CloseStream waits for the callback to return.  *)
Cleanup(d) ==
  /\ status[d] = "ending" /\ ready[d] = {}
  /\ callback[d] = "idle"
  /\ status' = [status EXCEPT ![d] = "stopped"]
  /\ online' = online \ {d}
  /\ cmdSock' = [cmdSock EXCEPT ![d] = <<>>]
  /\ clientSocks' = [clientSocks EXCEPT ![d] = EmptyMap]
  /\ decoders' = [decoders EXCEPT ![d] = {}]
  /\ mixedIn' = [mixedIn EXCEPT ![d] = EmptyMap]
  /\ chunks' = [chunks EXCEPT ![d] = [c \in Client |-> <<>>]]
  /\ mix' = [mix EXCEPT ![d] = {}]
  /\ leavers' = [leavers EXCEPT ![d] = {}]
  /\ rawSock' = [rawSock EXCEPT ![d] = <<>>]
  /\ UNCHANGED <<ready, callback, reply, heard, recorded, direction>>
  /\ UNCHANGED <<shouldRun, published, inputSock, closed>>

-----------------------------------------------------------------------------
(* A pass of the loop.                                                      *)

(* Faulty variant: a backlog of a single frame is overlooked.               *)
BackloggedTwice(d) == {c \in DOMAIN mixedIn[d] : Len(chunks[d][c]) > 1}

(* The peers that have audio waiting for the next buffer.                   *)
Backlogged(d) == {c \in DOMAIN mixedIn[d] : chunks[d][c] # <<>>}

(* Faulty variant: a peer without backlog still counts as mixed in.         *)
StillMixedIn(d) == mixedIn[d]

(* Only who had a frame waiting is mixed into the next buffer already.      *)
MixedInNext(d) == [c \in DOMAIN mixedIn[d] |-> mixedIn[d][c] /\ c \in Backlogged(d)]

(* Faulty variant: a frame that is mixed in stays in the backlog.           *)
ChunksUncut(d) == chunks[d]

(* What is left of the backlogs when the next buffer has been mixed.        *)
ChunksLeft(d) ==
  [c \in Client |-> IF c \in Backlogged(d) THEN Tail(chunks[d][c]) ELSE chunks[d][c]]

(* The request of the callback: it gets the buffer, and the first frame of  *)
(* every backlog makes the next one.  An answer to a callback whose socket  *)
(* has been closed blocks.                                                  *)
ServeRequest(d) ==
  /\ "mixed" \in ready[d] /\ d \notin closed
  /\ ready' = [ready EXCEPT ![d] = @ \ {"mixed"}]
  /\ callback' = [callback EXCEPT ![d] = "answered"]
  /\ reply' = [reply EXCEPT ![d] = mix[d]]
  /\ mix' = [mix EXCEPT ![d] = {[from |-> c, seq |-> Head(chunks[d][c])] : c \in Backlogged(d)}]
  /\ chunks' = [chunks EXCEPT ![d] = ChunksLeft(d)]
  /\ mixedIn' = [mixedIn EXCEPT ![d] = MixedInNext(d)]
  /\ leavers' = [leavers EXCEPT ![d] = {}]
  /\ UNCHANGED <<status, decoders, heard, rawSock, recorded, direction, channels>>

(* Faulty variant: a command comes before the request of the callback.      *)
CmdTurnFirst(d) == "cmd" \in ready[d]

(* It is the turn of the command: the request of the callback comes first.  *)
CmdTurn(d) == "cmd" \in ready[d] /\ "mixed" \notin ready[d]

Listed(d) == ListRead(Head(cmdSock[d]).clients)
Kicked(d) == DOMAIN clientSocks[d] \ Listed(d)

(* Faulty variant: the test for a new peer is the wrong way round.          *)
JoinedBefore(d) == DOMAIN clientSocks[d] \ Listed(d)

(* The peers that get a decoder, a flag and a socket.                       *)
Joined(d) == Listed(d) \ DOMAIN clientSocks[d]

(* Faulty variant: the backlog of a peer outlives the peer.                 *)
KeepChunks(d) == chunks[d]

(* What is left of the backlogs when those who are kicked have lost theirs. *)
ChunksKept(d) == [c \in Client |-> IF c \in Kicked(d) THEN <<>> ELSE chunks[d][c]]

(* The mixing flags after a client list: a peer that joins starts unmixed.  *)
FlagsKept(d) ==
  [c \in (DOMAIN mixedIn[d] \ Kicked(d)) \cup Joined(d) |->
     IF c \in Joined(d) THEN FALSE ELSE mixedIn[d][c]]

(* A client list: sockets and decoders for those who join, nothing left of  *)
(* those who are kicked but their decoder and what is in mix_buff.  What    *)
(* else the poll has reported has to wait for the next one.                 *)
HandleList(d) ==
  /\ CmdTurn(d)
  /\ Head(cmdSock[d]).type = "CMD_CLIENTLIST"
  /\ cmdSock' = [cmdSock EXCEPT ![d] = Tail(@)]
  /\ clientSocks' = [clientSocks EXCEPT ![d] = Resubscribed(d, Head(cmdSock[d]).clients)]
  /\ decoders' = [decoders EXCEPT ![d] = @ \cup Joined(d)]
  /\ mixedIn' = [mixedIn EXCEPT ![d] = FlagsKept(d)]
  /\ chunks' = [chunks EXCEPT ![d] = ChunksKept(d)]
  /\ leavers' = [leavers EXCEPT ![d] = @ \cup Kicked(d)]
  /\ ready' = [ready EXCEPT ![d] = {}]
  /\ UNCHANGED <<status, mix, stream, shouldRun, online, published, inputSock, closed>>

(* Faulty variant: the shutdown is read and forgotten.                      *)
LastPassNever(d) == status

(* This pass of the loop is the last one.                                   *)
LastPass(d) == [status EXCEPT ![d] = "ending"]

(* CMD_SHUTDOWN.                                                            *)
HandleShutdown(d) ==
  /\ CmdTurn(d)
  /\ Head(cmdSock[d]).type = "CMD_SHUTDOWN"
  /\ cmdSock' = [cmdSock EXCEPT ![d] = Tail(@)]
  /\ ready' = [ready EXCEPT ![d] = @ \ {"cmd"}]
  /\ status' = LastPass(d)
  /\ UNCHANGED <<mixer, stream, shouldRun, online, clientSocks, published, inputSock, closed>>

(* A raw buffer: encoded and sent to the broker, which blocks as long as    *)
(* there is no room (a buffer that waits for room counts as still being in  *)
(* raw_audio_out), ...                                                      *)
EncodeRaw(d) ==
  /\ "raw" \in ready[d] /\ ready[d] \cap {"mixed", "cmd"} = {}
  /\ Len(inputSock[d]) < InCap
  /\ rawSock' = [rawSock EXCEPT ![d] = Tail(@)]
  /\ ready' = [ready EXCEPT ![d] = @ \ {"raw"}]
  /\ inputSock' = [inputSock EXCEPT ![d] = Append(@, Head(rawSock[d]))]
  /\ UNCHANGED <<status, mixer, callback, reply, heard, recorded, direction>>
  /\ UNCHANGED <<shouldRun, online, cmdSock, clientSocks, published, closed>>

(* ... or the encoder refuses it, or the signal interrupts the send.        *)
EncodeError(d) ==
  /\ "raw" \in ready[d] /\ ready[d] \cap {"mixed", "cmd"} = {}
  /\ rawSock' = [rawSock EXCEPT ![d] = Tail(@)]
  /\ ready' = [ready EXCEPT ![d] = @ \ {"raw"}]
  /\ UNCHANGED <<status, mixer, callback, reply, heard, recorded, direction, channels>>

(* It is the turn of the client socket for s.                               *)
Turn(d, s) == s \in ready[d] /\ ready[d] \subseteq Client

Received(d, s) == Head(clientSocks[d][s])
TakeFrame(d, s) == clientSocks' = [clientSocks EXCEPT ![d][s] = Tail(@)]
AlreadyMixedIn(d, c) == c \in DOMAIN mixedIn[d] /\ mixedIn[d][c]

(* Faulty variant: a frame goes into the buffer if the backlog is empty.    *)
MixIfNoBacklog(d, c) == chunks[d][c] # <<>>

(* Whether a frame of c has to wait for a later buffer.                     *)
HasToWait(d, c) == AlreadyMixedIn(d, c)

(* A frame of a peer, out of the socket for s (the frame says whose it is). *)
DecodeFrame(d, s) ==
  LET f == Received(d, s)
      c == f.from
  IN
  /\ Turn(d, s) /\ c \in decoders[d]
  /\ TakeFrame(d, s)
  /\ ready' = [ready EXCEPT ![d] = @ \ {s}]
  /\ \/ /\ HasToWait(d, c)
        /\ chunks' = [chunks EXCEPT ![d][c] = Append(@, f.seq)]
        /\ UNCHANGED <<mix, mixedIn>>
     \/ /\ ~HasToWait(d, c)
        /\ mix' = [mix EXCEPT ![d] = @ \cup {f}]
        /\ mixedIn' = [mixedIn EXCEPT ![d] =
             [k \in DOMAIN @ \cup {c} |-> IF k = c THEN TRUE ELSE @[k]]]
        /\ UNCHANGED chunks
  /\ UNCHANGED <<status, decoders, leavers, stream, shouldRun, online, cmdSock, published, inputSock, closed>>

(* The decoder makes something else of a frame than it says it is: the      *)
(* frame is dropped, and the other client sockets wait for the next pass.   *)
DecodeError(d, s) ==
  /\ Turn(d, s) /\ Received(d, s).from \in decoders[d]
  /\ TakeFrame(d, s)
  /\ ready' = [ready EXCEPT ![d] = {}]
  /\ UNCHANGED <<status, mixer, stream, shouldRun, online, cmdSock, published, inputSock, closed>>

(* A frame of a peer for which no decoder has been made yet is decoded with *)
(* a null pointer, which ends the process.                                  *)
DecodeWithoutDecoder(d, s) ==
  /\ Turn(d, s) /\ Received(d, s).from \notin decoders[d]
  /\ status' = [e \in Device |-> "crashed"]
  /\ ready' = [e \in Device |-> {}]
  /\ callback' = [e \in Device |-> "idle"]
  /\ UNCHANGED <<mixer, reply, heard, rawSock, recorded, direction, channels>>

-----------------------------------------------------------------------------
(* pa_callback.                                                             *)

(* The device wants a buffer to play.  Once its socket is closed the        *)
(* callback returns at once, with nothing.                                  *)
CallbackAsks(d) ==
  /\ direction[d] = "OUTPUT" /\ Streaming(d) /\ d \notin closed
  /\ callback[d] = "idle"
  /\ callback' = [callback EXCEPT ![d] = "asked"]
  /\ UNCHANGED <<status, ready, mixer, reply, heard, rawSock, recorded, direction, channels>>

(* The frames of c in a set of frames, by their numbers.                    *)
NumbersOf(frames, c) == {f.seq : f \in {g \in frames : g.from = c}}
Latest(frames, c, before) ==
  IF NumbersOf(frames, c) = {} THEN before
  ELSE CHOOSE n \in NumbersOf(frames, c) : \A m \in NumbersOf(frames, c) : m <= n

(* The answer has come and is played.                                       *)
CallbackPlays(d) ==
  /\ callback[d] = "answered"
  /\ callback' = [callback EXCEPT ![d] = "idle"]
  /\ reply' = [reply EXCEPT ![d] = {}]
  /\ heard' = [heard EXCEPT ![d] = [c \in Client |-> Latest(reply[d], c, heard[d][c])]]
  /\ UNCHANGED <<status, ready, mixer, rawSock, recorded, direction, channels>>

(* The destructor closed the socket under a callback that waits on it: the  *)
(* callback may return, or wait for ever.                                   *)
CallbackCut(d) ==
  /\ callback[d] # "idle" /\ d \in closed
  /\ callback' = [callback EXCEPT ![d] = "idle"]
  /\ reply' = [reply EXCEPT ![d] = {}]
  /\ UNCHANGED <<status, ready, mixer, heard, rawSock, recorded, direction, channels>>

(* The device has recorded a buffer, and the callback sends it, ...         *)
CallbackRecords(d) ==
  /\ direction[d] = "INPUT" /\ Streaming(d) /\ d \notin closed
  /\ callback[d] = "idle" /\ recorded[d] < MaxSeq
  /\ callback' = [callback EXCEPT ![d] = "sending"]
  /\ UNCHANGED <<direction, status, ready, mixer, reply, heard, rawSock, recorded, channels>>

(* ... which takes until there is room.  If the socket is closed meanwhile  *)
(* it may still come to this, or to CallbackCut, or to nothing.             *)
CallbackSends(d) ==
  /\ callback[d] = "sending" /\ Len(rawSock[d]) < RawCap
  /\ callback' = [callback EXCEPT ![d] = "idle"]
  /\ recorded' = [recorded EXCEPT ![d] = @ + 1]
  /\ rawSock' = [rawSock EXCEPT ![d] = Append(@, recorded[d] + 1)]
  /\ UNCHANGED <<direction, status, ready, mixer, reply, heard, channels>>

-----------------------------------------------------------------------------
(* What the broker may do to the channels.                                  *)

BrokerPublishes(c) ==
  \E n \in (published[c] + 1)..MaxSeq :
    /\ clientSocks' = Publish(c, n)
    /\ published' = [published EXCEPT ![c] = n]
    /\ UNCHANGED <<threadVars, shouldRun, online, cmdSock, inputSock, closed>>

Sends(cmd) ==
  /\ cmdSock' = [d \in Device |->
       IF CmdAccepted(d) THEN Append(cmdSock[d], cmd) ELSE cmdSock[d]]
  /\ UNCHANGED <<threadVars, shouldRun, online, clientSocks, published, inputSock, closed>>

BrokerSendsList == \E L \in SUBSET Client : Sends(CmdList(L))

BrokerSendsShutdown == ~shouldRun /\ Sends(CmdShutdown)

BrokerTakesInput(d) ==
  /\ inputSock[d] # <<>>
  /\ inputSock' = [inputSock EXCEPT ![d] = Tail(@)]
  /\ UNCHANGED <<threadVars, shouldRun, online, cmdSock, clientSocks, published, closed>>

BrokerCloses(d) ==
  /\ ~shouldRun /\ d \notin closed
  /\ closed' = closed \cup {d}
  /\ UNCHANGED <<threadVars, shouldRun, online, cmdSock, clientSocks, published, inputSock>>

UserInterrupts ==
  /\ shouldRun
  /\ shouldRun' = FALSE
  /\ UNCHANGED <<threadVars, online, cmdSock, clientSocks, published, inputSock, closed>>

-----------------------------------------------------------------------------
ServeClient(d) ==
  \E s \in DOMAIN clientSocks[d] : DecodeFrame(d, s) \/ DecodeError(d, s) \/ DecodeWithoutDecoder(d, s)

Pass(d) ==
  ServeRequest(d) \/ HandleList(d) \/ HandleShutdown(d) \/ EncodeRaw(d) \/ ServeClient(d)

Thread(d) == InitSocks(d) \/ OpenStream(d) \/ Poll(d) \/ Pass(d) \/ Cleanup(d)

Callback(d) == CallbackAsks(d) \/ CallbackPlays(d) \/ CallbackRecords(d) \/ CallbackSends(d)

BrokerDoes ==
  \/ BrokerSendsList \/ BrokerSendsShutdown \/ UserInterrupts
  \/ \E c \in Client : BrokerPublishes(c)
  \/ \E d \in Device : BrokerTakesInput(d) \/ BrokerCloses(d)

DeviceThreadsDo == \E d \in Device :
  Thread(d) \/ Callback(d) \/ EncodeError(d) \/ PollInterrupted(d) \/ CallbackCut(d)

ThreadNext == BrokerDoes \/ DeviceThreadsDo

ThreadSpec == ThreadInit /\ [][ThreadNext]_<<channels, threadVars>>

(* No thread decodes a frame without a decoder (a null pointer at           *)
(* audio.cpp:539, and the end of the process), as long as no identity is    *)
(* the beginning of another: the decoder is the one of the peer that the    *)
(* frame names, whichever socket it came through, and is never erased as    *)
(* the socket and the flag are (424-444).                                   *)
Running == \A d \in Device : status[d] # "crashed"

(* The thread runs on, though not by an error that would end a send which   *)
(* blocks; no socket that stays readable is left out of the polls for ever; *)
(* and PortAudio keeps calling.                                             *)
PollsFor(d, i) == Poll(d) /\ i \in ready'[d]
ThreadFairness ==
  \A d \in Device :
    /\ WF_<<channels, threadVars>>(Thread(d))
    /\ SF_<<channels, threadVars>>(PollsFor(d, "mixed"))
    /\ WF_<<channels, threadVars>>(CallbackAsks(d))
    /\ WF_<<channels, threadVars>>(CallbackPlays(d))

ThreadFairSpec == ThreadSpec /\ ThreadFairness

-----------------------------------------------------------------------------
(* Types of the variables of the threads.                                   *)
ThreadTypeOK ==
  /\ ChannelsTypeOK
  /\ direction \in Directions
  /\ status \in [Device -> {"starting", "opening", "running", "ending", "stopped", "crashed"}]
  /\ ready \in [Device -> SUBSET ({"mixed", "cmd", "raw"} \cup Client)]
  /\ decoders \in [Device -> SUBSET Client]
  /\ DOMAIN mixedIn = Device
  /\ \A d \in Device :
       DOMAIN mixedIn[d] \subseteq Client /\ mixedIn[d] \in [DOMAIN mixedIn[d] -> BOOLEAN]
  /\ chunks \in [Device -> [Client -> Seq(1..MaxSeq)]]
  /\ mix \in [Device -> SUBSET Frame]
  /\ leavers \in [Device -> SUBSET Client]
  /\ callback \in [Device -> {"idle", "asked", "answered", "sending"}]
  /\ reply \in [Device -> SUBSET Frame]
  /\ heard \in [Device -> [Client -> 0..MaxSeq]]
  /\ rawSock \in [Device -> Seq(1..MaxSeq)]
  /\ \A d \in Device : Len(rawSock[d]) <= RawCap
  /\ recorded \in [Device -> 0..MaxSeq]
  /\ \A d \in Device : callback[d] = "sending" => recorded[d] < MaxSeq

(* The frames of c on their way to the speaker of d, stage by stage.        *)
Playing(d, c) == NumbersOf(reply[d], c)
Mixed(d, c) == NumbersOf(mix[d], c)
Queued(d, c) == Range(chunks[d][c])
Arriving(d, c) ==
  UNION {NumbersOf(Range(clientSocks[d][s]), c) : s \in DOMAIN clientSocks[d]}

Before(S, T) == \A m \in S, n \in T : m < n
Increasing(q) == \A i, j \in 1..Len(q) : i < j => q[i] < q[j]

(* The audio of a peer is heard in the order in which it was published,     *)
(* each frame at most once, whatever lists, requests and errors come in     *)
(* between: what is further along the way is older.                         *)
InOrder ==
  \A d \in Device, c \in Client :
    /\ Before({heard[d][c]}, Playing(d, c) \cup Mixed(d, c) \cup Queued(d, c) \cup Arriving(d, c))
    /\ Before(Playing(d, c), Mixed(d, c) \cup Queued(d, c) \cup Arriving(d, c))
    /\ Before(Mixed(d, c), Queued(d, c) \cup Arriving(d, c))
    /\ Before(Queued(d, c), Arriving(d, c))
    /\ Increasing(chunks[d][c])

(* The audio thread, its sockets and its callback are a Playout, whatever   *)
(* the broker does: a frame goes through socket, backlog, mix_buff and      *)
(* reply without being heard twice, late or after a newer one of its peer   *)
(* (audio.cpp:340-393, 536-573).                                            *)
Waiting == [d \in Device |-> [c \in Client |->
  Playing(d, c) \cup Mixed(d, c) \cup Queued(d, c) \cup Arriving(d, c)]]
Speakers == INSTANCE Playout WITH waiting <- Waiting
ImplementsPlayout == Speakers!Spec

(* clientMixedInAlready tells the truth about mix_buff: a peer has one      *)
(* frame in it if its flag is set and none if it is not (audio.cpp:548),    *)
(* unless it has been kicked since the buffer was begun.                    *)
FlagTruth ==
  \A d \in Device : \A c \in Client \ leavers[d] :
    Cardinality(Mixed(d, c)) = (IF AlreadyMixedIn(d, c) THEN 1 ELSE 0)

(* No audio waits in a backlog while the buffer that is played next has     *)
(* room for its peer: a backlog never delays more than it has to.           *)
NoIdleBacklog ==
  \A d \in Device, c \in Client : chunks[d][c] # <<>> => AlreadyMixedIn(d, c)

(* A frame that has been decoded for a speaker is played in the end, unless *)
(* its peer is kicked or the program ends.                                  *)
QueuedIsPlayed ==
  \A d \in Device, c \in Client : \A n \in 1..MaxSeq :
    (direction[d] = "OUTPUT" /\ n \in Queued(d, c)) ~>
      (heard[d][c] >= n \/ c \in leavers[d] \/ ~shouldRun \/ ~Running)

(* The device is never left without an answer, however many commands and    *)
(* frames arrive ("This is the most important", audio.cpp:340).             *)
RequestAnswered ==
  \A d \in Device :
    callback[d] = "asked" ~> (callback[d] # "asked" \/ ~shouldRun \/ ~Running)

=============================================================================
