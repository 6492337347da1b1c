------------------------------- MODULE Broker -------------------------------
(***************************************************************************)
(* The main thread of a popuset instance: once its calls of connect have   *)
(* returned it calls processBroker in a loop, and after SIGINT it destroys *)
(* the AudioEngine.  A call of processBroker reads at most one message     *)
(* from the world and one from the audio threads, throws out peers that    *)
(* have gone silent, and sends the list of peers to the audio threads if   *)
(* the list has changed.                                                   *)
(*                                                                         *)
(* The audio threads and the peers are an environment here that does to    *)
(* the channels whatever they may do; AudioThread models the threads, and  *)
(* Popuset puts both together.                                             *)
(***************************************************************************)
EXTENDS Channels

CONSTANTS
  Outbound,     \* the peers that audio is sent to (Mesh models how they come about)
  CleanPeriod,  \* the five seconds between two searches for dead peers, in ticks
  MaxTime,      \* bound: ticks of the clock
  WorldCap      \* high water mark of the path from a peer to world_sock

ASSUME BrokerAssumption ==
  CleanPeriod \in Nat \ {0} /\ MaxTime \in Nat /\ WorldCap \in Nat \ {0}

VARIABLES
  stage,      \* where the main thread is
  revents,    \* the sockets that the last poll reported and that are still to be read
  world,      \* world[c]: what waits from c at world_sock, frame numbers or Ident
  sent,       \* the number of the last frame that each peer has sent
  inbound,    \* the peers that have been heard, and when each was heard last
  lastClean,  \* when dead peers were last searched for
  dirty,      \* client_list_dirty
  now,        \* the clock
  ticked,     \* the clock has ticked since dead peers could last be searched for
  missed,     \* the devices whose newest client list was dropped on the way
  outgoing    \* outgoing[p][d]: the last frame of d that world_sock took for p

brokerVars == <<stage, revents, world, sent, inbound, lastClean, dirty, now, ticked, missed, outgoing>>
clock == <<now, ticked>>
roster == <<inbound, lastClean, dirty, missed>>

Ident == 0                                    \* a message without audio
Looping == stage \in {"poll", "read", "broadcast"}
Heard == DOMAIN inbound

BrokerInit ==
  /\ ChannelsInit
  /\ stage = "connect"
  /\ revents = {}
  /\ world = [c \in Client |-> <<>>]
  /\ sent = [c \in Client |-> 0]
  /\ inbound = EmptyMap
  /\ lastClean = 0
  /\ dirty = FALSE
  /\ now = 0
  /\ ticked = FALSE
  /\ missed = {}
  /\ outgoing = [p \in Outbound |-> [d \in Device |-> 0]]

-----------------------------------------------------------------------------
(* The peers and the clock.                                                 *)

(* A peer sends a frame, which is lost on the way or for want of room.      *)
PeerSends(c) ==
  /\ sent[c] < MaxSeq
  /\ sent' = [sent EXCEPT ![c] = @ + 1]
  /\ \/ world' = [world EXCEPT ![c] = Offer(@, sent[c] + 1, WorldCap)]
     \/ UNCHANGED world
  /\ UNCHANGED <<stage, revents, roster, clock, outgoing, channels>>

(* A peer asks for our identity.                                            *)
PeerAsks(c) ==
  /\ Len(world[c]) < WorldCap
  /\ world' = [world EXCEPT ![c] = Append(@, Ident)]
  /\ UNCHANGED <<stage, revents, sent, roster, clock, outgoing, channels>>

(* A call of processBroker takes less than a tick of the clock; the calls   *)
(* of connect may take any time.                                            *)
Tick ==
  /\ now < MaxTime
  /\ stage = "connect" \/ (Looping /\ ~ticked)
  /\ now' = now + 1
  /\ ticked' = TRUE
  /\ UNCHANGED <<stage, revents, world, sent, roster, outgoing, channels>>

(* The SIGINT handler.                                                      *)
SigInt ==
  /\ shouldRun
  /\ shouldRun' = FALSE
  /\ UNCHANGED <<brokerVars, online, cmdSock, clientSocks, published, inputSock, closed>>

-----------------------------------------------------------------------------
(* The loop of main, and processBroker.                                     *)

(* Faulty variant: the loop runs while it should not.                       *)
NextPassInverted == IF shouldRun THEN "destroy" ELSE "poll"

(* The loop ends when SIGINT has been seen between two calls.               *)
NextPass == IF shouldRun THEN "poll" ELSE "destroy"

(* main: the last call of connect has returned.                             *)
Connected ==
  /\ stage = "connect"
  /\ stage' = NextPass
  /\ UNCHANGED <<revents, world, sent, roster, clock, outgoing, channels>>

SocketsReadable ==
  {i \in {"world"} : \E c \in Client : world[c] # <<>>} \cup
  {i \in {"input"} : \E d \in Device : inputSock[d] # <<>>}

(* zmq_poll looks at one socket after the other for at most 10 ms, so it    *)
(* may report either, both or none of those that become readable meanwhile. *)
PollSockets ==
  /\ stage = "poll"
  /\ stage' = "read"
  /\ revents' \in SUBSET SocketsReadable
  /\ UNCHANGED <<world, sent, roster, clock, outgoing, channels>>

(* An identity request: it is answered and leaves nothing behind here.      *)
AnswerIdent(c) ==
  /\ stage = "read" /\ "world" \in revents
  /\ world[c] # <<>> /\ Head(world[c]) = Ident
  /\ world' = [world EXCEPT ![c] = Tail(@)]
  /\ revents' = revents \ {"world"}
  /\ UNCHANGED <<stage, sent, roster, clock, outgoing, channels>>

(* Faulty variant: nobody is new.                                           *)
NoNews(c) == FALSE

(* A frame of c makes the client list dirty if it is the first one.         *)
IsNew(c) == c \notin Heard

(* inbound after a frame of c: whoever is heard is stamped with the time.   *)
Stamped(c) == [k \in Heard \cup {c} |-> IF k = c THEN now ELSE inbound[k]]

(* A frame of a peer: passed on to the audio threads, and the peer noted.   *)
ReceiveAudio(c) ==
  /\ stage = "read" /\ "world" \in revents
  /\ world[c] # <<>> /\ Head(world[c]) # Ident
  /\ world' = [world EXCEPT ![c] = Tail(@)]
  /\ revents' = revents \ {"world"}
  /\ clientSocks' = Publish(c, Head(world[c]))
  /\ published' = [published EXCEPT ![c] = Head(world[c])]
  /\ inbound' = Stamped(c)
  /\ dirty' = (dirty \/ IsNew(c))
  /\ UNCHANGED <<stage, sent, lastClean, missed, clock, outgoing>>
  /\ UNCHANGED <<shouldRun, online, cmdSock, inputSock, closed>>

(* Faulty variant: the newest of the frames that wait goes out first.       *)
TakenLast(d) == Last(inputSock[d])

(* The frame that input_sock yields.                                        *)
Taken(d) == Head(inputSock[d])

(* A frame of an audio thread: sent to every outbound peer; world_sock      *)
(* drops it for those that are gone or do not keep up.                      *)
ForwardInput(d) ==
  /\ stage = "read" /\ "input" \in revents /\ "world" \notin revents
  /\ inputSock[d] # <<>>
  /\ inputSock' = [inputSock EXCEPT ![d] = Tail(@)]
  /\ revents' = revents \ {"input"}
  /\ \E P \in SUBSET Outbound :
       outgoing' = [p \in Outbound |->
         IF p \in P THEN [outgoing[p] EXCEPT ![d] = Taken(d)] ELSE outgoing[p]]
  /\ UNCHANGED <<stage, world, sent, roster, clock>>
  /\ UNCHANGED <<shouldRun, online, cmdSock, clientSocks, published, closed>>

(* Faulty variants: silence is measured from the wrong end of the period,   *)
(* and no peer is ever dead.                                                *)
SilentNow(c) == now > inbound[c]
SilentNever(c) == FALSE

(* A peer is dead that has not been heard since the last search.            *)
Silent(c) == lastClean > inbound[c]

(* Faulty variant: a cull that does not mark the list.                      *)
CleanUnmarked ==
  /\ stage = "read" /\ revents = {}
  /\ stage' = "broadcast"
  /\ ticked' = FALSE
  /\ IF now - lastClean > CleanPeriod
     THEN /\ inbound' = [c \in {k \in Heard : ~Silent(k)} |-> inbound[c]]
          /\ lastClean' = now
     ELSE UNCHANGED <<inbound, lastClean>>
  /\ UNCHANGED <<revents, world, sent, dirty, now, missed, outgoing, channels>>

(* The search for dead peers, if it is time for one.                        *)
Clean ==
  /\ stage = "read" /\ revents = {}
  /\ stage' = "broadcast"
  /\ ticked' = FALSE
  /\ IF now - lastClean > CleanPeriod
     THEN /\ inbound' = [c \in {k \in Heard : ~Silent(k)} |-> inbound[c]]
          /\ dirty' = (dirty \/ \E c \in Heard : Silent(c))
          /\ lastClean' = now
     ELSE UNCHANGED <<inbound, dirty, lastClean>>
  /\ UNCHANGED <<revents, world, sent, now, missed, outgoing, channels>>

(* The client list for every audio thread, if it has changed.               *)
Broadcast ==
  /\ stage = "broadcast"
  /\ stage' = NextPass
  /\ dirty' = FALSE
  /\ IF dirty
     THEN /\ cmdSock' = [d \in Device |->
               IF CmdAccepted(d) THEN Append(cmdSock[d], CmdList(Heard)) ELSE cmdSock[d]]
          /\ missed' = {d \in Device : ~CmdAccepted(d)}
     ELSE UNCHANGED <<cmdSock, missed>>
  /\ UNCHANGED <<revents, world, sent, inbound, lastClean, clock, outgoing>>
  /\ UNCHANGED <<shouldRun, online, clientSocks, published, inputSock, closed>>

(* The destructor: CMD_SHUTDOWN for every audio thread, ...                 *)
SendShutdown ==
  /\ stage = "destroy"
  /\ stage' = "join"
  /\ cmdSock' = [d \in Device |->
       IF CmdAccepted(d) THEN Append(cmdSock[d], CmdShutdown) ELSE cmdSock[d]]
  /\ UNCHANGED <<revents, world, sent, roster, clock, outgoing>>
  /\ UNCHANGED <<shouldRun, online, clientSocks, published, inputSock, closed>>

(* ... then, device by device, it closes the sockets of the callback and    *)
(* waits for the audio thread (Popuset has the wait).                       *)
CloseCallbackSockets(d) ==
  /\ stage = "join" /\ d \notin closed
  /\ closed' = closed \cup {d}
  /\ UNCHANGED <<brokerVars, shouldRun, online, cmdSock, clientSocks, published, inputSock>>

(* All threads have been joined: the sockets and the context are closed.    *)
Terminate ==
  /\ stage = "join" /\ closed = Device
  /\ stage' = "done"
  /\ UNCHANGED <<revents, world, sent, roster, clock, outgoing, channels>>

-----------------------------------------------------------------------------
(* What an audio thread may do to the channels.                             *)

ThreadConnects(d) ==
  /\ d \notin online
  /\ online' = online \cup {d}
  /\ UNCHANGED <<brokerVars, shouldRun, cmdSock, clientSocks, published, inputSock, closed>>

ThreadTakesCommand(d) ==
  /\ cmdSock[d] # <<>>
  /\ cmdSock' = [cmdSock EXCEPT ![d] = Tail(@)]
  /\ clientSocks' = IF Head(cmdSock[d]).type = "CMD_CLIENTLIST"
       THEN [clientSocks EXCEPT ![d] = Resubscribed(d, Head(cmdSock[d]).clients)]
       ELSE clientSocks
  /\ UNCHANGED <<brokerVars, shouldRun, online, published, inputSock, closed>>

ThreadTakesFrame(d, s) ==
  /\ s \in DOMAIN clientSocks[d] /\ clientSocks[d][s] # <<>>
  /\ clientSocks' = [clientSocks EXCEPT ![d][s] = Tail(@)]
  /\ UNCHANGED <<brokerVars, shouldRun, online, cmdSock, published, inputSock, closed>>

ThreadSends(d) ==
  /\ Len(inputSock[d]) < InCap
  /\ \E n \in 1..MaxSeq : inputSock' = [inputSock EXCEPT ![d] = Append(@, n)]
  /\ UNCHANGED <<brokerVars, shouldRun, online, cmdSock, clientSocks, published, closed>>

(* A thread that ends closes its sockets; it ends only after SIGINT.        *)
ThreadEnds(d) ==
  /\ ~shouldRun
  /\ online' = online \ {d}
  /\ cmdSock' = [cmdSock EXCEPT ![d] = <<>>]
  /\ clientSocks' = [clientSocks EXCEPT ![d] = EmptyMap]
  /\ UNCHANGED <<brokerVars, shouldRun, published, inputSock, closed>>

-----------------------------------------------------------------------------
ReadWorld == \E c \in Client : AnswerIdent(c) \/ ReceiveAudio(c)

BrokerLoop ==
  \/ Connected \/ PollSockets \/ Clean \/ Broadcast \/ SendShutdown
  \/ ReadWorld
  \/ \E d \in Device : ForwardInput(d)

Outside == Tick \/ SigInt \/ \E c \in Client : PeerSends(c) \/ PeerAsks(c)

ThreadsDo ==
  \E d \in Device :
    \/ ThreadConnects(d) \/ ThreadTakesCommand(d) \/ ThreadSends(d) \/ ThreadEnds(d)
    \/ \E s \in Client : ThreadTakesFrame(d, s)

BrokerNext ==
  \/ BrokerLoop \/ Terminate \/ Outside \/ ThreadsDo
  \/ \E d \in Device : CloseCallbackSockets(d)

BrokerSpec == BrokerInit /\ [][BrokerNext]_<<channels, brokerVars>>

-----------------------------------------------------------------------------
(* Types of the broker's variables.                                         *)
BrokerTypeOK ==
  /\ ChannelsTypeOK
  /\ stage \in {"connect", "poll", "read", "broadcast", "destroy", "join", "done"}
  /\ revents \subseteq {"world", "input"}
  /\ world \in [Client -> Seq(0..MaxSeq)]
  /\ \A c \in Client : Len(world[c]) <= WorldCap
  /\ sent \in [Client -> 0..MaxSeq]
  /\ Heard \subseteq Client
  /\ \A c \in Heard : inbound[c] \in 0..now
  /\ lastClean \in 0..now
  /\ dirty \in BOOLEAN
  /\ now \in 0..MaxTime
  /\ ticked \in BOOLEAN
  /\ missed \subseteq Device
  /\ outgoing \in [Outbound -> [Device -> 0..MaxSeq]]

(* A peer that has gone silent is off the list after two periods between    *)
(* searches, each a tick late at most (audio.cpp:853, 857), whatever else   *)
(* the broker has to do meanwhile.                                          *)
RetentionBound ==
  Looping => \A c \in Heard : now - inbound[c] <= 2 * (CleanPeriod + 1)

(* Why it holds: a search is due within a period and a tick of the last one *)
(* (at once in the first pass, which may come long after the start), and    *)
(* who outlives a search was heard within as much of it.                    *)
ClockInv ==
  /\ now \in Nat /\ lastClean \in Nat /\ lastClean <= now
  /\ \A c \in Heard : inbound[c] \in Nat /\ inbound[c] <= now
RetentionInv ==
  /\ ClockInv
  /\ stage = "connect" => Heard = {} /\ (~ticked => now = lastClean)
  /\ Looping =>
       /\ \A c \in Heard : inbound[c] >= lastClean - (CleanPeriod + 1)
       /\ ~ticked => now <= lastClean + CleanPeriod
       /\ \/ now <= lastClean + CleanPeriod + 1
          \/ ticked /\ \A c \in Heard : inbound[c] = now

(* Nobody is thrown out who was heard within the last period, however the   *)
(* searches and the frames interleave (audio.cpp:856, "if we haven't heard  *)
(* from somebody since the last clean").                                    *)
CulledOnlyWhenSilent ==
  [][\A c \in Heard \ DOMAIN inbound' : now - inbound[c] > CleanPeriod]_<<channels, brokerVars>>

(* What an audio thread knows, or will know when it has read its commands.  *)
Lists(d) == {i \in 1..Len(cmdSock[d]) : cmdSock[d][i].type = "CMD_CLIENTLIST"}
View(d) ==
  IF Lists(d) = {} THEN DOMAIN clientSocks[d]
  ELSE ListRead(cmdSock[d][CHOOSE i \in Lists(d) : \A j \in Lists(d) : j <= i].clients)

(* Between two broadcasts every audio thread has, or has waiting, exactly   *)
(* the peers of inbound: no join or cull is forgotten, in whatever order    *)
(* they and the reads of the threads come (audio.cpp:813-820, 857-901).     *)
(* Two exceptions: a thread whose list was dropped, and a list that a peer  *)
(* without an identity cuts short.                                          *)
ListCurrent ==
  shouldRun /\ ~dirty => \A d \in Device \ missed : View(d) = ListRead(Heard)

(* Every device gets to listen to every peer that keeps being heard, unless *)
(* its list is dropped; so README.md:23, "they will all be mixed together". *)
EventuallyListens ==
  \A d \in Device, c \in Client :
    c \in Heard ~> (c \in DOMAIN clientSocks[d] \/ c \notin Heard \/ d \in missed \/ ~shouldRun)

(* README.md:23, "multiple `popuset` instances can target the same output   *)
(* instance, and they will all be mixed together": whoever is heard is      *)
(* listened to once the list has been read.  Violated: one peer without an  *)
(* identity ends the list before its first entry.                           *)
AllListenedTo ==
  \A d \in Device, c \in Client \ {Anon} :
    shouldRun /\ ~dirty /\ d \notin missed /\ cmdSock[d] = <<>> /\ c \in Heard
      => c \in DOMAIN clientSocks[d]

=============================================================================
