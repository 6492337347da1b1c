------------------------------ MODULE Channels ------------------------------
(***************************************************************************)
(* What the threads of one popuset process share: the inproc ZeroMQ        *)
(* sockets between the broker (the main thread), the audio thread of each  *)
(* device and the PortAudio callback of each device, and the flag that the *)
(* SIGINT handler clears.  Frames are pairs of a peer and a number: the    *)
(* numbers of a peer grow in the order in which it recorded the frames.    *)
(***************************************************************************)
EXTENDS Integers, Sequences, SequencesExt, FiniteSets

CONSTANTS
  Client,   \* peers that send audio to this instance
  Anon,     \* the peer without an identity, in Client or not
  Device,   \* the audio devices that have been opened
  Covers,   \* Covers[s]: the peers whose identity begins with the identity of s
  MaxSeq,   \* bound: frames per peer and per device
  SubCap,   \* high water mark of the path from output_sock to a client socket
  CmdCap,   \* high water mark of the path from the broker's to a thread's cmd_sock
  InCap     \* high water mark of the path from a thread's to the broker's input_sock

ASSUME ChannelsAssumption ==
  /\ Covers \in [Client -> SUBSET Client]
  /\ \A s \in Client : s \in Covers[s]
  /\ MaxSeq \in Nat /\ SubCap \in Nat \ {0} /\ CmdCap \in Nat \ {0} /\ InCap \in Nat \ {0}

VARIABLES
  shouldRun,    \* FALSE: SIGINT has been received
  online,       \* the devices whose cmd_sock has connected
  cmdSock,      \* the commands on their way to each audio thread
  clientSocks,  \* clientSocks[d][s]: the frames in the SUB socket of d for s
  published,    \* the number of the last frame of each peer that was published
  inputSock,    \* the encoded frames on their way from each audio thread to the broker
  closed        \* the devices whose callback sockets the destructor has closed

channels == <<shouldRun, online, cmdSock, clientSocks, published, inputSock, closed>>

Frame == [from : Client, seq : 1..MaxSeq]
CmdList(clients) == [type |-> "CMD_CLIENTLIST", clients |-> clients]
CmdShutdown == [type |-> "CMD_SHUTDOWN", clients |-> {}]
Command == {CmdList(L) : L \in SUBSET Client} \cup {CmdShutdown}

(* A std::map without entries.                                             *)
EmptyMap == [c \in {} |-> 0]

ChannelsInit ==
  /\ shouldRun = TRUE
  /\ online = {}
  /\ cmdSock = [d \in Device |-> <<>>]
  /\ clientSocks = [d \in Device |-> EmptyMap]
  /\ published = [c \in Client |-> 0]
  /\ inputSock = [d \in Device |-> <<>>]
  /\ closed = {}

(* Faulty variant: a sender that knows no high water mark.                  *)
OfferAlways(queue, message, cap) == Append(queue, message)

(* A sender that drops what finds no room (PUB, ROUTER).                    *)
Offer(queue, message, cap) == IF Len(queue) < cap THEN Append(queue, message) ELSE queue

(* The ROUTER cmd_sock drops a command for a thread that has not connected. *)
CmdAccepted(d) == d \in online /\ Len(cmdSock[d]) < CmdCap

(* The PUB output_sock: a socket that subscribed to s gets every message    *)
(* that begins with the identity of s.                                      *)
Publish(c, n) ==
  [d \in Device |-> [s \in DOMAIN clientSocks[d] |->
     IF c \in Covers[s]
     THEN Offer(clientSocks[d][s], [from |-> c, seq |-> n], SubCap)
     ELSE clientSocks[d][s]]]

(* What an audio thread reads out of a client list.  The list is sorted and *)
(* ends with an empty identity, so the peer without one ends it at once.    *)
ListRead(clients) == IF Anon \in clients THEN {} ELSE clients

(* The client sockets of d after that list: the new ones start empty, those *)
(* that are not on it are closed with what they hold.                       *)
Resubscribed(d, clients) ==
  [s \in ListRead(clients) |-> IF s \in DOMAIN clientSocks[d] THEN clientSocks[d][s] ELSE <<>>]

(* Types of the channels.                                                   *)
ChannelsTypeOK ==
  /\ shouldRun \in BOOLEAN
  /\ online \subseteq Device
  /\ cmdSock \in [Device -> Seq(Command)]
  /\ \A d \in Device : Len(cmdSock[d]) <= CmdCap
  /\ DOMAIN clientSocks = Device
  /\ \A d \in Device :
       /\ DOMAIN clientSocks[d] \subseteq Client
       /\ \A s \in DOMAIN clientSocks[d] :
            clientSocks[d][s] \in Seq(Frame) /\ Len(clientSocks[d][s]) <= SubCap
  /\ published \in [Client -> 0..MaxSeq]
  /\ inputSock \in [Device -> Seq(1..MaxSeq)]
  /\ \A d \in Device : Len(inputSock[d]) <= InCap
  /\ closed \subseteq Device

=============================================================================
