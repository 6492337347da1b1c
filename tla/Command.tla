------------------------------ MODULE Command ------------------------------
(***************************************************************************)
(* The commands of the broker to an audio thread, as sendCommand makes     *)
(* frames of them and readCommand reads them.  A command has three frames: *)
(* its type, the length of its data and the data.  For a command without   *)
(* data sendCommand repeats the type where the length should be, and the   *)
(* reader goes on only because that byte, with one of its own that it has  *)
(* not initialised, makes a length greater than zero.                      *)
(*                                                                         *)
(* The length is that of the client list modulo the width of an unsigned   *)
(* short.  A frame has its size, its number, and of a client list the      *)
(* entries that are in it whole and whether the empty entry is there that  *)
(* ends the list.                                                          *)
(***************************************************************************)
EXTENDS Integers, Sequences, SequencesExt, FiniteSets

CONSTANTS
  Client,
  Sorted,   \* the clients in the order of the map inbound
  IdLen,    \* the length of the identity of each client
  Byte,     \* how many values a byte has (256)
  QueueCap  \* high water mark of the path to the cmd_sock of the thread

ASSUME CommandAssumption ==
  /\ Sorted \in Seq(Client) /\ Range(Sorted) = Client
  /\ IdLen \in [Client -> Nat \ {0}]
  /\ Byte \in Nat /\ Byte > 2     \* types are less than a byte
  /\ QueueCap \in Nat \ {0}

CMD_SHUTDOWN == 1
CMD_CLIENTLIST == 2

VARIABLES
  inbound,    \* the clients that the broker knows
  stream,     \* the frames that wait at cmd_sock
  listening,  \* the clients that the thread knows
  closing,    \* the broker is in its destructor
  ended,      \* the thread has left its loop
  alive       \* the process has not crashed

vars == <<inbound, stream, listening, closing, ended, alive>>

Init ==
  /\ inbound = {} /\ stream = <<>> /\ listening = {}
  /\ closing = FALSE /\ ended = FALSE /\ alive = TRUE

-----------------------------------------------------------------------------
(* The client list.                                                         *)

Wrap == Byte * Byte
LastPlace == Len(Sorted)

(* What the entries of the clients L take among the first k of the map, if  *)
(* that of a client c takes size[c].                                        *)
UpTo(L, size) ==
  LET f[k \in 0..LastPlace] ==
        IF k = 0 THEN 0 ELSE f[k - 1] + (IF Sorted[k] \in L THEN size[Sorted[k]] ELSE 0)
  IN f
Bytes(L, k) == UpTo(L, IdLen)[k]
Entries(L, k) == UpTo(L, [c \in Client |-> 1])[k]

(* Where the entries up to the k-th end, their NULs included.               *)
EndOf(L, k) == Bytes(L, k) + Entries(L, k)

(* cl_len, an unsigned short.                                               *)
cl_len(L) == Bytes(L, LastPlace) % Wrap

(* Faulty variant: no room for the NUL that ends the list.                  *)
LengthWithoutEnd(L) == (cl_len(L) + Entries(L, LastPlace)) % Wrap

(* The length of the data, an unsigned short too.                           *)
ListLength(L) == (cl_len(L) + Entries(L, LastPlace) + 1) % Wrap

(* The buffer is allocated for cl_len bytes of identities: if that has      *)
(* wrapped around, the identities are written behind its end.               *)
Overflows(L) == Bytes(L, LastPlace) >= Wrap

WholeIn(L, n) == {Sorted[k] : k \in {j \in 1..LastPlace : Sorted[j] \in L /\ EndOf(L, j) <= n}}

(* The last byte of the data is the end of the list, if no entry is cut off *)
(* before it.                                                               *)
EndsWithin(L, n) ==
  \E k \in 0..LastPlace : EndOf(L, k) = n - 1 /\ (k = LastPlace \/ Overflows(L))

-----------------------------------------------------------------------------
(* sendCommand.                                                             *)

Frame(size, number, clients, complete, more) ==
  [size |-> size, number |-> number, clients |-> clients, complete |-> complete, more |-> more]
Small(size, number, more) == Frame(size, number, {}, TRUE, more)

(* Type, length and data; without data the type twice, and the length.      *)
Frames(type, n, L) ==
  IF n > 0
  THEN <<Small(1, type, TRUE), Small(2, n, TRUE), Frame(n, 0, WholeIn(L, n), EndsWithin(L, n), FALSE)>>
  ELSE <<Small(1, type, TRUE), Small(1, type, TRUE), Small(2, 0, FALSE)>>

(* A message is dropped whole if there is no room or no thread yet.         *)
Messages == Cardinality({i \in 1..Len(stream) : ~stream[i].more})
Send(frames) ==
  \/ stream' = stream
  \/ Messages < QueueCap /\ stream' = stream \o frames

(* processBroker: the clients come and go, and are sent; Broker says when.  *)
ClientsChange ==
  /\ ~closing
  /\ \E c \in Client : inbound' \in {inbound \cup {c}, inbound \ {c}}
  /\ UNCHANGED <<stream, listening, closing, ended, alive>>

SendList ==
  /\ ~closing
  /\ Send(Frames(CMD_CLIENTLIST, ListLength(inbound), inbound))
  /\ alive' \in {TRUE, ~Overflows(inbound)}
  /\ UNCHANGED <<inbound, listening, closing, ended>>

(* The destructor.                                                          *)
SendShutdown ==
  /\ ~closing /\ closing' = TRUE
  /\ Send(Frames(CMD_SHUTDOWN, 0, {}))
  /\ UNCHANGED <<inbound, listening, ended, alive>>

-----------------------------------------------------------------------------
(* readCommand.                                                             *)

(* Faulty variant: what is missing of the length counts as zero.            *)
LengthOfOne(f) == IF f.size < 2 THEN {0} ELSE {f.number}

(* The length that a frame is read as: a frame of one byte gives the more   *)
(* significant half, the other half has not been initialised.               *)
LengthRead(f) == IF f.size < 2 THEN {f.number * Byte + b : b \in 0..(Byte - 1)} ELSE {f.number}

(* What a client list does: a list without its end is read on into memory   *)
(* that may hold anything, the identities of former clients among it.       *)
HandleData(f) ==
  \/ f.complete /\ listening' = f.clients /\ alive' = TRUE
  \/ /\ ~f.complete
     /\ \E S \in SUBSET Client : listening' = f.clients \cup S
     /\ alive' \in BOOLEAN

ReadCommand ==
  /\ ~ended /\ Len(stream) >= 3
  /\ \E n \in LengthRead(stream[2]) :
       /\ stream' = SubSeq(stream, IF n > 0 THEN 4 ELSE 3, Len(stream))
       /\ \/ stream[1].number = CMD_CLIENTLIST /\ HandleData(stream[3]) /\ UNCHANGED ended
          \/ stream[1].number = CMD_SHUTDOWN /\ ended' = TRUE /\ UNCHANGED <<listening, alive>>
          \/ /\ stream[1].number \notin {CMD_CLIENTLIST, CMD_SHUTDOWN}
             /\ UNCHANGED <<listening, ended, alive>>
  /\ UNCHANGED <<inbound, closing>>

Next == alive /\ (ClientsChange \/ SendList \/ SendShutdown \/ ReadCommand)

Spec == Init /\ [][Next]_vars

-----------------------------------------------------------------------------
(* The reader is always at the beginning of a command: what readCommand     *)
(* takes is what sendCommand has put, three frames each time, although they *)
(* are not of the sizes that it asks for (audio.cpp:993-1029).              *)
FramesInStep ==
  /\ Messages <= QueueCap /\ Len(stream) = 3 * Messages
  /\ \A i \in 1..Len(stream) : stream[i].more <=> i % 3 # 0
  /\ \A i \in 1..Len(stream) :
       i % 3 = 1 => stream[i].size = 1 /\ stream[i].number \in {CMD_SHUTDOWN, CMD_CLIENTLIST}

(* The frames are an implementation of a queue of whole commands: a list    *)
(* that fits the widths is read as it was sent, and a shutdown is one.      *)
CommandAt(k) ==
  LET type == stream[3 * k + 1].number
      body == stream[3 * k + 3]
  IN IF type = CMD_SHUTDOWN THEN [type |-> "shutdown", clients |-> {}]
     ELSE IF body.complete THEN [type |-> "list", clients |-> body.clients]
     ELSE [type |-> "garbled", clients |-> {}]
Queue == [k \in 1..(Len(stream) \div 3) |-> CommandAt(k - 1)]
Fitting == {L \in SUBSET Client : EndOf(L, LastPlace) + 1 < Wrap}

CQ == INSTANCE CommandQueue WITH queue <- Queue, Short <- Fitting
ImplementsQueue == CQ!QueueSpec

=============================================================================
