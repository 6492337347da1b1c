---------------------------- MODULE CommandQueue ----------------------------
(***************************************************************************)
(* What the broker and an audio thread take the command channel for: a     *)
(* bounded queue of whole commands, in which a command may be lost as it   *)
(* is sent but is never changed, split or reordered.  Channels models      *)
(* cmd_sock like this.  It is promised for client lists that are not too   *)
(* long; what a longer one does to the thread is not specified.            *)
(***************************************************************************)
EXTENDS Integers, Sequences

CONSTANTS
  Client,
  Short,     \* the sets of clients whose list is not too long
  QueueCap   \* how many commands may wait

VARIABLES
  inbound,    \* the clients that the broker knows
  queue,      \* the commands on their way
  listening,  \* the clients that the thread knows
  closing,    \* the broker has sent its last command
  ended,      \* the thread has been told to end
  alive       \* the process has not crashed

queueVars == <<inbound, queue, listening, closing, ended, alive>>

List(L) == [type |-> "list", clients |-> L]
Shutdown == [type |-> "shutdown", clients |-> {}]
Garbled == [type |-> "garbled", clients |-> {}]

QueueInit ==
  /\ inbound = {} /\ queue = <<>> /\ listening = {}
  /\ closing = FALSE /\ ended = FALSE /\ alive = TRUE

ClientsChange ==
  /\ ~closing /\ inbound' \in SUBSET Client
  /\ UNCHANGED <<queue, listening, closing, ended, alive>>

(* A command is put in the queue whole, or not at all.                      *)
Put(cmd) == queue' = queue \/ (Len(queue) < QueueCap /\ queue' = Append(queue, cmd))

PutList ==
  /\ ~closing
  /\ inbound \in Short => Put(List(inbound)) /\ alive'
  /\ inbound \notin Short => Put(Garbled) \/ (\E L \in SUBSET Client : Put(List(L)))
  /\ UNCHANGED <<inbound, listening, closing, ended>>

PutShutdown ==
  /\ ~closing /\ closing'
  /\ Put(Shutdown)
  /\ UNCHANGED <<inbound, listening, ended, alive>>

(* The thread takes the first command and does what it says.                *)
Take ==
  /\ ~ended /\ queue # <<>>
  /\ queue' = Tail(queue)
  /\ ended' = (Head(queue) = Shutdown)
  /\ CASE Head(queue).type = "list" -> listening' = Head(queue).clients /\ alive'
       [] Head(queue).type = "shutdown" -> listening' = listening /\ alive'
       [] Head(queue).type = "garbled" -> listening' \in SUBSET Client
  /\ UNCHANGED <<inbound, closing>>

QueueNext == alive /\ (ClientsChange \/ PutList \/ PutShutdown \/ Take)

QueueSpec == QueueInit /\ [][QueueNext]_queueVars

=============================================================================
