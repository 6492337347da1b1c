------------------------------ MODULE Popuset ------------------------------
(***************************************************************************)
(* A popuset process: the main thread of Broker and the audio threads and  *)
(* callbacks of AudioThread, each the environment of the other, joined by  *)
(* the sockets of Channels.                                                *)
(***************************************************************************)
EXTENDS Broker, AudioThread

vars == <<channels, brokerVars, threadVars>>

Init == BrokerInit /\ ThreadInit

(* The destructor waits for the thread of one device before it turns to the *)
(* next one, and for all of them before it closes its own sockets.          *)
AllStopped(devices) == \A d \in devices : status[d] = "stopped"
CloseNext(d) == AllStopped(closed) /\ CloseCallbackSockets(d)
TerminateJoined == AllStopped(Device) /\ Terminate

MainThread ==
  /\ Running
  /\ BrokerLoop \/ TerminateJoined \/ \E d \in Device : CloseNext(d)
  /\ UNCHANGED threadVars

World == Running /\ Outside /\ UNCHANGED threadVars

Devices == DeviceThreadsDo /\ UNCHANGED brokerVars

Next == MainThread \/ World \/ Devices

Spec == Init /\ [][Next]_vars

(* The fairness of both sides: threads are scheduled, zmq_poll leaves out   *)
(* no socket for ever, PortAudio keeps calling, time passes.                *)
Fairness ==
  /\ WF_vars(MainThread)
  /\ SF_vars(Running /\ ReadWorld /\ UNCHANGED threadVars)
  /\ WF_vars(Running /\ Tick /\ UNCHANGED threadVars)
  /\ \A d \in Device :
       /\ WF_vars(Thread(d) /\ UNCHANGED brokerVars)
       /\ SF_vars(PollsFor(d, "cmd") /\ UNCHANGED brokerVars)
       /\ SF_vars(PollsFor(d, "mixed") /\ UNCHANGED brokerVars)
       /\ WF_vars(CallbackAsks(d) /\ UNCHANGED brokerVars)
       /\ WF_vars(CallbackPlays(d) /\ UNCHANGED brokerVars)
       /\ WF_vars(d \notin closed /\ CallbackSends(d) /\ UNCHANGED brokerVars)

FairSpec == Spec /\ Fairness

-----------------------------------------------------------------------------
(* What is recorded reaches every outbound peer in the order of recording   *)
(* and at most once: nothing that is still on its way from the callback     *)
(* over the thread and the broker is older than what has been sent          *)
(* (audio.cpp:103, 499, 839-847).                                           *)
OutgoingInOrder ==
  \A d \in Device, p \in Outbound :
    Before({outgoing[p][d]}, Range(inputSock[d]) \cup Range(rawSock[d]))

(* The list of an audio thread that runs is never behind, and what it       *)
(* listens to has a decoder and a mixing flag: no join or cull leaves one   *)
(* map of the thread ahead of another (audio.cpp:409-444).                  *)
MapsAgree ==
  \A d \in Device : status[d] = "running" =>
    /\ DOMAIN clientSocks[d] \subseteq decoders[d]
    /\ DOMAIN clientSocks[d] \subseteq DOMAIN mixedIn[d]
    /\ \A c \in Client \ DOMAIN mixedIn[d] : chunks[d][c] = <<>>

(* The process implements what the broker assumes of its threads, and what  *)
(* the threads assume of the broker.                                        *)
ThreadsKeepToBrokerSpec == BrokerSpec
BrokerKeepsToThreadSpec == ThreadSpec

(* Told to end, a thread ends, unless it is caught in one of three waits:   *)
(* for room in input_sock, which the broker reads no more, to answer a      *)
(* callback whose socket has been closed, or in Pa_CloseStream for a        *)
(* callback that waits itself: for an answer, for room in raw_audio_out,    *)
(* or at a socket that has been closed under it.                            *)
InputBlocked(d) == "raw" \in ready[d] /\ Len(inputSock[d]) = InCap
AnswerBlocked(d) == "mixed" \in ready[d] /\ d \in closed
CallbackWaits(d) ==
  \/ callback[d] = "asked"
  \/ callback[d] = "sending" /\ (Len(rawSock[d]) = RawCap \/ d \in closed)
CloseBlocked(d) == status[d] = "ending" /\ CallbackWaits(d)
Told(d) == \E i \in 1..Len(cmdSock[d]) : cmdSock[d][i] = CmdShutdown
EndsUnlessBlocked ==
  \A d \in Device :
    Told(d) ~> (status[d] = "stopped" \/ InputBlocked(d) \/ AnswerBlocked(d) \/ CloseBlocked(d))

(* popuset.cpp:275, "Use CTRL-C to gracefully shutdown": a thread that has  *)
(* been told to end ends.  Violated: it may be blocked in a send to the     *)
(* broker, which reads no more.                                             *)
GracefulShutdown ==
  \A d \in Device : Told(d) ~> status[d] = "stopped"

(* audio.cpp:658, "Send CMD_SHUTDOWN to everybody": once the destructor     *)
(* joins, every thread ends, has ended or will read that it has to.         *)
(* Violated: the ROUTER drops the command for a thread that has not         *)
(* connected yet, or whose queue is full of client lists.                   *)
EverybodyTold ==
  stage = "join" => \A d \in Device : Told(d) \/ status[d] \in {"ending", "stopped"}

=============================================================================
