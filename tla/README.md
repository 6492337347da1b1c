# Verification of popuset

TLA+ models of popuset, a network audio streamer built from ZeroMQ sockets, Opus
and PortAudio, with TLC runs on small instances and proofs that the TLA+ proof
system checks for all instances. All references of the form `audio.cpp:740` are
to the files in `src/`.

## The system

One popuset process has a *main thread*, an *audio thread* for each device that
has been opened, and the PortAudio thread that runs the *callback* of each
device. They share nothing but ZeroMQ sockets over `inproc:`, and the flag
`shouldRun`. Processes talk to each other through one ROUTER each, `world_sock`.

    peers == world_sock == main thread -- output_sock (PUB) --> client sockets (SUB) --  audio   -- mixed_audio (PAIR) -- callback
                            (broker)   -- cmd_sock (ROUTER) --> cmd_sock (DEALER)    --  thread  -- raw_audio (PULL <- PUSH) -- 
                                       <- input_sock (ROUTER) - input_sock (DEALER)  --

| component | state | operations | talks to |
|---|---|---|---|
| connect (`audio.cpp:728-763`) | `outbound`, the connections of `world_sock` | one identity request per target, two seconds, no retry; `disconnect` is called by nobody | the `world_sock` of the peer |
| broker (`audio.cpp:766-902`, `popuset.cpp:277-282`) | `inbound` with a time per peer, `last_clean`, `client_list_dirty` | a pass reads at most one message from the world and one from the threads, culls, sends the client list | peers, audio threads |
| audio thread (`audio.cpp:268-610`) | a socket, decoder, flag and backlog per peer, `mix_buff` | the request of the callback, client list, shutdown, raw buffer, frames of peers | broker, callback |
| callback (`audio.cpp:93-117`) | none | sends what was recorded; asks for a buffer and waits for it | audio thread |
| start and end (`audio.cpp:614-726`, `657-683`) | port, identity, threads | bind, start threads; send shutdown, close sockets, join | all |
| commands (`audio.cpp:993-1029`) | none | a type, a length, a list | broker to thread |
| QARB (`qarb.cpp`) | ring buffer with an index per peer | read, write, clearClient | compiled in, used by a sketch only |
| WAVFile (`wavfile.cpp`) | samples written | header, data, sizes at the end | audio thread, with `--log` |
| ZMQSemaphore (`zmq_semaphore.cpp`) | a PUB or SUB socket | post, wait | sketches only |
| options (`popuset.cpp:65-247`) | `opts` | parse devices, targets, port | start |

What is hard here is ordering and blocking: a connect that answers nobody while
it waits; two connections with one identity; lists that are sent, dropped and
read at any time relative to the audio they are about; a thread that must answer
its callback before anything else; three queues with three ways of being full;
and a shutdown in which every thread may be waiting for another. `PROJECT.json`
lists each hazard at its line.

## The modules

| module | models | runs |
|---|---|---|
| `Mesh` | instances that start, connect, serve, exit | `mesh` |
| `Channels` | the sockets between the threads of a process | with the next three |
| `Broker` | main thread; the audio threads as an environment | `broker_*` |
| `AudioThread` | audio threads and callbacks; the broker as an environment | `thread_*` |
| `Popuset` | `Broker` and `AudioThread` together | `process_*` |
| `Playout` | what a listener is promised; `AudioThread` implements it | `process_listening` |
| `Command` | the frames of a command and the client list in bytes | `command` |
| `CommandQueue` | a queue of whole commands, which `Channels` takes `cmd_sock` for; `Command` implements it | `command` |
| `QARB` | the ring buffer | `qarb` |
| `Timeline` | what the buffer promises its clients; `QARB` implements it | `qarb` |
| `Options` | what is made of a command line (operators only) | `host` |
| `Host` | the instances of a host: ports, inproc addresses, log files | `host` |
| `MCMesh`, `MCBroker`, `MCAudioThread`, `MCPopuset`, `MCCommand`, `MCQARB`, `MCHost` | values for the constants | |
| `MeshProofs`, `ChannelsProofs`, `BrokerProofs`, `AudioThreadProofs`, `PopusetProofs`, `CommandProofs`, `QARBProofs`, `HostProofs` | theorems about the module of the same name, and their proofs | |

Definitions that a comment calls a *faulty variant* are plausible bugs of the
definition that follows them. No specification uses them: put in its place, each
makes a property fail, which shows that the property can fail.

**Mesh.** An instance stands for its identity and its address. `phase` is where
its main thread is: not running, in its calls of `connect`, in the loop.
`ident` is the REQ socket of the call of `connect` that is under way, `outbound`
the set of the same name, `dialed` and `linked` the connections of `world_sock`.
`route[<<n, m>>]` says which connection owns the identity of m at the ROUTER of
n: ROUTERs are opened with `ZMQ_ROUTER_HANDOVER` (`audio.cpp:959-963`), so the
newest does (`TakesOver`). `ident_sock` and `world_sock` have the same identity (695, 732), so an
answer may be routed to either. `Exit` and `Start` are a process that ends and
is started again: it loses all its state and what waits at its sockets. `Timeout`
may come at any time. `late` and `overtaken` are history: that the timeout beat an
answer, and that a connection of the `world_sock`s came up while a call was waiting.

**Channels.** A frame is a peer and a number. Every queue has a high water mark
as a constant (the code has 2 by default, 5 for the world, 10 for commands; a
path between two `inproc:` sockets holds the sum of both sides). A PUB and a
ROUTER drop what finds no room; a DEALER and a PUSH wait. `Covers` says whose
identity begins with whose, because `ZMQ_SUBSCRIBE` matches prefixes. A client
list is a set, sent in the order of the map and ended by an empty entry; the
peer `Anon` is the one whose identity is empty.

**Broker.** `stage` is the place of the main thread: `connect`, the three parts
of a pass (`poll`, `read`, `broadcast`) and the destructor. A pass is `PollSockets`
(which of the two sockets `zmq_poll` reports), then `AnswerIdent` or
`ReceiveAudio`, then `ForwardInput`, then `Clean`, then `Broadcast`. Time is a
counter `now`; five seconds are `CleanPeriod` ticks, and a pass takes less than a
tick. The environment actions (`ThreadConnects`, `ThreadTakesCommand`, ...) do to
the channels what an audio thread may do.

**AudioThread.** `direction` is what the options made of a device. `ready` holds the sockets that the last `zmq_poll` reported and
that the pass has still to serve; its order is the order of the code. `mix` is
the set of frames added up in `mix_buff`, `reply` the buffer on its way to the
callback, `chunks` the backlogs, `mixedIn` the flags. `callback` is what the
callback is doing: nothing, waiting for the buffer it asked for, playing it, or, with an
INPUT device, in the `zmq_send` of what it has recorded (`CallbackRecords`), which
returns once there is room (`CallbackSends`, `audio.cpp:103`). `Cleanup` waits for a callback in
any of these, as `Pa_CloseStream` does (565). `leavers` and `heard` are
history variables: who was kicked since the buffer was begun, and what has been
played. `Poll` reports any non-empty part of what is readable. `DecodeError` is a
frame whose decoded length is not what it says, `DecodeWithoutDecoder` the
decoder that is a null pointer (`audio.cpp:539`), after which the process is gone.
`BrokerPublishes`, `Sends` and so on do to the channels what the broker may do.

**Popuset.** The conjunction of both: the actions of `Broker` that are the main
thread's or the world's, and the actions of `AudioThread` that are the devices'.
`CloseNext` and `TerminateJoined` add the waits of `pthread_join`. Since each half
was checked against an environment, the run `process_listening` checks that the
composition implements both `BrokerSpec` and `ThreadSpec`: every step of a thread
is one that the broker's environment allows, and the other way round. So what
holds of `Broker` and `AudioThread` alone holds in the process.

**Playout.** The abstract specification of a listener: a frame that has been
published waits, and is then lost or heard; what is heard is newer than all that
was heard before, and what was passed over is gone. `Waiting` in `AudioThread` is
the refinement mapping: a frame waits in the socket, the backlog, `mix_buff` or
the reply.

**Command.** `stream` is the queue of ZeroMQ frames of one device, three to a
command. A list has its length modulo the width of an unsigned short, and what of
the list lies within that length; a list that is cut off by it is read on into
memory that may hold anything (`HandleData`), and one whose identities alone are
too long is written behind the end of its buffer (`Overflows`), which may end the
process. For a command without data `sendCommand` sends the type in place of the
length (`audio.cpp:1001`), and `readCommand` reads that one byte into two (1020):
`LengthRead` is any value of the other one. `UpTo` adds up over the places of the map,
as the loops at `audio.cpp:873` and `880` do; the length, the end of each entry and what
lies within the length are all read off it. `ImplementsQueue` maps three frames to
one command.

**QARB.** One action per method. A cell is the set of the samples that were added
up in it. The two recursive batches of a read that wraps around are two
applications of `CaughtUp` to every index. `Timeline` has no ring: it has a sequence
of places ahead of the reader and a position for each client. It is implemented
until a client gets a whole buffer ahead (`Overrun`), from where nothing is
promised until a read of the whole buffer (`Recover`). `qarb.h` promises that the
excess is discarded then; it is not. The calls exclude each other in the model.
The class takes no lock, so this is what its callers owe it; the sketch that uses
it calls it from three threads and does not.

**Options and Host.** A request for a device is a word for the direction, a card
and a number of channels, each possibly missing or nonsense; `parseDevice` is a set
of at most one device. `Host` starts instances with command lines, and follows each
through the search for a port (`BindPort`, `NextPort`, `GiveUp`), the start of its
threads (`StartThread` binds, `InitSocks` connects) and the log files (`OpenLog`,
`WriteData`, `WriteFails`, `EndThread`) until it finishes or is killed. `pulls` and
`pair` say which threads are at the other end of the sockets of a device: a PUSH
deals out to all that have connected, a PAIR keeps the first. `refused`, `silent` and
`spoilt` are history: the ports an instance was refused, the cards and directions that the
options of its present run ask for with no channels, and whether a file was
written by two at once, lost a write, or lost its writer.

## The runs

Passing runs:

| run | instance | states | shows |
|---|---|---|---|
| `mesh` | 2 instances that target each other, one with the address of the other twice, 3 starts each | 54 thousand | `AcyclicLinks`: connections of instances that ran on never close a circle; `MeshInv`, the inductive invariant behind it; `EventuallyServes`: everybody gets to the loop; `ServingTargetAnswers`: a call of `connect` to a target in its loop succeeds |
| `broker_roster` | 2 peers, 1 speaker, 5 ticks with a period of 1 | 3.1 million (with symmetry) | `RetentionBound`, `RetentionInv`, `CulledOnlyWhenSilent`, `ListCurrent` |
| `thread_mixing` | 2 peers, 3 frames each, queues of 1 | 4.5 million (with symmetry) | `InOrder`: audio is heard in order and at most once; `FlagTruth`, `NoIdleBacklog`; `Running`: no frame is decoded without a decoder |
| `thread_answers` | 2 peers, one identity the beginning of the other, 1 frame each; the device plays or records | 350 thousand | `RequestAnswered`: commands and frames do not keep the callback waiting |
| `process_listening` | 1 peer, 1 speaker, 3 frames, 4 ticks with a period of 1 | 323 thousand | `MapsAgree`, the two refinements, `ImplementsPlayout`, `EventuallyListens`: a peer that keeps being heard is listened to; `QueuedIsPlayed` |
| `qarb` | 2 clients, 4 cells, 4 samples each, reads of 1 to 4, writes of 1 to 3 | 236 thousand (with symmetry) | `ImplementsTimeline`, `NobodyBeyondFarthest`, `QARBTypeOK`: every index stays in the buffer, every sample is played once at its place, whoever overtakes whom |
| `command` | 4 clients, bytes of 4 values, a queue of 2 | 108 thousand | `FramesInStep`, `ImplementsQueue`: a shutdown with half a length and lists of any length leave the reader at the beginning of a command |
| `host` | 2 instances, 3 cards, 6 ports of which 2 are used by others, at most 2 ports tried | 1.1 million | `FirstPortNotRefused`, `ChannelsExist`, `LinesMeetOnDistinctCards`: on distinct cards every callback has its own thread; `LogsTellTheirSize`; `SearchEnds`, even after a wrap; `HostTypeOK` |
| `process_recording` | speaker and microphone, 1 outbound peer, 4 buffers | 205 thousand | `OutgoingInOrder` over three queues; `EndsUnlessBlocked`: what may keep a thread from ending |

Why the bounds are enough for the cases that matter: two instances that target each
other are the smallest circle, and in a longer one nobody is asked by an instance
that it sends to; that longer circles do not close either is proved. After a restart
the connection of the earlier run is made again before, during or after the new call
of `connect`, and with the address twice on the command line a second call meets the
request and the connection that the first one left. Five ticks at a period of one cover two whole searches (a search is
due after more than a period) and what comes before the first. Of three frames
of a peer one can be in the buffer, one in the backlog and one on its way, or
one in the buffer of a peer that was kicked and joined again; in a whole process
the first frame only makes the peer known, and four ticks let it be heard, be
culled and come back; queues of one or two are full at once; four recorded
buffers fill the three queues between the callback and the peer. Four cells are
enough for a read to wrap around inside a chunk and for one client to be overtaken
while another is not. Four clients with bytes of four values have lists that fit,
that wrap around to zero and that overflow the allocation. In `host` the ports end
at 6; one instance may begin its search there, another program may hold that port,
and the one that follows is port 0. One request of each kind meets every branch of
`parseDevice`, a card without the direction that is asked for among them, and one
command line asks for no channels of one card beside a card that has none. And the
size in a log wraps around after 50 bytes, less than a stereo file of two samples
needs.

`ServingTargetAnswers` excuses a call whose answer was about to come when the
timeout struck (`late`), and one in which the two `world_sock`s got connected while
it waited for the answer (`overtaken`). Nothing else is excused: a connection that
was there before the call, or that belongs to a call before it, takes nothing away,
because the newest connection owns the identity. Without the second excuse the
property fails: an instance is restarted and asks a peer that still sends to it, the
peer's connection comes back while `connect` waits, and the peer is given up although
it answered at once (the first of the findings below).

Runs that find a violation; each is what the code does, against what is written:

| run | property | what happens |
|---|---|---|
| `broker_anon` | `AllListenedTo` (README "they will all be mixed together") | A peer without a link-local address sets no identity; its key in `inbound` is empty, sorts first and ends the client list. |
| `process_hang` | `GracefulShutdown` (`popuset.cpp:275`) | A thread blocks in `zmq_send` to `input_sock` after the broker has left its loop; the join waits for ever. |
| `process_untold` | `EverybodyTold` (`audio.cpp:658`, "Send CMD_SHUTDOWN to everybody") | SIGINT comes before a thread has connected, or finds its queue full of client lists: the ROUTER drops the command (995), and the join waits for a thread that was not told. |

What else was found, without a run of its own (`findings` in `PROJECT.json`):

- `ident_sock` carries the identity of `world_sock` (`audio.cpp:732`) and the newest
  connection owns it (959-963), so the answer that a restarted instance waits for may
  go to its `world_sock` instead. README.md:23 promises a "fully connectable" mesh.
- When two devices are on one card, as the default output and the default input may
  be, the second one binds nothing, because the inproc addresses are made from the
  number of the card alone (632, 639): both threads connect to the first. This is
  the case that `LinesMeetOnDistinctCards` leaves out.
- Two instances that target each other are never both connected, unless one is
  restarted; this is `AcyclicLinks`. A target that did not answer within two
  seconds is never tried again. TODO.md:16 knows that retries are missing.
- An answer to an identity request has an empty first frame. Routed to a
  `world_sock` it is taken for a request (`audio.cpp:792`) and answered in turn,
  possibly for ever.
- The subscription of a client socket leaves out the terminating NUL, so the one
  for port 504 also matches port 5040 (`audio.cpp:413`).
- The identity is made from the port before the search changes it, so a second
  instance on a host has the identity of the first (`audio.cpp:693`); the last bind
  of the search is thrown away even if it succeeds (706).
- Rejected devices are replaced by the default ones (`popuset.cpp:220`).
- QARB does not discard what there is no room for (`qarb.cpp:67`); the byte rate
  and the block align in a log file are an eighth of what they should be
  (`wavfile.cpp:63`).

A detail of wording: the comment at `audio.cpp:738` says "max wait time; 1 second",
the poll after it waits 2000 ms. The models do not depend on the number.

## Fairness

- `Mesh!FairSpec`: every process runs on and the network delivers (weak fairness
  of the steps of `connect`, of `LinkUp` and of `AnswerIdent`); the poll of
  `connect` returns (weak fairness of `Timeout` or `Connected`). Nothing makes a
  user start or stop an instance.
- `ThreadFairSpec`: a thread runs (weak); a socket that is readable again and
  again is reported by `zmq_poll` sooner or later (strong, only where a property
  needs it: the request of the callback, and commands in `Popuset`), since poll
  tests every socket on every call and leaves out only what became readable
  behind its back; PortAudio calls back and the callback returns (weak).
  A callback that has recorded something sends it once there is room, while its socket is
  open (weak, in `Popuset`); nothing makes it record.
- `Host!FairSpec`: a search for a port goes on unless the instance is killed (weak).
- `Popuset!FairSpec`: both of these, the main thread (weak), a message that waits
  at `world_sock` (strong, by the same argument) and the clock (weak).

No fairness is assumed for peers, for SIGINT, for errors of Opus, nor for a
callback whose socket was closed.

## The proofs

`tlapm` checks all eight proof modules; no step is left out. Every safety property
that a passing run checks is also a theorem, for every value of the constants, and so are
the five refinements. An invariant that is stronger than the property was checked by TLC
on the instance of the run before it was proved.

| module | theorem | states | for all |
|---|---|---|---|
| `MeshProofs` | `MeshInvariant`, `NoCircle` | `MeshInv`, `AcyclicLinks` | instances, targets, starts |
| `BrokerProofs` | `RetentionInvariant`, `Retention`, `CulledSilent` | `RetentionInv`, `RetentionBound`, `CulledOnlyWhenSilent` | peers, devices, queues, period, time |
| | `BrokerTypesCorrect`, `ListsCurrent` | `BrokerTypeOK`, `ListCurrent` | the same |
| `AudioThreadProofs` | `TypeInvariant`, `TypesCorrect` | `TypeInv`, `ThreadTypeOK` | peers, devices, frames, queues |
| | `OrderKept`, `BacklogServed`, `FlagsTrue`, `NeverCrashes` | `InOrder`, `NoIdleBacklog`, `FlagTruth`, `Running` | the same, under `NoPrefixes` |
| | `PlayoutRefined` | `ImplementsPlayout` | the same, under `NoPrefixes` |
| `PopusetProofs` | `ProcessInvariant`, `MapsAgreed`, `OutgoingOrdered` | `ProcessInv`, `MapsAgree`, `OutgoingInOrder` | all constants of both halves |
| | `ThreadsKeepToBroker`, `BrokerKeepsToThreads` | `ThreadsKeepToBrokerSpec`, `BrokerKeepsToThreadSpec` | the same |
| | `ProcessRoster`, `ProcessPlays` | what was proved of the halves, of the process | the same, the second under `NoPrefixes` |
| `CommandProofs` | `CommandInvariant`, `InStep`, `QueueRefined` | `CommandInv`, `FramesInStep`, `ImplementsQueue` | clients, lengths, widths, queues |
| `QARBProofs` | `IndicesInBuffer`, `MaxReadableCoversAll`, `TimelineRefined` | `QARBTypeOK`, `NobodyBeyondFarthest`, `ImplementsTimeline` | cells, clients, sizes |
| `HostProofs` | `PortFound` | `FirstPortNotRefused` | ports, attempts, instances, under `PortsLeft` |
| | `OnlyChannelsThatExist`, `LinesMeetApart`, `LogsTellSize`, `HostTypes` | `ChannelsExist`, `LinesMeetOnDistinctCards`, `LogsTellTheirSize`, `HostTypeOK` | instances, cards, command lines, sizes |

### Assumptions

Each module states what it assumes of its constants in one `ASSUME`, which TLC
evaluates in every run: types, and that capacities, periods and widths are positive. Those
that say more:

- `AudioThreadAssumption`: no peer is called `"mixed"`, `"cmd"` or `"raw"`, the names of
  the thread's own sockets in `ready`. In the code these are pointers.
- `OptionsAssumption`: the default devices have channels, which PortAudio promises of
  them; an unsigned short has more than two values, so the two channels that a device gets
  by default fit.
- `CommandAssumption`: identities are not empty and a byte has more than two values.
  (What an empty identity does is the run `broker_anon`.)

Two theorems have a hypothesis that is not an `ASSUME`, because the model is meant to be
run without it as well:

- `NoPrefixes` (`AudioThreadProofs`): no identity is the beginning of another one. Without
  it a frame comes through two sockets and is heard twice, or reaches a thread that has no
  decoder for it; so says the finding about `audio.cpp:413`. What does not depend on it
  (types, maps, the way out, the client lists) is proved without it.
- `PortsLeft` (`HostProofs`): other programs and instances are fewer than ports. Otherwise
  a search that has wrapped around may find port 0 refused and go round again, over
  ports it was refused before. The search has no limit then, as `SearchEnds` says.

### The arguments

**MeshProofs.** That connections never close a
circle is not inductive: what keeps the circle open is that a link is made only to
an instance that has got through its own calls of `connect`, so the one that is
still in its calls has no links to it (`LinkedHaveServed`). That in turn needs to
know that an answer can be given only to the call that asked for it
(`RequestRoutes`), within a call (`CallsInOrder`). `NobodyLinksTo` is the step of the
argument on graphs: leaving out an instance that nobody links to, what is left of
any set has a member that sends to none of it.

**BrokerProofs.** The bound on silence is not inductive:
`RetentionInv` adds how old the last search may be before and after the tick of a
pass, that who is on the list was heard no earlier than a period and a tick before the last
search, and the case of the first pass, which may come long after `last_clean` was
taken because the calls of `connect` come between. `ListCurrent` is about the last list
that waits in a queue, or the sockets of the thread if none does (`ViewOf`): putting a list
behind the others makes it the last, reading one moves it from the queue to the sockets,
and every other command leaves it alone. The end of the module has what the other half of
the process relies on: the destructor runs after SIGINT only (`StageInv`), and what waits from
a peer is newer than what has been published of it (`WorldInv`).

**AudioThreadProofs.** The types need `ReadyHolds`: what the last poll reported can
still be read when its turn in the pass comes, because nobody else reads the sockets of the
thread, and a client list, which may close some, ends the pass. The rest follows from
`DeviceInv`, one conjunct for each way in which audio could go wrong: the maps of a
thread have the same keys (`SamePeers`), a client socket holds growing numbers of its own
peer (`SocketsSorted`), the places along the way from socket to speaker hold older
and older frames, none newer than what was published (`OlderFirst`), and the flag of a peer is
set exactly if `mix_buff` has one frame of it (`FlagTells`). None of them is inductive
alone: that a frame may be added to `mix_buff` needs the flag, that the flag may be
cleared needs the backlog to be served first, and the order in the backlog needs the order
in the socket. `PlayoutRefined` then has one step for each action: it publishes, loses,
plays, or changes nothing that `Waiting` and `heard` show.

**PopusetProofs.** `StepIsBoth`: under `ProcessInv`, a step of the process is a step of
`Broker` with its environment and one of `AudioThread` with its own. `ProcessInv`
is the conjunction of what each half has proved and the other one assumes (types,
`LifeInv` that no thread ends before SIGINT, `StageInv`, `WorldInv`). Since each conjunct is
inductive in its own half, all of it is in the process: the argument is not circular, for it
is one induction over the steps of the process. From there every theorem about a half is
one about the process. The way out (`OutgoingInOrder`) concerns both halves:
`LineInOrder` relates what has gone out, what waits at the broker, what waits at the
thread and what was recorded last.

**CommandProofs.** `CommandInv` says that the stream is n whole commands, n at most the
size of the queue, and of what three frames a command consists (`Commands`). `TakesThree` is
where the uninitialised byte is shown to be harmless: the half that is read is the type, which
is not zero, so the length is positive whatever the other half is, and the reader asks for
a third frame. `Whole` says that a list whose length fits is sent and read as it is.

**QARBProofs.** The types and the farthest index together are inductive (`QARBInv`).
`WrapsOnce` is what `%` does to a sum of two indices; with it `OvertakenDistance` says
that a read of n cells, in one batch or two, takes n off the distance of an index
and never less than all of it. So a read keeps the order of the distances, and the
farthest stays the farthest. The refinement needs `ClearBeyond` too: what lies beyond the
farthest index has been cleared, or a write there would be mixed with an earlier lap.
`ReadMaps` and `WriteMaps` say what a call is on the timeline.

**HostProofs.** `SearchInv` says where a search is: it was refused every port from the first
to the one before the current, or to the last one if it has come to port 0; a bind to
port 0 cannot be refused (`AnyPortFree`, by counting). `OptionsInv` says that the devices
of an instance and its `silent` are what one and the same command line gives (`Flattened`
and `Parsed` are about `Accepted`). `LinesInv` and `OwnInv` say of every line that it has no end before its
thread has connected, and its own afterwards, if the card is its own (`BinderOf`).
`LogInv` and `TellInv` are about the files: a file that nothing has spoilt has at most one
writer, the position of the writer is the end of the file, and with no writer the header has the
sizes (`Told`). The three steps that are not obvious are those by which a file becomes
spoilt: it is opened while another thread writes to it, a write fails, or its writer is killed.

Two of these proofs need an induction over data: what a sequence of sequences is flattened
into (`Flattened`), and what `UpTo` adds up (`Adds`, `Grows`). The induction theorems of the library
take an operator and cannot be used, so these argue by the least counterexample:
`Least`, from the well-foundedness of `<`, says that a set of numbers that is not empty has
a least member.

### Only model-checked

- All liveness: `EventuallyServes`, `ServingTargetAnswers`, `RequestAnswered`,
  `EventuallyListens`, `QueuedIsPlayed`, `EndsUnlessBlocked`, `SearchEnds`. They rest on weak
  and strong fairness, that is on `ENABLED`, which this prover cannot handle.
- The violations, of course: `AllListenedTo`, `GracefulShutdown`, `EverybodyTold`.

## Not modelled

- Samples. A buffer is the set of frames that were added into it; `mixdown_channels`
  and Opus are left out, except that encoding and decoding may fail.
- Frames of a ZeroMQ message: a message is sent, dropped and read whole.
- The length of a backlog against memory, and the 64 peers that `items` has room for.
- Errors of socket creation, of the device and of thread creation.
- A clock that is set back or forward (`time_ms` is `gettimeofday`).
- `Command` has one thread; a read past the end of a list may yield any clients,
  and may end the process.
- The texts of options, `--meter` and `--help`; which of several cards a name means
  (`getDeviceId` takes the first).
- Header fields of a log other than its sizes, and writes that are partly done.
- Calls of QARB that overlap, and reads of more than it holds.
- ZMQSemaphore: nothing that is built uses it. The sketches and the meters.

## Plan

1. In `AudioThread`, the room for 64 client sockets in `items`, with the capacity as
   a constant.
2. Proofs: what the abstract specifications promise in themselves (that `Playout` plays
   growing numbers, that `CommandQueue` hands on every list that it has not lost), so that
   the refinements carry it over; that two instances never hold one port; which part of
   `InOrder` remains when one identity is the beginning of another.
