-------------------------------- MODULE Host --------------------------------
(***************************************************************************)
(* The popuset instances of one host, and what they share: its TCP ports   *)
(* and its files.  An instance parses its options, looks for a port, binds *)
(* the inproc sockets of each of its devices and starts their threads,     *)
(* which connect to them and open their log files.  It ends when it is     *)
(* told to, or at any time.                                                *)
(*                                                                         *)
(* The inproc sockets of a device are named after its card, so two devices *)
(* on one card share them.                                                 *)
(***************************************************************************)
EXTENDS Options

CONSTANTS
  Instance,
  CommandLine, \* the command lines that each instance may be started with
  Attempts,    \* the ports after the first one that may be tried (10)
  Occupied,    \* the ports that other programs may hold
  SizeMod,     \* how many values a size in a log file has (2^32)
  MaxStarts,   \* bound: starts of each instance
  MaxBuffers   \* bound: buffers in each log file

NoPrefix == "none"
NoPort == UShort
Port == 0..(UShort - 1)

ASSUME HostAssumption ==
  /\ Attempts \in Nat \ {0} /\ Occupied \subseteq Port \ {0}
  /\ CommandLine \in [Instance -> SUBSET [port : Port, prefix : STRING, devices : Seq(Request)]]
  /\ SizeMod \in Nat \ {0} /\ MaxStarts \in Nat /\ MaxBuffers \in Nat

VARIABLES
  stage,    \* where the main thread of an instance is
  starts,   \* how often it has been started
  asked,    \* the port it was asked to use, which its identity is made from
  port,     \* opts.port
  bound,    \* the port that its world_sock is bound to
  refused,  \* history: the ports that it was refused in its search
  others,   \* the ports that other programs hold
  prefix,   \* opts.logprefix
  devices,  \* opts.devices
  silent,   \* history: the cards and directions that it was asked to open with no channels
  thread,   \* the stages of the threads of the devices that have been started
  pulls,    \* pulls[i][k]: the threads that read what the callback of k records
  pair,     \* pair[i][k]: the thread that the callback of k asks, 0 if none yet
  log,      \* the log file that each thread has open
  files     \* the log files on disk

options == <<prefix, devices, silent>>
process == <<stage, starts, options>>
search == <<asked, port, bound, refused>>
lines == <<pulls, pair>>
vars == <<process, search, others, thread, lines, log, files>>

NoLog == [path |-> <<>>]

Init ==
  /\ stage = [i \in Instance |-> "off"] /\ starts = [i \in Instance |-> 0]
  /\ asked = [i \in Instance |-> 0] /\ port = [i \in Instance |-> 0]
  /\ bound = [i \in Instance |-> NoPort] /\ refused = [i \in Instance |-> {}]
  /\ others \in SUBSET Occupied
  /\ prefix = [i \in Instance |-> NoPrefix] /\ devices = [i \in Instance |-> <<>>]
  /\ silent = [i \in Instance |-> {}]
  /\ thread = [i \in Instance |-> <<>>]
  /\ pulls = [i \in Instance |-> <<>>] /\ pair = [i \in Instance |-> <<>>]
  /\ log = [i \in Instance |-> <<>>]
  /\ files = [p \in {} |-> 0]

Taken == others \cup {bound[i] : i \in Instance}

(* Other programs come and go.                                              *)
OthersChange ==
  /\ \/ \E p \in others : others' = others \ {p}
     \/ \E p \in Occupied \ Taken : others' = others \cup {p}
  /\ UNCHANGED <<process, search, thread, lines, log, files>>

-----------------------------------------------------------------------------
(* Options and the search for a port.                                       *)

(* parseOptions; an instance whose options crash it is as if not started.   *)
Launch(i) ==
  /\ stage[i] \in {"off", "gaveup"} /\ starts[i] < MaxStarts
  /\ starts' = [starts EXCEPT ![i] = @ + 1]
  /\ \E o \in CommandLine[i] :
       IF ParsingCrashes(o.devices) \/ DefaultsCrash(o.devices)
       THEN /\ stage' = [stage EXCEPT ![i] = "off"]
            /\ UNCHANGED <<asked, port, refused, options>>
       ELSE /\ stage' = [stage EXCEPT ![i] = "binding"]
            /\ asked' = [asked EXCEPT ![i] = o.port]
            /\ port' = [port EXCEPT ![i] = o.port]
            /\ refused' = [refused EXCEPT ![i] = {}]
            /\ prefix' = [prefix EXCEPT ![i] = o.prefix]
            /\ devices' = [devices EXCEPT ![i] = DevicesFor(o.devices)]
            /\ silent' = [silent EXCEPT ![i] = AskedForNone(o.devices)]
  /\ UNCHANGED <<bound, others, thread, lines, log, files>>

(* What a bind to a port may give: port 0 is any port that is free.         *)
Offered(p) == (IF p = 0 THEN Port \ {0} ELSE {p}) \ Taken

(* Faulty variant: one port less is tried.                                  *)
FewerLeft(i) == port[i] - asked[i] < Attempts - 1

(* opts.port - orig_port < 10; the difference is negative once opts.port    *)
(* has wrapped around.                                                      *)
AttemptsLeft(i) == port[i] - asked[i] < Attempts

(* The bind succeeds, unless it was the one attempt too many.               *)
BindPort(i) ==
  /\ stage[i] = "binding" /\ AttemptsLeft(i)
  /\ \E p \in Offered(port[i]) : bound' = [bound EXCEPT ![i] = p]
  /\ stage' = [stage EXCEPT ![i] = "building"]
  /\ UNCHANGED <<starts, options, asked, port, refused, others, thread, lines, log, files>>

(* Faulty variant: the same port is tried again.                            *)
SameAgain(p) == p

(* Faulty variant: a port of more bits than an unsigned short.              *)
After(p) == p + 1

NextAfter(p) == (p + 1) % UShort

(* The port is taken: the next one is tried.                                *)
NextPort(i) ==
  /\ stage[i] = "binding" /\ AttemptsLeft(i) /\ Offered(port[i]) = {}
  /\ refused' = [refused EXCEPT ![i] = @ \cup {port[i]}]
  /\ port' = [port EXCEPT ![i] = NextAfter(@)]
  /\ UNCHANGED <<process, asked, bound, others, thread, lines, log, files>>

(* One more port is tried, but whatever comes of it the instance exits.     *)
GiveUp(i) ==
  /\ stage[i] = "binding" /\ ~AttemptsLeft(i)
  /\ stage' = [stage EXCEPT ![i] = "gaveup"]
  /\ UNCHANGED <<starts, options, search, others, thread, lines, log, files>>

-----------------------------------------------------------------------------
(* The devices and their threads.                                           *)

(* The AudioEngine binds the sockets of its next device and starts its      *)
(* thread.  A bind to an address that has been bound before fails, and      *)
(* nobody notices.                                                          *)
StartThread(i) ==
  /\ stage[i] = "building" /\ Len(thread[i]) < Len(devices[i])
  /\ thread' = [thread EXCEPT ![i] = Append(@, "started")]
  /\ pulls' = [pulls EXCEPT ![i] = Append(@, {})]
  /\ pair' = [pair EXCEPT ![i] = Append(@, 0)]
  /\ log' = [log EXCEPT ![i] = Append(@, NoLog)]
  /\ UNCHANGED <<process, search, others, files>>

EnterLoop(i) ==
  /\ stage[i] = "building" /\ Len(thread[i]) = Len(devices[i])
  /\ stage' = [stage EXCEPT ![i] = "serving"]
  /\ UNCHANGED <<starts, options, search, others, thread, lines, log, files>>

(* Faulty variant: the address is that of the direction.                    *)
SameDirection(i, j, k) == devices[i][j].direction = devices[i][k].direction

(* Two devices have the same inproc addresses.                              *)
SameAddress(i, j, k) == devices[i][j].card = devices[i][k].card

(* The device whose sockets are bound to the addresses of device k.         *)
Binder(i, k) ==
  CHOOSE j \in 1..k : SameAddress(i, j, k) /\ \A m \in 1..(j - 1) : ~SameAddress(i, m, k)

(* initSocks: a PUSH may have several readers, a PAIR has one.              *)
InitSocks(i, k) ==
  LET b == Binder(i, k) IN
  /\ thread[i][k] = "started"
  /\ thread' = [thread EXCEPT ![i][k] = "connected"]
  /\ pulls' = [pulls EXCEPT ![i][b] = @ \cup {k}]
  /\ pair' = [pair EXCEPT ![i][b] = IF @ = 0 THEN k ELSE @]
  /\ UNCHANGED <<process, search, others, log, files>>

Path(i, k) == <<prefix[i], devices[i][k].card, devices[i][k].direction>>
Writers(path) ==
  UNION {{<<i, k>> : k \in {m \in DOMAIN log[i] : log[i][m].path = path}} : i \in Instance}
Logged(path, file) == [p \in DOMAIN files \cup {path} |-> IF p = path THEN file ELSE files[p]]

HeaderSize == 44

(* The start of audio_thread: a WAVFile truncates the file and writes a     *)
(* header without sizes.                                                    *)
OpenLog(i, k) ==
  /\ thread[i][k] = "connected"
  /\ thread' = [thread EXCEPT ![i][k] = "looping"]
  /\ IF prefix[i] = NoPrefix
     THEN UNCHANGED <<log, files>>
     ELSE /\ log' = [log EXCEPT ![i][k] = [path |-> Path(i, k), at |-> HeaderSize, total_samples |-> 0]]
          /\ files' = Logged(Path(i, k),
               [size |-> HeaderSize, riff |-> 0, data |-> 0, spoilt |-> Writers(Path(i, k)) # {}])
  /\ UNCHANGED <<process, search, others, lines>>

(* A sample of every channel, four bytes each.                              *)
BytesOf(i, k, samples) == 4 * devices[i][k].channels * samples

Logging(i, k) == log[i][k] # NoLog /\ log[i][k].total_samples < MaxBuffers

(* writeData, here a sample at a time.                                      *)
WriteData(i, k) ==
  LET w == log[i][k]
      end == w.at + BytesOf(i, k, 1)
  IN
  /\ thread[i][k] = "looping" /\ Logging(i, k)
  /\ log' = [log EXCEPT ![i][k].at = end, ![i][k].total_samples = @ + 1]
  /\ files' = [files EXCEPT ![w.path].size = IF @ < end THEN end ELSE @]
  /\ UNCHANGED <<process, search, others, thread, lines>>

(* The disk is full: nobody looks at what write returns.                    *)
WriteFails(i, k) ==
  /\ thread[i][k] = "looping" /\ Logging(i, k)
  /\ log' = [log EXCEPT ![i][k].total_samples = @ + 1]
  /\ files' = [files EXCEPT ![log[i][k].path].spoilt = TRUE]
  /\ UNCHANGED <<process, search, others, thread, lines>>

-----------------------------------------------------------------------------
(* The end.                                                                 *)

(* Faulty variant: the size of the file counts its own eight bytes.         *)
RiffWithHeader(i, k) == (HeaderSize + BytesOf(i, k, log[i][k].total_samples)) % SizeMod

RiffSize(i, k) == (36 + BytesOf(i, k, log[i][k].total_samples)) % SizeMod
DataSize(i, k) == BytesOf(i, k, log[i][k].total_samples) % SizeMod

(* SIGINT, and the destructor tells the threads.                            *)
Stop(i) ==
  /\ stage[i] = "serving"
  /\ stage' = [stage EXCEPT ![i] = "closing"]
  /\ UNCHANGED <<starts, options, search, others, thread, lines, log, files>>

(* The end of audio_thread: finalizeHeader fills in the sizes.              *)
EndThread(i, k) ==
  /\ stage[i] = "closing" /\ thread[i][k] = "looping"
  /\ thread' = [thread EXCEPT ![i][k] = "ended"]
  /\ log' = [log EXCEPT ![i][k] = NoLog]
  /\ files' = IF log[i][k] = NoLog THEN files
              ELSE [files EXCEPT ![log[i][k].path].riff = RiffSize(i, k),
                                 ![log[i][k].path].data = DataSize(i, k)]
  /\ UNCHANGED <<process, search, others, lines>>

(* Nothing is left of an instance but its files.                            *)
Gone(i) ==
  /\ stage' = [stage EXCEPT ![i] = "off"]
  /\ bound' = [bound EXCEPT ![i] = NoPort]
  /\ prefix' = [prefix EXCEPT ![i] = NoPrefix]
  /\ devices' = [devices EXCEPT ![i] = <<>>]
  /\ silent' = [silent EXCEPT ![i] = {}]
  /\ thread' = [thread EXCEPT ![i] = <<>>]
  /\ pulls' = [pulls EXCEPT ![i] = <<>>] /\ pair' = [pair EXCEPT ![i] = <<>>]
  /\ log' = [log EXCEPT ![i] = <<>>]
  /\ UNCHANGED <<starts, asked, port, refused, others>>

(* All threads have been joined.                                            *)
Finish(i) ==
  /\ stage[i] = "closing" /\ \A k \in DOMAIN thread[i] : thread[i][k] = "ended"
  /\ Gone(i) /\ UNCHANGED files

(* The instance is killed, or one of its threads ends it (a log that cannot *)
(* be opened, say): what it was writing stays as it is.                     *)
Kill(i) ==
  /\ stage[i] \in {"binding", "building", "serving", "closing"}
  /\ files' = [p \in DOMAIN files |->
       [files[p] EXCEPT !.spoilt = @ \/ \E k \in DOMAIN log[i] : log[i][k].path = p]]
  /\ Gone(i)

-----------------------------------------------------------------------------
DeviceDoes(i, k) ==
  InitSocks(i, k) \/ OpenLog(i, k) \/ WriteData(i, k) \/ WriteFails(i, k) \/ EndThread(i, k)

Next ==
  \/ OthersChange
  \/ \E i \in Instance :
       \/ Launch(i) \/ BindPort(i) \/ NextPort(i) \/ GiveUp(i)
       \/ StartThread(i) \/ EnterLoop(i) \/ Stop(i) \/ Finish(i) \/ Kill(i)
       \/ \E k \in DOMAIN thread[i] : DeviceDoes(i, k)

Spec == Init /\ [][Next]_vars

(* The search of an instance that nobody kills goes on.                     *)
Search(i) == BindPort(i) \/ NextPort(i) \/ GiveUp(i)
FairSpec == Spec /\ \A i \in Instance : WF_vars(Search(i))

-----------------------------------------------------------------------------
(* Type invariant: a search stays within the ports of an unsigned short,    *)
(* and a thread logs only into files that are there (popuset.h:75).         *)
HostTypeOK ==
  /\ stage \in [Instance -> {"off", "binding", "gaveup", "building", "serving", "closing"}]
  /\ starts \in [Instance -> 0..MaxStarts]
  /\ asked \in [Instance -> Port] /\ port \in [Instance -> Port]
  /\ bound \in [Instance -> (Port \ {0}) \cup {NoPort}]
  /\ refused \in [Instance -> SUBSET Port]
  /\ others \in SUBSET Occupied
  /\ prefix \in [Instance -> STRING \cup {NoPrefix}]
  /\ devices \in [Instance -> Seq(Device)]
  /\ silent \in [Instance -> SUBSET (Card \X {"INPUT", "OUTPUT"})]
  /\ \A i \in Instance :
       /\ thread[i] \in Seq({"started", "connected", "looping", "ended"})
       /\ Len(pulls[i]) = Len(thread[i]) /\ Len(pair[i]) = Len(thread[i])
       /\ Len(log[i]) = Len(thread[i]) /\ Len(thread[i]) <= Len(devices[i])
       /\ \A k \in DOMAIN thread[i] : pulls[i][k] \cup {pair[i][k]} \subseteq 0..Len(thread[i])
       /\ \A k \in DOMAIN log[i] : log[i][k] # NoLog => log[i][k].path \in DOMAIN files
  /\ \A p \in DOMAIN files : files[p].riff < SizeMod /\ files[p].data < SizeMod

(* Ports: an instance that runs is bound to the first port it was not       *)
(* refused, and one that gave up was refused as many as it may try,         *)
(* whatever others do in the meantime (audio.cpp:702-709).                  *)
Following(i) == {(asked[i] + n) % UShort : n \in 0..((port[i] - asked[i] - 1) % UShort)}
FirstPortNotRefused ==
  \A i \in Instance :
    /\ stage[i] \in {"building", "serving", "closing"} =>
         /\ bound[i] \in Port \ others
         /\ bound[i] = port[i] \/ port[i] = 0
         /\ port[i] # asked[i] => refused[i] = Following(i)
    /\ stage[i] = "gaveup" => {asked[i] + n : n \in 0..(Attempts - 1)} = refused[i]

(* The search ends, even one that has wrapped around, for which there is no *)
(* limit of attempts: it comes to port 0, which is any port that is free    *)
(* (audio.cpp:702-705).                                                     *)
SearchEnds == \A i \in Instance : stage[i] = "binding" ~> stage[i] # "binding"

(* No device is opened with channels that its card does not have, nor with  *)
(* none, unless the options that the instance runs with ask for that very   *)
(* device with a number of channels that is 0 modulo the width of a short   *)
(* (popuset.cpp:131-163).                                                   *)
ChannelsExist ==
  \A i \in Instance : \A k \in DOMAIN devices[i] :
    LET v == devices[i][k] IN
    /\ v.channels <= ChannelsOf(v.card, v.direction)
    /\ v.channels > 0 \/ <<v.card, v.direction>> \in silent[i]

(* Once its threads have connected, the callback of every device has its    *)
(* own thread at the other end, which answers it and takes what it records  *)
(* (popuset.h:49-58).                                                       *)
Connected(i) ==
  Len(thread[i]) = Len(devices[i]) /\ \A k \in DOMAIN thread[i] : thread[i][k] # "started"
OwnLines(i) == \A k \in DOMAIN thread[i] : pulls[i][k] = {k} /\ pair[i][k] = k

(* It is so if no two of the devices are on one card; of two on one card    *)
(* the second binds nothing, and one is left without its thread.            *)
DistinctCards(i) ==
  \A j, k \in DOMAIN devices[i] : devices[i][j].card = devices[i][k].card => j = k
LinesMeetOnDistinctCards ==
  \A i \in Instance : Connected(i) /\ DistinctCards(i) => OwnLines(i)

(* A log that was written by one thread at a time, whose writes succeeded   *)
(* and whose threads came to their ends says how long it is, modulo the     *)
(* width of its sizes (wavfile.cpp:71-81).                                  *)
LogsTellTheirSize ==
  \A p \in DOMAIN files : ~files[p].spoilt /\ Writers(p) = {} =>
    /\ files[p].data = (files[p].size - HeaderSize) % SizeMod
    /\ files[p].riff = (files[p].size - 8) % SizeMod

=============================================================================
