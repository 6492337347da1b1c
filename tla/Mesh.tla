-------------------------------- MODULE Mesh --------------------------------
(***************************************************************************)
(* How popuset instances find each other.  An instance binds its           *)
(* world_sock, then calls AudioEngine::connect for each of its targets, one *)
(* after the other, and only then enters the loop of processBroker calls   *)
(* that answers the identity requests of the others.                       *)
(*                                                                         *)
(* connect() opens a fresh REQ socket that carries the identity of the     *)
(* instance, sends an empty message through it and waits at most two       *)
(* seconds for the identity of the target.  The target answers to that     *)
(* identity on its world_sock, a ROUTER with ZMQ_ROUTER_HANDOVER: of the   *)
(* connections that carry an identity the newest one owns it.  So an       *)
(* answer goes to the REQ socket or to the world_sock of the instance that *)
(* asked, whichever connected last.                                        *)
(***************************************************************************)
EXTENDS Integers, Sequences

CONSTANTS
  Node,     \* the instances; an instance stands for its identity and address
  Targets,  \* the --target options of each instance, in their order
  MaxRuns   \* how often an instance may be started

ASSUME MeshAssumption ==
  /\ Targets \in [Node -> Seq(Node)]
  /\ MaxRuns \in Nat

VARIABLES
  phase,     \* "down", "connecting" (the calls of connect) or "serving" (the loop)
  runs,      \* how often each instance has been started
  tried,     \* the calls of connect that have returned
  ident,     \* ident_sock: "closed", "sent", "delivered" or "answered"
  outbound,  \* the peers that audio is sent to
  dialed,    \* the targets that world_sock was told to connect to
  linked,    \* pairs <<n, m>>: the connection from n's world_sock to m is up
  route,     \* route[<<n, m>>]: n's connection that owns the identity of m
  world,     \* world[<<n, m>>]: messages without audio from m that wait at n's world_sock
  late,      \* history: the instances whose last call gave up a target that was about to answer
  overtaken  \* history: the instances whose last call lost its identity, and so the answer,
             \* to their world_sock

history == <<late, overtaken>>
vars == <<phase, runs, tried, ident, outbound, dialed, linked, route, world, history>>

Up(n) == phase[n] # "down"
Target(n) == Targets[n][tried[n] + 1]

Init ==
  /\ phase = [n \in Node |-> "down"]
  /\ runs = [n \in Node |-> 0]
  /\ tried = [n \in Node |-> 0]
  /\ ident = [n \in Node |-> "closed"]
  /\ outbound = [n \in Node |-> {}]
  /\ dialed = [n \in Node |-> {}]
  /\ linked = {}
  /\ route = [l \in Node \X Node |-> "none"]
  /\ world = [l \in Node \X Node |-> 0]
  /\ late = {}
  /\ overtaken = {}

-----------------------------------------------------------------------------
(* main: the constructor binds world_sock; the instance accepts connections *)
(* from here on, but answers nothing yet.                                   *)
Start(n) ==
  /\ phase[n] = "down"
  /\ runs[n] < MaxRuns
  /\ phase' = [phase EXCEPT ![n] = "connecting"]
  /\ runs' = [runs EXCEPT ![n] = @ + 1]
  /\ tried' = [tried EXCEPT ![n] = 0]
  /\ UNCHANGED <<ident, outbound, dialed, linked, route, world, history>>

(* The process ends: every connection with it is lost, and so is what       *)
(* waited on its sockets.                                                   *)
Exit(n) ==
  /\ Up(n)
  /\ phase' = [phase EXCEPT ![n] = "down"]
  /\ ident' = [ident EXCEPT ![n] = "closed"]
  /\ outbound' = [outbound EXCEPT ![n] = {}]
  /\ dialed' = [dialed EXCEPT ![n] = {}]
  /\ linked' = {l \in linked : n \notin {l[1], l[2]}}
  /\ route' = [l \in Node \X Node |-> IF n \in {l[1], l[2]} THEN "none" ELSE route[l]]
  /\ world' = [l \in Node \X Node |-> IF n = l[1] THEN 0 ELSE world[l]]
  /\ late' = late \ {n}
  /\ overtaken' = overtaken \ {n}
  /\ UNCHANGED <<runs, tried>>

-----------------------------------------------------------------------------
(* connect(): open ident_sock and send the request into it.                 *)
SendRequest(n) ==
  /\ phase[n] = "connecting"
  /\ tried[n] < Len(Targets[n])
  /\ ident[n] = "closed"
  /\ ident' = [ident EXCEPT ![n] = "sent"]
  /\ late' = late \ {n}
  /\ overtaken' = overtaken \ {n}
  /\ UNCHANGED <<phase, runs, tried, outbound, dialed, linked, route, world>>

(* Faulty variant: no ZMQ_ROUTER_HANDOVER, the oldest connection stays.     *)
OldestOwns(r, l, connection) == IF r[l] = "none" THEN [r EXCEPT ![l] = connection] ELSE r

(* create_sock: with ZMQ_ROUTER_HANDOVER a new connection takes over its    *)
(* identity from the one that has it.                                       *)
TakesOver(r, l, connection) == [r EXCEPT ![l] = connection]

(* ZeroMQ: once the target has bound its port ident_sock connects, takes    *)
(* over the identity of n there, and the request reaches the target's       *)
(* world_sock.                                                              *)
DeliverRequest(n) ==
  /\ ident[n] = "sent"
  /\ Up(Target(n))
  /\ ident' = [ident EXCEPT ![n] = "delivered"]
  /\ route' = TakesOver(route, <<Target(n), n>>, "req")
  /\ world' = [world EXCEPT ![<<Target(n), n>>] = @ + 1]
  /\ UNCHANGED <<phase, runs, tried, outbound, dialed, linked, history>>

(* What is left of the connection of n's ident_sock when n closes it.       *)
RouteClosed(n) ==
  IF route[<<Target(n), n>>] = "req" THEN [route EXCEPT ![<<Target(n), n>>] = "none"] ELSE route

(* The target is in its loop, and the request has not been lost with an     *)
(* earlier run of the target: ZeroMQ does not send it again.                *)
Answering(n) ==
  phase[Target(n)] = "serving" /\ (ident[n] = "sent" \/ world[<<Target(n), n>>] > 0)

(* Faulty variant: a poll without a timeout.                                *)
TimeoutNever(n) == FALSE

(* connect(): the poll on ident_sock ran into its timeout.  The target is   *)
(* given up for good; a request that was delivered stays with the target.   *)
Timeout(n) ==
  /\ ident[n] \in {"sent", "delivered"}
  /\ ident' = [ident EXCEPT ![n] = "closed"]
  /\ tried' = [tried EXCEPT ![n] = @ + 1]
  /\ route' = RouteClosed(n)
  /\ late' = late \cup {m \in {n} : Answering(m)}
  /\ UNCHANGED <<phase, runs, outbound, dialed, linked, world, overtaken>>

(* connect(): the identity has come; ident_sock is closed, the identity is  *)
(* outbound and world_sock starts to connect.                               *)
Connected(n) ==
  /\ ident[n] = "answered"
  /\ ident' = [ident EXCEPT ![n] = "closed"]
  /\ tried' = [tried EXCEPT ![n] = @ + 1]
  /\ outbound' = [outbound EXCEPT ![n] = @ \cup {Target(n)}]
  /\ dialed' = [dialed EXCEPT ![n] = @ \cup {Target(n)}]
  /\ route' = RouteClosed(n)
  /\ UNCHANGED <<phase, runs, linked, world, history>>

(* The call of connect in which n waits for m's answer, if there is one.    *)
WaitsFor(n, m) == {k \in {n} : ident[n] = "delivered" /\ Target(n) = m}

(* ZeroMQ: the connection from n's world_sock to m comes up, at once or     *)
(* after m is back, and owns the identities of both ends from now on.       *)
LinkUp(n, m) ==
  /\ m \in dialed[n] /\ Up(n) /\ Up(m)
  /\ <<n, m>> \notin linked
  /\ linked' = linked \cup {<<n, m>>}
  /\ route' = TakesOver(TakesOver(route, <<n, m>>, "link"), <<m, n>>, "link")
  /\ overtaken' = overtaken \cup WaitsFor(n, m) \cup WaitsFor(m, n)
  /\ UNCHANGED <<phase, runs, tried, ident, outbound, dialed, world, late>>

-----------------------------------------------------------------------------
(* Faulty variant: the loop begins before the targets have been tried.      *)
EnterLoopEarly(n) ==
  /\ phase[n] = "connecting"
  /\ phase' = [phase EXCEPT ![n] = "serving"]
  /\ UNCHANGED <<runs, tried, ident, outbound, dialed, linked, route, world, history>>

(* main: every target has been tried, the processBroker loop begins.        *)
EnterLoop(n) ==
  /\ phase[n] = "connecting"
  /\ tried[n] = Len(Targets[n])
  /\ phase' = [phase EXCEPT ![n] = "serving"]
  /\ UNCHANGED <<runs, tried, ident, outbound, dialed, linked, route, world, history>>

(* What the answer of n to m does to ident_sock: if that connection owns    *)
(* the identity of m, connect() has its answer.                             *)
Answered(n, m) == IF route[<<n, m>>] = "req" THEN [ident EXCEPT ![m] = "answered"] ELSE ident

(* processBroker: a message whose first frame is empty is taken for an      *)
(* identity request, and our identity is sent back to where it came from.   *)
(* On the way to a world_sock that answer has an empty first frame as well. *)
AnswerIdent(n, m) ==
  /\ phase[n] = "serving"
  /\ world[<<n, m>>] > 0
  /\ ident' = Answered(n, m)
  /\ LET taken == [world EXCEPT ![<<n, m>>] = @ - 1] IN
     world' = IF route[<<n, m>>] = "link" THEN [taken EXCEPT ![<<m, n>>] = @ + 1] ELSE taken
  /\ UNCHANGED <<phase, runs, tried, outbound, dialed, linked, route, history>>

-----------------------------------------------------------------------------
Connect(n) == SendRequest(n) \/ DeliverRequest(n) \/ Timeout(n) \/ Connected(n) \/ EnterLoop(n)

Next ==
  \/ \E n \in Node : Start(n) \/ Exit(n) \/ Connect(n)
  \/ \E n, m \in Node : LinkUp(n, m) \/ AnswerIdent(n, m)

(* Every thread of the program runs on, and the network delivers; nothing   *)
(* makes a user start or stop an instance.                                  *)
Fairness ==
  /\ \A n \in Node : WF_vars(Connect(n)) /\ WF_vars(Timeout(n) \/ Connected(n))
  /\ \A n, m \in Node : WF_vars(LinkUp(n, m)) /\ WF_vars(AnswerIdent(n, m))

Spec == Init /\ [][Next]_vars
FairSpec == Spec /\ Fairness

-----------------------------------------------------------------------------
(* Types of the variables.                                                  *)
TypeOK ==
  /\ phase \in [Node -> {"down", "connecting", "serving"}]
  /\ runs \in [Node -> 0..MaxRuns]
  /\ tried \in [Node -> Nat]
  /\ ident \in [Node -> {"closed", "sent", "delivered", "answered"}]
  /\ outbound \in [Node -> SUBSET Node]
  /\ dialed \in [Node -> SUBSET Node]
  /\ linked \subseteq Node \X Node
  /\ route \in [Node \X Node -> {"none", "req", "link"}]
  /\ world \in [Node \X Node -> Nat]
  /\ late \subseteq Node
  /\ overtaken \subseteq Node

(* The outbound peers of n, as far as neither end has been restarted.       *)
FirstLinks(n) == IF runs[n] = 1 THEN {m \in outbound[n] : runs[m] = 1} ELSE {}

(* Connecting blocks answering, so the instances that were started once can *)
(* never be connected in a circle: in every set of them there is one that   *)
(* sends to none of the set.  In particular two instances that target each  *)
(* other (README: "targeted at eachother") are never both connected.        *)
AcyclicLinks ==
  \A S \in SUBSET Node : S # {} => \E n \in S : FirstLinks(n) \cap S = {}

(* An instance whose identity is outbound somewhere, or about to be, has    *)
(* got through its own calls of connect before (audio.cpp:728, 793).        *)
HasServed(n) == runs[n] > 1 \/ (runs[n] = 1 /\ phase[n] # "connecting")
LinkedHaveServed ==
  \A n \in Node :
    /\ \A m \in outbound[n] : HasServed(m)
    /\ ident[n] = "answered" => HasServed(Target(n))

(* A request is under way only within a call of connect, and an instance    *)
(* that is down sends nowhere.                                              *)
CallsInOrder ==
  \A n \in Node :
    /\ ident[n] # "closed" => phase[n] = "connecting" /\ tried[n] < Len(Targets[n])
    /\ Up(n) => runs[n] > 0
    /\ ~Up(n) => outbound[n] = {}

(* Only the target that is being asked can route to ident_sock.             *)
RequestRoutes ==
  \A n, m \in Node :
    route[<<n, m>>] = "req" => ident[m] \in {"delivered", "answered"} /\ Target(m) = n

(* The inductive invariant behind AcyclicLinks.                             *)
MeshInv == TypeOK /\ LinkedHaveServed /\ CallsInOrder /\ RequestRoutes /\ AcyclicLinks

(* Instances that wait for each other do not wait forever: the timeout of   *)
(* connect() lets every instance get to its loop.                           *)
EventuallyServes ==
  \A n \in Node : phase[n] = "connecting" ~> phase[n] # "connecting"

(* A call of connect for a target that is in its loop succeeds unless the   *)
(* answer takes longer than the timeout, requests of earlier calls and of   *)
(* earlier runs notwithstanding.  The exception: while the call waits, the  *)
(* two instances' world_socks get connected, and that newer connection      *)
(* takes the identity, and so the answer (audio.cpp:732, 959-963).          *)
Asks(n, m) == phase[n] = "connecting" /\ ident[n] # "closed" /\ Target(n) = m
Excused(n, m) == n \in late \cup overtaken \/ ~Up(n) \/ ~Up(m)
ServingTargetAnswers ==
  \A n, m \in Node : (Asks(n, m) /\ Answering(n)) ~> (m \in outbound[n] \/ Excused(n, m))

=============================================================================
