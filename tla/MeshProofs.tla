----------------------------- MODULE MeshProofs -----------------------------
(***************************************************************************)
(* Proofs about Mesh: for any instances, targets and number of restarts,   *)
(* instances that have been started once are never connected in a circle.  *)
(***************************************************************************)
EXTENDS Mesh, TLAPS

(* What a call of connect asks is an instance.                              *)
LEMMA TargetNode ==
  ASSUME NEW n \in Node, tried \in [Node -> Nat], tried[n] < Len(Targets[n])
  PROVE  Target(n) \in Node
<1>1. Targets[n] \in Seq(Node) /\ tried[n] + 1 \in 1..Len(Targets[n])
  BY MeshAssumption
<1> QED BY <1>1 DEF Target

(* The variables have their types at first.                                 *)
LEMMA TypeInit == Init => TypeOK
BY MeshAssumption DEF Init, TypeOK

(* A step keeps the types.                                                  *)
LEMMA TypeStep == TypeOK /\ CallsInOrder /\ [Next]_vars => TypeOK'
<1> SUFFICES ASSUME TypeOK, CallsInOrder, [Next]_vars PROVE TypeOK'
  OBVIOUS
<1> USE MeshAssumption
<1>1. CASE UNCHANGED vars
  BY <1>1 DEF vars, history, TypeOK
<1>2. ASSUME NEW n \in Node, Start(n) PROVE TypeOK'
  BY <1>2 DEF Start, TypeOK, history
<1>3. ASSUME NEW n \in Node, Exit(n) PROVE TypeOK'
  BY <1>3 DEF Exit, Up, TypeOK
<1>4. ASSUME NEW n \in Node, SendRequest(n) PROVE TypeOK'
  BY <1>4 DEF SendRequest, TypeOK
<1>5. ASSUME NEW n \in Node, DeliverRequest(n) PROVE TypeOK'
  <2>1. Target(n) \in Node
    BY <1>5, TargetNode DEF DeliverRequest, CallsInOrder, TypeOK
  <2> QED BY <1>5, <2>1 DEF DeliverRequest, TakesOver, TypeOK, history
<1>6. ASSUME NEW n \in Node, Timeout(n) \/ Connected(n) PROVE TypeOK'
  <2>1. Target(n) \in Node
    BY <1>6, TargetNode DEF Timeout, Connected, CallsInOrder, TypeOK
  <2>2. RouteClosed(n) \in [Node \X Node -> {"none", "req", "link"}]
    BY <2>1 DEF RouteClosed, TypeOK
  <2>3. CASE Timeout(n)
    BY <2>2, <2>3 DEF Timeout, TypeOK
  <2>4. CASE Connected(n)
    BY <2>1, <2>2, <2>4 DEF Connected, TypeOK, history
  <2> QED BY <1>6, <2>3, <2>4
<1>7. ASSUME NEW n \in Node, EnterLoop(n) PROVE TypeOK'
  BY <1>7 DEF EnterLoop, TypeOK, history
<1>8. ASSUME NEW n \in Node, NEW m \in Node, LinkUp(n, m) PROVE TypeOK'
  <2>1. <<n, m>> \in Node \X Node /\ <<m, n>> \in Node \X Node
    OBVIOUS
  <2>2. route' \in [Node \X Node -> {"none", "req", "link"}]
    <3> DEFINE R == [route EXCEPT ![<<n, m>>] = "link"]
    <3>1. R \in [Node \X Node -> {"none", "req", "link"}]
      BY <2>1 DEF TypeOK
    <3>2. route' = [R EXCEPT ![<<m, n>>] = "link"]
      BY <1>8 DEF LinkUp, TakesOver
    <3> HIDE DEF R
    <3> QED BY <2>1, <3>1, <3>2
  <2>3. linked' \subseteq Node \X Node
    BY <1>8, <2>1 DEF LinkUp, TypeOK
  <2> QED BY <1>8, <2>2, <2>3 DEF LinkUp, WaitsFor, TypeOK
<1>9. ASSUME NEW n \in Node, NEW m \in Node, AnswerIdent(n, m) PROVE TypeOK'
  <2>1. ident' \in [Node -> {"closed", "sent", "delivered", "answered"}]
    BY <1>9 DEF AnswerIdent, Answered, TypeOK
  <2>2. world' \in [Node \X Node -> Nat]
    <3> DEFINE taken == [world EXCEPT ![<<n, m>>] = @ - 1]
    <3>1. <<n, m>> \in Node \X Node /\ <<m, n>> \in Node \X Node
      OBVIOUS
    <3>2. world[<<n, m>>] \in Nat /\ world[<<n, m>>] > 0
      BY <1>9, <3>1 DEF AnswerIdent, TypeOK, history
    <3>3. taken \in [Node \X Node -> Nat]
      BY <3>1, <3>2 DEF TypeOK
    <3>4. world' = taken \/ world' = [taken EXCEPT ![<<m, n>>] = taken[<<m, n>>] + 1]
      BY <1>9 DEF AnswerIdent
    <3> HIDE DEF taken
    <3>5. [taken EXCEPT ![<<m, n>>] = taken[<<m, n>>] + 1] \in [Node \X Node -> Nat]
      BY <3>1, <3>3
    <3> QED BY <3>3, <3>4, <3>5
  <2> QED BY <1>9, <2>1, <2>2 DEF AnswerIdent, TypeOK, history
<1> QED BY <1>1, <1>2, <1>3, <1>4, <1>5, <1>6, <1>7, <1>8, <1>9 DEF Next, Connect

(* Nobody stops having served.                                              *)
LEMMA HasServedStep ==
  ASSUME TypeOK, CallsInOrder, [Next]_vars, NEW k \in Node, HasServed(k)
  PROVE  HasServed(k)'
<1>0. phase \in [Node -> {"down", "connecting", "serving"}] /\ runs \in [Node -> 0..MaxRuns]
  BY DEF TypeOK
<1>1. ASSUME NEW n \in Node, Start(n) PROVE HasServed(k)'
  BY <1>0, <1>1, MeshAssumption DEF Start, HasServed
<1>2. ASSUME NEW n \in Node, Exit(n) \/ EnterLoop(n) PROVE HasServed(k)'
  BY <1>0, <1>2 DEF Exit, EnterLoop, HasServed
<1>3. CASE UNCHANGED <<phase, runs>>
  BY <1>3 DEF HasServed
<1> QED BY <1>1, <1>2, <1>3 DEF Next, Connect, SendRequest, DeliverRequest, Timeout, Connected, LinkUp,
  AnswerIdent, vars

(* CallsInOrder, RequestRoutes and LinkedHaveServed for a single instance   *)
(* or pair of them.                                                         *)
CallsOf(k) ==
  /\ ident[k] # "closed" => phase[k] = "connecting" /\ tried[k] < Len(Targets[k])
  /\ phase[k] # "down" => runs[k] > 0
  /\ phase[k] = "down" => outbound[k] = {}

(* A step keeps requests to the calls of connect, and what is down sends    *)
(* nowhere.                                                                 *)
LEMMA CallsStep == TypeOK /\ CallsInOrder /\ RequestRoutes /\ [Next]_vars => CallsInOrder'
<1> SUFFICES ASSUME TypeOK, CallsInOrder, RequestRoutes, [Next]_vars, NEW k \in Node
             PROVE  CallsOf(k)'
  BY DEF CallsInOrder, CallsOf, Up
<1>1. CallsOf(k)
  BY DEF CallsInOrder, CallsOf, Up
<1>2. /\ phase \in [Node -> {"down", "connecting", "serving"}] /\ runs \in [Node -> 0..MaxRuns]
      /\ ident \in [Node -> {"closed", "sent", "delivered", "answered"}]
      /\ outbound \in [Node -> SUBSET Node] /\ tried \in [Node -> Nat]
  BY DEF TypeOK
<1>3. ASSUME NEW n \in Node, Start(n) PROVE CallsOf(k)'
  BY <1>1, <1>2, <1>3, MeshAssumption DEF Start, CallsOf
<1>4. ASSUME NEW n \in Node, Exit(n) PROVE CallsOf(k)'
  BY <1>1, <1>2, <1>4 DEF Exit, Up, CallsOf
<1>5. ASSUME NEW n \in Node, Connect(n) PROVE CallsOf(k)'
  <2>1. CASE SendRequest(n)
    BY <1>1, <1>2, <2>1 DEF SendRequest, CallsOf
  <2>2. CASE DeliverRequest(n)
    BY <1>1, <1>2, <2>2 DEF DeliverRequest, CallsOf
  <2>3. CASE Timeout(n) \/ Connected(n)
    <3>1. /\ ident' = [ident EXCEPT ![n] = "closed"] /\ tried' = [tried EXCEPT ![n] = @ + 1]
          /\ UNCHANGED <<phase, runs>>
          /\ phase[n] = "connecting" /\ \A j \in Node \ {n} : outbound'[j] = outbound[j]
      BY <1>2, <2>3 DEF Timeout, Connected, CallsInOrder
    <3> QED BY <1>1, <1>2, <3>1 DEF CallsOf
  <2>4. CASE EnterLoop(n)
    BY <1>1, <1>2, <2>4 DEF EnterLoop, CallsOf
  <2> QED BY <1>5, <2>1, <2>2, <2>3, <2>4 DEF Connect
<1>6. ASSUME NEW n \in Node, NEW m \in Node, AnswerIdent(n, m) PROVE CallsOf(k)'
  <2>1. route[<<n, m>>] = "req" => ident[m] # "closed"
    BY DEF RequestRoutes
  <2> QED BY <1>1, <1>2, <1>6, <2>1 DEF AnswerIdent, Answered, CallsOf
<1>7. CASE UNCHANGED <<phase, runs, tried, ident, outbound>>
  BY <1>1, <1>7 DEF CallsOf
<1> QED BY <1>3, <1>4, <1>5, <1>6, <1>7 DEF Next, LinkUp, vars

RouteOf(j, k) == route[<<j, k>>] = "req" => ident[k] \in {"delivered", "answered"} /\ Target(k) = j

(* A step keeps it that only the target that is asked can route to          *)
(* ident_sock.                                                              *)
LEMMA RoutesStep == TypeOK /\ CallsInOrder /\ RequestRoutes /\ [Next]_vars => RequestRoutes'
<1> SUFFICES ASSUME TypeOK, CallsInOrder, RequestRoutes, [Next]_vars, NEW j \in Node, NEW k \in Node
             PROVE  RouteOf(j, k)'
  BY DEF RequestRoutes, RouteOf
<1>1. RouteOf(j, k)
  BY DEF RequestRoutes, RouteOf
<1>2. /\ ident \in [Node -> {"closed", "sent", "delivered", "answered"}]
      /\ tried \in [Node -> Nat] /\ route \in [Node \X Node -> {"none", "req", "link"}]
  BY DEF TypeOK
<1>3. <<j, k>> \in Node \X Node
  OBVIOUS
<1>4. ASSUME NEW n \in Node, Start(n) PROVE RouteOf(j, k)'
  <2>1. ident[n] = "closed"
    BY <1>2, <1>4 DEF Start, CallsInOrder
  <2> QED BY <1>1, <1>2, <1>4, <2>1 DEF Start, RouteOf, Target
<1>5. ASSUME NEW n \in Node, Exit(n) PROVE RouteOf(j, k)'
  BY <1>1, <1>2, <1>3, <1>5 DEF Exit, RouteOf, Target
<1>6. ASSUME NEW n \in Node, SendRequest(n) PROVE RouteOf(j, k)'
  BY <1>1, <1>2, <1>6 DEF SendRequest, RouteOf, Target
<1>7. ASSUME NEW n \in Node, DeliverRequest(n) PROVE RouteOf(j, k)'
  BY <1>1, <1>2, <1>3, <1>7 DEF DeliverRequest, TakesOver, RouteOf, Target
<1>8. ASSUME NEW n \in Node, Timeout(n) \/ Connected(n) PROVE RouteOf(j, k)'
  <2>1. /\ ident' = [ident EXCEPT ![n] = "closed"] /\ tried' = [tried EXCEPT ![n] = @ + 1]
        /\ route' = RouteClosed(n)
    BY <1>8 DEF Timeout, Connected
  <2>2. route'[<<j, k>>] = "req" => route[<<j, k>>] = "req" /\ k # n
    BY <1>1, <1>2, <1>3, <2>1 DEF RouteClosed, RouteOf
  <2> QED BY <1>1, <1>2, <2>1, <2>2 DEF RouteOf, Target
<1>9. ASSUME NEW n \in Node, NEW m \in Node, LinkUp(n, m) PROVE RouteOf(j, k)'
  BY <1>1, <1>2, <1>3, <1>9 DEF LinkUp, TakesOver, RouteOf, Target
<1>10. ASSUME NEW n \in Node, NEW m \in Node, AnswerIdent(n, m) PROVE RouteOf(j, k)'
  BY <1>1, <1>2, <1>10 DEF AnswerIdent, Answered, RouteOf, Target
<1>11. CASE UNCHANGED <<tried, ident, route>>
  BY <1>1, <1>11 DEF RouteOf, Target
<1> QED BY <1>4, <1>5, <1>6, <1>7, <1>8, <1>9, <1>10, <1>11 DEF Next, Connect, EnterLoop, vars

LinksOf(k) ==
  /\ \A m \in outbound[k] : HasServed(m)
  /\ ident[k] = "answered" => HasServed(Target(k))

(* A step keeps it that whoever is sent to has served before.               *)
LEMMA LinksStep ==
  TypeOK /\ CallsInOrder /\ RequestRoutes /\ LinkedHaveServed /\ [Next]_vars => LinkedHaveServed'
<1> SUFFICES ASSUME TypeOK, CallsInOrder, RequestRoutes, LinkedHaveServed, [Next]_vars, NEW k \in Node
             PROVE  LinksOf(k)'
  BY DEF LinkedHaveServed, LinksOf
<1>1. LinksOf(k)
  BY DEF LinkedHaveServed, LinksOf
<1>2. /\ ident \in [Node -> {"closed", "sent", "delivered", "answered"}]
      /\ outbound \in [Node -> SUBSET Node] /\ tried \in [Node -> Nat]
      /\ outbound[k] \subseteq Node
  BY DEF TypeOK
<1>3. \A m \in Node : HasServed(m) => HasServed(m)'
  BY HasServedStep
<1>4. ident[k] # "closed" => Target(k) \in Node
  BY <1>2, TargetNode DEF CallsInOrder
<1>5. ASSUME NEW n \in Node, Start(n) PROVE LinksOf(k)'
  <2>1. ident[n] = "closed"
    BY <1>2, <1>5 DEF Start, CallsInOrder
  <2>2. ident[k] = "answered" => Target(k)' = Target(k)
    BY <1>2, <1>5, <2>1 DEF Start, Target
  <2> QED BY <1>1, <1>2, <1>3, <1>4, <1>5, <2>2 DEF Start, LinksOf
<1>6. ASSUME NEW n \in Node, Exit(n) \/ SendRequest(n) \/ DeliverRequest(n) \/ EnterLoop(n)
      PROVE  LinksOf(k)'
  <2>1. Target(k)' = Target(k) /\ outbound'[k] \subseteq outbound[k]
    BY <1>2, <1>6 DEF Exit, SendRequest, DeliverRequest, EnterLoop, Target
  <2>2. ident'[k] = "answered" => ident[k] = "answered"
    BY <1>2, <1>6 DEF Exit, SendRequest, DeliverRequest, EnterLoop
  <2> QED BY <1>1, <1>2, <1>3, <1>4, <2>1, <2>2 DEF LinksOf
<1>7. ASSUME NEW n \in Node, Timeout(n) \/ Connected(n) PROVE LinksOf(k)'
  <2>1. /\ ident' = [ident EXCEPT ![n] = "closed"] /\ tried' = [tried EXCEPT ![n] = @ + 1]
    BY <1>7 DEF Timeout, Connected
  <2>2. ident'[k] = "answered" => ident[k] = "answered" /\ Target(k)' = Target(k)
    BY <1>2, <2>1 DEF Target
  <2>3. \A m \in outbound'[k] : m \in outbound[k] \/ (k = n /\ ident[k] = "answered" /\ m = Target(k))
    BY <1>2, <1>7 DEF Timeout, Connected
  <2>4. \A m \in outbound'[k] : m \in Node /\ HasServed(m)
    BY <1>1, <1>2, <1>4, <2>3 DEF LinksOf
  <2> QED BY <1>1, <1>3, <1>4, <2>2, <2>4 DEF LinksOf
<1>8. ASSUME NEW n \in Node, NEW m \in Node, AnswerIdent(n, m) PROVE LinksOf(k)'
  <2>1. phase[n] = "serving" /\ UNCHANGED <<phase, runs, tried, outbound>>
    BY <1>8 DEF AnswerIdent
  <2>2. HasServed(n)
    <3>1. runs[n] \in 0..MaxRuns
      BY DEF TypeOK
    <3>2. runs[n] > 0
      BY <2>1 DEF CallsInOrder, Up
    <3> QED BY <2>1, <3>1, <3>2, MeshAssumption DEF HasServed
  <2>3. ident'[k] = "answered" => ident[k] = "answered" \/ (k = m /\ Target(k) = n)
    BY <1>2, <1>8 DEF AnswerIdent, Answered, RequestRoutes
  <2>4. Target(k)' = Target(k) /\ outbound'[k] = outbound[k]
    BY <2>1 DEF Target
  <2>5. ident'[k] = "answered" => HasServed(Target(k))
    BY <1>1, <2>2, <2>3 DEF LinksOf
  <2>6. ident'[k] = "answered" => HasServed(Target(k))'
    BY <2>1, <2>4, <2>5 DEF HasServed
  <2>7. \A j \in outbound'[k] : HasServed(j)'
    BY <1>1, <1>2, <1>3, <2>4 DEF LinksOf
  <2> QED BY <2>6, <2>7 DEF LinksOf
<1>9. CASE UNCHANGED <<phase, runs, tried, ident, outbound>>
  BY <1>1, <1>9 DEF LinksOf, HasServed, Target
<1> QED BY <1>5, <1>6, <1>7, <1>8, <1>9 DEF Next, Connect, LinkUp, vars

(* FirstLinks changes nowhere but at n when n alone is started or connects. *)
LEMMA FirstLinksTyped == ASSUME NEW n \in Node PROVE FirstLinks(n) \subseteq outbound[n]
BY DEF FirstLinks

(* In every set of instances one sends to none of the set, as long as the   *)
(* links between instances only go away.                                    *)
LEMMA FewerLinks ==
  ASSUME AcyclicLinks, \A k \in Node : FirstLinks(k)' \subseteq FirstLinks(k)
  PROVE  AcyclicLinks'
BY DEF AcyclicLinks

(* The links of a step of which only n's may grow.  An instance that nobody *)
(* links to can be left out: what is left has one that sends to none of it. *)
LEMMA NobodyLinksTo ==
  ASSUME NEW n \in Node, AcyclicLinks, FirstLinks(n)' \subseteq Node, n \notin FirstLinks(n)',
         \A k \in Node \ {n} : FirstLinks(k)' \subseteq FirstLinks(k) /\ n \notin FirstLinks(k)'
  PROVE  AcyclicLinks'
<1> SUFFICES ASSUME NEW S \in SUBSET Node, S # {}
             PROVE  \E k \in S : FirstLinks(k)' \cap S = {}
  BY DEF AcyclicLinks
<1>1. CASE S \ {n} = {}
  <2>1. S = {n}
    BY <1>1
  <2> QED BY <2>1
<1>2. CASE S \ {n} # {}
  <2>1. PICK k \in S \ {n} : FirstLinks(k) \cap (S \ {n}) = {}
    BY <1>2 DEF AcyclicLinks
  <2>2. FirstLinks(k)' \cap S = {}
    BY <2>1
  <2> QED BY <2>2
<1> QED BY <1>1, <1>2

(* A step links no instances in a circle that were started once.            *)
LEMMA AcyclicStep ==
  TypeOK /\ CallsInOrder /\ LinkedHaveServed /\ AcyclicLinks /\ [Next]_vars => AcyclicLinks'
<1> SUFFICES ASSUME TypeOK, CallsInOrder, LinkedHaveServed, AcyclicLinks, [Next]_vars
             PROVE  AcyclicLinks'
  OBVIOUS
<1>1. /\ phase \in [Node -> {"down", "connecting", "serving"}] /\ runs \in [Node -> 0..MaxRuns]
      /\ outbound \in [Node -> SUBSET Node] /\ tried \in [Node -> Nat]
  BY DEF TypeOK
<1>2. ASSUME NEW n \in Node, Start(n) PROVE AcyclicLinks'
  <2>1. outbound[n] = {} /\ UNCHANGED outbound /\ runs' = [runs EXCEPT ![n] = @ + 1]
    BY <1>2 DEF Start, CallsInOrder, Up
  <2>2. \A k \in Node : n \in outbound[k] => runs[n] > 0
    <3>1. HasServed(n) => runs[n] > 0
      BY <1>1, MeshAssumption DEF HasServed
    <3> QED BY <3>1 DEF LinkedHaveServed
  <2>3. FirstLinks(n)' = {}
    BY <2>1 DEF FirstLinks
  <2>4. ASSUME NEW k \in Node \ {n} PROVE FirstLinks(k)' \subseteq FirstLinks(k)
    <3>1. runs'[k] = runs[k] /\ outbound'[k] = outbound[k] /\ outbound[k] \subseteq Node
      BY <1>1, <2>1
    <3>2. ASSUME NEW m \in outbound[k], runs'[m] = 1 PROVE runs[m] = 1
      <4>1. m \in Node /\ (m = n => runs[n] > 0)
        BY <2>2, <3>1
      <4> QED BY <1>1, <2>1, <3>2, <4>1, MeshAssumption
    <3> QED BY <3>1, <3>2 DEF FirstLinks
  <2> QED BY <2>3, <2>4, FewerLinks
<1>3. ASSUME NEW n \in Node, Connected(n) PROVE AcyclicLinks'
  <2>1. phase[n] = "connecting" /\ ident[n] = "answered" /\ HasServed(Target(n)) /\ Target(n) \in Node
    BY <1>1, <1>3, TargetNode DEF Connected, CallsInOrder, LinkedHaveServed
  <2>2. UNCHANGED runs /\ outbound' = [outbound EXCEPT ![n] = @ \cup {Target(n)}]
    BY <1>3 DEF Connected
  <2>3. ASSUME NEW k \in Node \ {n} PROVE FirstLinks(k)' = FirstLinks(k)
    BY <1>1, <2>2 DEF FirstLinks
  <2>4. CASE runs[n] = 1
    <3>1. ~HasServed(n)
      BY <2>1, <2>4 DEF HasServed
    <3>2. \A k \in Node : n \notin FirstLinks(k)
      BY <3>1 DEF LinkedHaveServed, FirstLinks
    <3>3. n \notin FirstLinks(n)' /\ FirstLinks(n)' \subseteq Node
      <4>1. FirstLinks(n)' \subseteq outbound[n] \cup {Target(n)}
        BY <1>1, <2>2 DEF FirstLinks
      <4>2. n \notin outbound[n] /\ n # Target(n) /\ outbound[n] \subseteq Node
        BY <1>1, <2>1, <3>1 DEF LinkedHaveServed
      <4> QED BY <2>1, <4>1, <4>2
    <3> QED BY <2>3, <3>2, <3>3, NobodyLinksTo
  <2>5. CASE runs[n] # 1
    <3>1. FirstLinks(n)' = {}
      BY <2>2, <2>5 DEF FirstLinks
    <3> QED BY <2>3, <3>1, FewerLinks
  <2> QED BY <2>4, <2>5
<1>4. ASSUME NEW n \in Node, Exit(n) PROVE AcyclicLinks'
  <2>1. \A k \in Node : FirstLinks(k)' \subseteq FirstLinks(k)
    BY <1>1, <1>4 DEF Exit, FirstLinks
  <2> QED BY <2>1, FewerLinks
<1>5. CASE UNCHANGED <<runs, outbound>>
  BY <1>5, FewerLinks DEF FirstLinks
<1> QED BY <1>2, <1>3, <1>4, <1>5 DEF Next, Connect, SendRequest, DeliverRequest, Timeout, EnterLoop,
  LinkUp, AnswerIdent, vars

-----------------------------------------------------------------------------
(* The types, the order of the calls of connect, where answers are routed   *)
(* to and that whoever is sent to has served before, audio.cpp:686-804: all *)
(* of it holds in every reachable state, and with it AcyclicLinks.          *)
THEOREM MeshInvariant == Spec => []MeshInv
<1>1. Init => MeshInv
  <2> SUFFICES ASSUME Init PROVE MeshInv
    OBVIOUS
  <2>1. TypeOK
    BY TypeInit
  <2>2. LinkedHaveServed /\ CallsInOrder
    BY DEF Init, LinkedHaveServed, CallsInOrder, Up
  <2>3. RequestRoutes
    BY DEF Init, RequestRoutes
  <2>4. AcyclicLinks
    BY DEF Init, AcyclicLinks, FirstLinks
  <2> QED BY <2>1, <2>2, <2>3, <2>4 DEF MeshInv
<1>2. MeshInv /\ [Next]_vars => MeshInv'
  BY TypeStep, CallsStep, RoutesStep, LinksStep, AcyclicStep DEF MeshInv
<1> QED BY <1>1, <1>2, PTL DEF Spec

(* Instances started once are never connected in a circle, whatever the     *)
(* targets are: connect() answers nobody while it waits (audio.cpp:728-745). *)
THEOREM NoCircle == Spec => []AcyclicLinks
<1>1. MeshInv => AcyclicLinks
  BY DEF MeshInv
<1> QED BY <1>1, MeshInvariant, PTL
=============================================================================
