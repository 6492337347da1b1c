--------------------------- MODULE ChannelsProofs ---------------------------
(***************************************************************************)
(* Facts about the queues of Channels that the proofs about the broker and *)
(* about the audio threads share.                                          *)
(***************************************************************************)
EXTENDS Channels, SequenceTheorems, WellFoundedInduction, TLAPS

(* What Append gives, and what is in it.                                    *)
LEMMA AppendFacts ==
  ASSUME NEW S, NEW q \in Seq(S), NEW e \in S
  PROVE  /\ Append(q, e) \in Seq(S) /\ Append(q, e) # <<>>
         /\ Len(Append(q, e)) = Len(q) + 1
         /\ Len(q) \in Nat
         /\ Range(Append(q, e)) = Range(q) \cup {e}
<1>1. Append(q, e) \in Seq(S) /\ Append(q, e) # <<>> /\ Len(Append(q, e)) = Len(q) + 1 /\ Len(q) \in Nat
  BY AppendProperties, LenProperties
<1>2. /\ \A i \in 1..Len(q) : Append(q, e)[i] = q[i]
      /\ Append(q, e)[Len(q) + 1] = e
  BY AppendProperties
<1>3. DOMAIN q = 1..Len(q) /\ DOMAIN Append(q, e) = 1..(Len(q) + 1)
  BY <1>1, LenProperties
<1>4. Range(Append(q, e)) = Range(q) \cup {e}
  BY <1>1, <1>2, <1>3 DEF Range
<1> QED BY <1>1, <1>4

(* A queue never gets longer than its mark, nor empty.                      *)
LEMMA OfferFacts ==
  ASSUME NEW S, NEW q \in Seq(S), NEW e \in S, NEW cap \in Nat, Len(q) <= cap
  PROVE  /\ Offer(q, e, cap) \in Seq(S)
         /\ Len(Offer(q, e, cap)) <= cap
         /\ q # <<>> => Offer(q, e, cap) # <<>>
         /\ Range(Offer(q, e, cap)) \subseteq Range(q) \cup {e}
BY AppendFacts DEF Offer

(* What Head and Tail give, and what is in them.                            *)
LEMMA TailFacts ==
  ASSUME NEW S, NEW q \in Seq(S), q # <<>>
  PROVE  /\ Tail(q) \in Seq(S) /\ Head(q) \in S
         /\ Len(Tail(q)) = Len(q) - 1 /\ Len(q) \in Nat \ {0}
         /\ \A i \in 1..(Len(q) - 1) : Tail(q)[i] = q[i + 1]
         /\ Head(q) = q[1]
         /\ Range(q) = {Head(q)} \cup Range(Tail(q))
<1>1. /\ Tail(q) \in Seq(S) /\ Head(q) \in S
      /\ Len(Tail(q)) = Len(q) - 1 /\ Len(q) \in Nat \ {0}
      /\ \A i \in 1..(Len(q) - 1) : Tail(q)[i] = q[i + 1]
      /\ Head(q) = q[1]
  BY HeadTailProperties, EmptySeq
<1>2. DOMAIN q = 1..Len(q) /\ DOMAIN Tail(q) = 1..(Len(q) - 1)
  BY <1>1, LenProperties
<1>3. Range(q) = {Head(q)} \cup Range(Tail(q))
  <2>1. ASSUME NEW x \in Range(q) PROVE x \in {Head(q)} \cup Range(Tail(q))
    <3>1. PICK i \in 1..Len(q) : x = q[i]
      BY <1>2 DEF Range
    <3>2. CASE i = 1
      BY <3>1, <3>2, <1>1
    <3>3. CASE i # 1
      <4>1. i - 1 \in 1..(Len(q) - 1) /\ (i - 1) + 1 = i
        BY <3>1, <3>3, <1>1
      <4>2. Tail(q)[i - 1] = q[i]
        BY <4>1, <1>1
      <4> QED BY <4>1, <4>2, <3>1, <1>2 DEF Range
    <3> QED BY <3>2, <3>3
  <2>2. ASSUME NEW x \in {Head(q)} \cup Range(Tail(q)) PROVE x \in Range(q)
    <3>1. CASE x = Head(q)
      BY <3>1, <1>1, <1>2 DEF Range
    <3>2. CASE x \in Range(Tail(q))
      <4>1. PICK i \in 1..(Len(q) - 1) : x = Tail(q)[i]
        BY <3>2, <1>2 DEF Range
      <4>2. i + 1 \in 1..Len(q)
        BY <4>1, <1>1
      <4> QED BY <4>1, <4>2, <1>1, <1>2 DEF Range
    <3> QED BY <3>1, <3>2, <2>2
  <2> QED BY <2>1, <2>2
<1> QED BY <1>1, <1>3

(* A set of numbers with a bound has a largest one.                         *)
LEMMA LargestNumber ==
  ASSUME NEW N, N # {}, NEW b \in Nat, N \subseteq 0..b
  PROVE  \E n \in N : \A m \in N : m <= n
<1> DEFINE T == {b - n : n \in N}
<1>1. \A i, j \in Nat : i < j => <<i, j>> \in OpToRel(<, Nat)
  BY DEF OpToRel
<1>2. T \subseteq Nat /\ T # {}
  <2>1. \A n \in N : b - n \in Nat
    OBVIOUS
  <2> QED BY <2>1
<1>3. PICK x \in T : \A y \in T : <<y, x>> \notin OpToRel(<, Nat)
  <2> HIDE DEF T
  <2> QED BY <1>2, NatLessThanWellFounded, WFMin
<1>4. PICK n \in N : x = b - n
  BY <1>3
<1>5. \A m \in N : ~(b - m < b - n)
  <2>1. \A m \in N : b - m \in T /\ b - m \in Nat /\ x \in Nat
    BY <1>2
  <2> QED BY <1>1, <1>3, <1>4, <2>1
<1>6. \A m \in N : m \in Int
  OBVIOUS
<1> QED BY <1>4, <1>5, <1>6

(* New client sockets are empty, those that stay keep their frames.         *)
LEMMA ResubscribedType ==
  ASSUME ChannelsTypeOK, NEW d \in Device, NEW L \in SUBSET Client
  PROVE  /\ DOMAIN Resubscribed(d, L) \subseteq Client
         /\ \A s \in DOMAIN Resubscribed(d, L) :
              /\ Resubscribed(d, L)[s] \in Seq(Frame)
              /\ Len(Resubscribed(d, L)[s]) <= SubCap
BY ChannelsAssumption DEF ChannelsTypeOK, Resubscribed, ListRead

(* A frame reaches the sockets that are there, up to their mark.            *)
LEMMA PublishType ==
  ASSUME ChannelsTypeOK, NEW c \in Client, NEW n \in 1..MaxSeq
  PROVE  /\ DOMAIN Publish(c, n) = Device
         /\ \A d \in Device :
              /\ DOMAIN Publish(c, n)[d] = DOMAIN clientSocks[d]
              /\ \A s \in DOMAIN clientSocks[d] :
                   /\ Publish(c, n)[d][s] \in Seq(Frame) /\ Len(Publish(c, n)[d][s]) <= SubCap
                   /\ clientSocks[d][s] # <<>> => Publish(c, n)[d][s] # <<>>
<1>1. DOMAIN Publish(c, n) = Device /\ \A d \in Device : DOMAIN Publish(c, n)[d] = DOMAIN clientSocks[d]
  BY DEF Publish
<1>2. ASSUME NEW d \in Device, NEW s \in DOMAIN clientSocks[d]
      PROVE  /\ Publish(c, n)[d][s] \in Seq(Frame) /\ Len(Publish(c, n)[d][s]) <= SubCap
             /\ clientSocks[d][s] # <<>> => Publish(c, n)[d][s] # <<>>
  <2>1. clientSocks[d][s] \in Seq(Frame) /\ Len(clientSocks[d][s]) <= SubCap
    BY DEF ChannelsTypeOK
  <2>2. [from |-> c, seq |-> n] \in Frame /\ SubCap \in Nat
    BY ChannelsAssumption DEF Frame
  <2>3. Publish(c, n)[d][s] \in
          {clientSocks[d][s], Offer(clientSocks[d][s], [from |-> c, seq |-> n], SubCap)}
    BY DEF Publish
  <2>4. /\ Offer(clientSocks[d][s], [from |-> c, seq |-> n], SubCap) \in Seq(Frame)
        /\ Len(Offer(clientSocks[d][s], [from |-> c, seq |-> n], SubCap)) <= SubCap
        /\ clientSocks[d][s] # <<>> => Offer(clientSocks[d][s], [from |-> c, seq |-> n], SubCap) # <<>>
    BY <2>1, <2>2, OfferFacts
  <2> QED BY <2>1, <2>3, <2>4
<1> QED BY <1>1, <1>2

(* A command fits where the socket accepts one.                             *)
LEMMA SentType ==
  ASSUME ChannelsTypeOK, NEW cmd \in Command, NEW d \in Device, CmdAccepted(d)
  PROVE  Append(cmdSock[d], cmd) \in Seq(Command) /\ Len(Append(cmdSock[d], cmd)) <= CmdCap
<1>1. cmdSock[d] \in Seq(Command) /\ Len(cmdSock[d]) < CmdCap /\ CmdCap \in Nat
  BY ChannelsAssumption DEF CmdAccepted, ChannelsTypeOK
<1>2. /\ Append(cmdSock[d], cmd) \in Seq(Command) /\ Len(Append(cmdSock[d], cmd)) = Len(cmdSock[d]) + 1
      /\ Len(cmdSock[d]) \in Nat
  BY <1>1, AppendFacts
<1> QED BY <1>1, <1>2
=============================================================================
