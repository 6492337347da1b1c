------------------------------ MODULE Options ------------------------------
(***************************************************************************)
(* What parseOptions and parseDevice make of the command line.  A request  *)
(* for a device is the text of a --device option after it has been taken   *)
(* apart at its colons: a word for the direction, a card, and a number of  *)
(* channels, which can be there only if the word is.                       *)
(***************************************************************************)
EXTENDS Integers, Sequences, SequencesExt

CONSTANTS
  Card,        \* the devices that PortAudio lists
  NoCard,      \* what a name or number that is not on the list stands for
  MaxIn,       \* how many channels each of them records
  MaxOut,      \* how many channels each of them plays
  DefaultIn,   \* the default devices
  DefaultOut,
  DefaultPort, \* 5040
  UShort,      \* how many values an unsigned short has
  MaxCount     \* bound: the channels that anybody asks for

ASSUME OptionsAssumption ==
  /\ NoCard \notin Card
  /\ MaxIn \in [Card -> Nat] /\ MaxOut \in [Card -> Nat]
  /\ DefaultIn \in Card \cup {NoCard} /\ DefaultOut \in Card \cup {NoCard}
  /\ DefaultIn # NoCard => MaxIn[DefaultIn] > 0
  /\ DefaultOut # NoCard => MaxOut[DefaultOut] > 0
  /\ UShort \in Nat /\ UShort > 2 /\ DefaultPort \in 0..(UShort - 1)
  /\ MaxCount \in Nat

Absent == "absent"

(* An empty word matches the beginning of "input", the first to be tried.   *)
Word == {Absent, "empty", "input", "output", "other"}
Count == 0..MaxCount
NoCount == -1    \* no number of channels is given
BadCount == -2   \* what is given is not a number
Request ==
  {r \in [word : Word, card : Card \cup {NoCard}, channels : Count \cup {NoCount, BadCount}] :
     r.word = Absent => r.channels = NoCount}

Device == [card : Card, direction : {"INPUT", "OUTPUT"}, channels : 0..(UShort - 1)]

ChannelsOf(card, direction) == IF direction = "INPUT" THEN MaxIn[card] ELSE MaxOut[card]
AtMostTwo(n) == IF n < 2 THEN n ELSE 2

(* Without a word the card has to leave no choice.                          *)
OnlyDirection(card) ==
  {dir \in {"INPUT", "OUTPUT"} :
     ChannelsOf(card, dir) # 0 /\ \A other \in {"INPUT", "OUTPUT"} \ {dir} : ChannelsOf(card, other) = 0}

(* The direction that a request gets: none if it is rejected.               *)
DirectionFor(r) ==
  CASE r.word = Absent -> OnlyDirection(r.card)
    [] r.word \in {"empty", "input"} -> {"INPUT"}
    [] r.word = "output" -> {"OUTPUT"}
    [] r.word = "other" -> {}

(* Faulty variant: a card without that direction is opened without channels.*)
CountOrNone(r, max) ==
  CASE r.channels = BadCount -> {}
    [] r.channels = NoCount -> {AtMostTwo(max)}
    [] r.channels \in Count -> {n \in {r.channels % UShort} : n <= max}

(* Faulty variant: the number is compared before it is made a short.        *)
CountUnchecked(r, max) == {r.channels % UShort}

(* The number of channels, out of at most max, that a request gets.         *)
CountFor(r, max) ==
  CASE r.channels = BadCount -> {}
    [] r.channels = NoCount -> {AtMostTwo(max)} \ {0}
    [] r.channels \in Count -> {n \in {r.channels % UShort} : n <= max}

(* parseDevice: a set of one device, or of none if the request is rejected. *)
parseDevice(r) ==
  {v \in Device :
     /\ v.card = r.card
     /\ v.direction \in DirectionFor(r)
     /\ v.channels \in CountFor(r, ChannelsOf(r.card, v.direction))}

(* The devices that are asked for with no channels, or with a number that   *)
(* is none as an unsigned short.                                            *)
AskedForNone(requests) ==
  {v \in Card \X {"INPUT", "OUTPUT"} : \E n \in DOMAIN requests :
     LET r == requests[n] IN
     /\ r.card = v[1] /\ v[2] \in DirectionFor(r)
     /\ r.channels \in Count /\ r.channels % UShort = 0}

Accepted(requests) == FlattenSeq([i \in DOMAIN requests |-> SetToSeq(parseDevice(requests[i]))])

DefaultDevice(card, direction) ==
  [card |-> card, direction |-> direction, channels |-> AtMostTwo(ChannelsOf(card, direction))]
Defaults == <<DefaultDevice(DefaultOut, "OUTPUT"), DefaultDevice(DefaultIn, "INPUT")>>

(* A card that is not on the list is looked up all the same.                *)
ParsingCrashes(requests) == \E i \in DOMAIN requests : requests[i].card = NoCard
DefaultsCrash(requests) == Accepted(requests) = <<>> /\ NoCard \in {DefaultIn, DefaultOut}

(* The devices that parseOptions puts into opts: those that were accepted,  *)
(* and the default ones if none was.                                        *)
DevicesFor(requests) == IF Accepted(requests) = <<>> THEN Defaults ELSE Accepted(requests)

=============================================================================
