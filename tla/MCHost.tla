------------------------------ MODULE MCHost ------------------------------
(***************************************************************************)
(* Two instances on a host with a microphone, a speaker and a sound card   *)
(* that both plays and records.  Host has seven ports.                     *)
(***************************************************************************)
EXTENDS Host

Cards == {"mic", "box", "speaker"}
MCMaxIn == [c \in Cards |-> CASE c = "mic" -> 1 [] c = "box" -> 2 [] OTHER -> 0]
MCMaxOut == [c \in Cards |-> CASE c = "mic" -> 0 [] c = "box" -> 2 [] OTHER -> 2]

MCOccupied == {4, UShort - 1}

Ask(w, c, n) == [word |-> w, card |-> c, channels |-> n]
Line(p, l, d) == [port |-> p, prefix |-> l, devices |-> d]

(* The devices asked for: on distinct cards, of one direction, that are     *)
(* rejected one and all or in part, that crash, and any single one; and one *)
(* with no channels beside one that the card does not have.                 *)
Apart == <<Ask("input", "mic", 1), Ask("output", "speaker", NoCount)>>
TwoOut == <<Ask("output", "box", 2), Ask(Absent, "speaker", NoCount)>>
Refused == <<Ask("other", "box", 1), Ask("output", "box", 4)>>
Partly == <<Ask(Absent, "box", NoCount), Ask("empty", "box", UShort + 1)>>
Unheard == <<Ask("output", "box", UShort), Ask("input", "speaker", NoCount)>>
Lost == <<Ask("input", NoCard, 1)>>

(* The second instance looks for a port at the end of the range.            *)
MCCommandLine == [i \in {"first", "second"} |->
  IF i = "first"
  THEN {Line(DefaultPort, "log", d) : d \in {Apart, Unheard, Lost} \cup {<<r>> : r \in Request}}
  ELSE {Line(DefaultPort, "log", Partly), Line(DefaultPort, NoPrefix, TwoOut),
        Line(UShort - 1, NoPrefix, <<Ask("input", "mic", 1)>>),
        Line(4, NoPrefix, Refused)}]

=============================================================================
