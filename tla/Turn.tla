-------------------------------- MODULE Turn --------------------------------
(***************************************************************************)
(* What the bridge's main loop and the friend may expect of the relay of   *)
(* one message: the text is typed, and again after a usage limit; its      *)
(* answer is streamed; and it is over when the stream was ended or the     *)
(* friend was told that the text could not be sent, one of the two and     *)
(* once.  A call of the AICQ core that fails may cost the friend the end,  *)
(* and is the only thing that ends the bridge.                             *)
(***************************************************************************)
EXTENDS Integers, Sequences, SequencesExt

CONSTANT Piece       \* what a text is made of

VARIABLES at,        \* "type", "relay", "over", or "down" with the bridge
          shown,     \* the text on the friend's screen
          ended,     \* how often the stream was ended
          told,      \* the friend was told that the text could not be sent
          fails      \* calls of the AICQ core that failed

turn == <<at, shown, ended, told, fails>>

Init ==
  /\ at = "type"
  /\ shown = <<>> /\ ended = 0 /\ told = FALSE /\ fails = 0

\* The text is typed; or, the second time, it cannot be, and the relay goes on.
Sent ==
  /\ at = "type" /\ at' = "relay"
  /\ UNCHANGED <<shown, ended, told, fails>>

\* The usage limit was got around.
Again ==
  /\ at = "relay" /\ at' = "type"
  /\ UNCHANGED <<shown, ended, told, fails>>

Streams ==
  /\ at = "relay"
  /\ shown' \in Seq(Piece)
  /\ UNCHANGED <<at, ended, told, fails>>

\* With what is left to say.
Ends ==
  /\ at = "relay" /\ at' = "over"
  /\ IsPrefix(shown, shown') /\ shown' \in Seq(Piece)
  /\ ended' = ended + 1
  /\ UNCHANGED <<told, fails>>

\* The first time the text cannot be typed.
Tells ==
  /\ at = "type" /\ shown = <<>>
  /\ at' = "over" /\ told' = TRUE
  /\ UNCHANGED <<shown, ended, fails>>

Fails ==
  /\ fails' = fails + 1
  /\ \/ at = "type" /\ at' = "down" /\ UNCHANGED shown
     \/ at = "relay" /\ at' \in {"relay", "over", "down"} /\ shown' \in Seq(Piece)
  /\ UNCHANGED <<ended, told>>

Next == Sent \/ Again \/ Streams \/ Ends \/ Tells \/ Fails

Spec == Init /\ [][Next]_turn

\* What both rely on.
Reliable ==
  /\ at \in {"type", "relay"} => ended = 0 /\ ~told
  /\ at = "over" => ended = (IF told THEN 0 ELSE 1) \/ (fails > 0 /\ ended = 0 /\ ~told)
  /\ at = "down" => fails > 0 /\ ended = 0 /\ ~told
  /\ told => shown = <<>>
=============================================================================
