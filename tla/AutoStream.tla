----------------------------- MODULE AutoStream -----------------------------
(***************************************************************************)
(* What the AICQ bridge does when it is started while z.ai is at work      *)
(* (scripts/aicq_bridge.py, run_bridge, step 3b): it goes on with the      *)
(* answer that is being written, until its text stays the same, or is not  *)
(* to be read any more, or the cycles run out.  Its listeners and its main *)
(* loop come afterwards (from 1900 on): until then it takes no messages.   *)
(*                                                                         *)
(* As in AnswerStream a text is a sequence of pieces.  It is read through  *)
(* the DOM without a baseline: the last of the messages that were got,     *)
(* which may be the one before.  No call that raises is noticed.           *)
(***************************************************************************)
EXTENDS Integers, Sequences, SequencesExt

CONSTANTS ShortLen,      \* texts of up to so many pieces are not streamed (20 characters)
          StableCycles,  \* 4 in the code: cycles without change that end the stream
          MissedCycles,  \* 3 in the code: cycles without a text that end it
          MaxCycles,     \* 720 in the code
          LongestText,   \* bound
          MaxRaises      \* bound: calls of the AICQ core that raise

ASSUME AutoAssumption ==
  /\ ShortLen \in Nat /\ StableCycles \in Nat \ {0} /\ MissedCycles \in Nat \ {0}
  /\ MaxCycles \in Nat \ {0} /\ LongestText \in Nat \ {0} /\ MaxRaises \in Nat

VARIABLES
  answer,    \* z.ai: the message it writes: how often rewritten, and how long
  auto,      \* where the bridge is
  cycle,     \* refresh_cycle
  sent,      \* last_sent_text
  same,      \* stable_count
  missed,    \* no_content_count
  screen,    \* AICQ: the text on the friend's screen
  endings,   \* AICQ: how often the stream was ended
  raises     \* history: calls of the AICQ core that raised

autoVars == <<answer, auto, cycle, sent, same, missed, screen, endings, raises>>

AutoInit ==
  /\ answer \in [rev : {1}, len : 0..LongestText]
  /\ auto \in {"look", "idle"} /\ cycle = 0    \* is z.ai at work?
  /\ sent = <<>> /\ same = 0 /\ missed = 0
  /\ screen = <<>> /\ endings = 0
  /\ raises = 0

\* z.ai writes on, or anew.
WritesOn ==
  /\ auto = "look"
  /\ \/ answer.len < LongestText /\ answer' = [answer EXCEPT !.len = @ + 1]
     \/ answer.rev = 1 /\ answer' = [rev |-> 2, len |-> 1]
  /\ UNCHANGED <<auto, cycle, sent, same, missed, screen, endings, raises>>

Text(message) == [i \in 1..message.len |-> <<message.rev, i>>]
Before == Text([rev |-> 0, len |-> LongestText])

\* Nothing is read when the agent does not answer, or of an error message.
Results == {Text(answer), Before, <<>>}

RaisesNow == raises < MaxRaises /\ raises' = raises + 1

-----------------------------------------------------------------------------
\* Mutant of Streams: a text that was rewritten is sent without clear_text.
StreamsOnly(text) ==
  \/ /\ screen' = IF sent = <<>> \/ IsPrefix(sent, text)
                  THEN screen \o SubSeq(text, Len(sent) + 1, Len(text)) ELSE screen \o text
     /\ UNCHANGED raises
  \/ RaisesNow /\ UNCHANGED screen

\* aicq.me appends: what the text adds, or clear_text and all of it.
Streams(text) ==
  \/ /\ screen' = IF sent = <<>> \/ IsPrefix(sent, text)
                  THEN screen \o SubSeq(text, Len(sent) + 1, Len(text)) ELSE text
     /\ UNCHANGED raises
  \/ /\ RaisesNow
     /\ \/ UNCHANGED screen
        \/ ~IsPrefix(sent, text) /\ screen' = <<>>

Ends == \/ endings' = endings + 1 /\ UNCHANGED raises
        \/ RaisesNow /\ UNCHANGED endings

NextCycle == cycle' = cycle + 1 /\ auto' = IF cycle' < MaxCycles THEN "look" ELSE "after"

\* The break out of the loop: the stream is ended.
Breaks == auto' = "after" /\ UNCHANGED cycle /\ Ends

\* Something new.
LookNew ==
  /\ auto = "look"
  /\ \E text \in Results :
       /\ Len(text) > ShortLen /\ text # sent
       /\ Streams(text)
       /\ sent' = text
  /\ same' = 0 /\ missed' = 0
  /\ NextCycle
  /\ UNCHANGED <<answer, endings>>

\* The same as in the last cycle that read something.
LookSame ==
  /\ auto = "look"
  /\ sent \in Results /\ sent # <<>>
  /\ same' = same + 1
  /\ \/ same' < StableCycles /\ NextCycle /\ missed' = 0 /\ UNCHANGED <<endings, raises>>
     \/ same' >= StableCycles /\ Breaks /\ UNCHANGED missed
  /\ UNCHANGED <<answer, sent, screen>>

\* Too short to be streamed.
LookShort ==
  /\ auto = "look"
  /\ \E text \in Results : Len(text) \in 1..ShortLen
  /\ missed' = 0
  /\ NextCycle
  /\ UNCHANGED <<answer, sent, same, screen, endings, raises>>

\* Nothing: it counts once something was sent.
LookMisses ==
  /\ auto = "look"
  /\ missed' = IF sent = <<>> THEN 0 ELSE missed + 1
  /\ \/ missed' < MissedCycles /\ NextCycle /\ UNCHANGED <<endings, raises>>
     \/ missed' >= MissedCycles /\ Breaks
  /\ UNCHANGED <<answer, sent, same, screen>>

\* Mutant of After: the stream is not ended a second time, nor when the cycles ran out.
AfterQuietly ==
  /\ auto = "after"
  /\ auto' = "done"
  /\ UNCHANGED <<answer, cycle, sent, same, missed, screen, endings, raises>>

\* Behind the loop the stream is ended, whether the loop has done so or not.
After ==
  /\ auto = "after"
  /\ auto' = "done"
  /\ Ends
  /\ UNCHANGED <<answer, cycle, sent, same, missed, screen>>

AutoStep == LookNew \/ LookSame \/ LookShort \/ LookMisses \/ After

AutoNext == AutoStep \/ WritesOn

AutoSpec == AutoInit /\ [][AutoNext]_autoVars

\* Reads have a timeout.  z.ai may do nothing.
AutoFairness == WF_autoVars(AutoStep)

-----------------------------------------------------------------------------
(* Properties. *)

\* While no call of the core raised, the friend's screen shows what the bridge takes
\* it to show, so that the next difference is the right one: across rewritten answers,
\* reads of the message before, and cycles that read nothing or too little.
AutoScreen == raises = 0 => screen = sent

\* "This prevents the auto-stream from blocking the message queue forever"
\* (aicq_bridge.py:1835-1836): whatever z.ai does, the bridge gets to the messages, and
\* the friend's stream was ended by then, unless a call of the core raised.
QueueIsReached == auto = "look" ~> auto = "done" /\ (endings > 0 \/ raises > 0)
=============================================================================
