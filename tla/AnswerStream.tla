---------------------------- MODULE AnswerStream ----------------------------
(***************************************************************************)
(* How the AICQ bridge (scripts/aicq_bridge.py, run_bridge) relays one     *)
(* message: it types it into the z.ai page, and every 5 s reads the page's *)
(* assistant messages and streams what is new to the AICQ friend, until    *)
(* the text is stable, the friend cancels, an error ends it or the polls   *)
(* run out.                                                                *)
(*                                                                         *)
(* z.ai goes on between any two calls of the bridge.  A text is a sequence *)
(* of pieces, each naming the answer it belongs to; texts shorter than the *)
(* thresholds of the code are empty.  The CDP DOM reader renders markdown, *)
(* the fallback (Runtime.evaluate) HTML.                                   *)
(***************************************************************************)
EXTENDS Integers, Sequences, SequencesExt

CONSTANTS OldAnswers,    \* assistant messages in the chat before this one
          Kinds,         \* the kinds of message z.ai answers with, of those below
          Nested,        \* elements in a message that only the fallback counts
          HashLen,       \* 500 in the code: how much of a text is hashed
          StablePolls,   \* 3 in the code: polls without change that end a stream
          MaxPolls,      \* 720 in the code
          MaxTries,      \* 20 in the code: presses of Enter for one message
          MaxSends,      \* bound: how often z.ai accepts a message
          MaxLen,        \* bound: length of the longest text
          MaxFails       \* bound: calls of the AICQ core that fail

\* limit and quota: usage limits, of which only the first is also one of the
\* error texts; sandbox: no workspace is left; busy: any other error text.
AllKinds == {"answer", "limit", "quota", "sandbox", "busy"}

ASSUME AnswerAssumption ==
  /\ Kinds \subseteq AllKinds
  /\ OldAnswers \in Nat /\ Nested \in Nat /\ HashLen \in Nat
  /\ StablePolls \in Nat \ {0} /\ MaxPolls \in Nat /\ MaxTries \in Nat
  /\ MaxSends \in Nat /\ MaxLen \in Nat \ {0} /\ MaxFails \in Nat

VARIABLES
  page,        \* z.ai: the assistant messages of the chat
  accepted,    \* z.ai: how often it has accepted the message
  owed,        \* z.ai: the last one it accepted has no answer yet
  pc,          \* where the bridge is
  back,        \* which part of the loop sends the message (again)
  tries,       \* send_attempt
  poll,        \* the polls made
  pre_count, pre_last_hash,   \* the baseline
  last_sent,   \* last_sent_text
  stable,      \* stable_count
  buffered,    \* fetch_text_buffer holds a sandbox error
  current,     \* current_text, the result of this poll's read
  cancelled,   \* AICQ: the friend has clicked stop
  shown,       \* AICQ: the text on the friend's screen
  ended,       \* AICQ: how often the stream was ended
  told,        \* AICQ: the friend was told that the message could not be sent
  fails,       \* history: calls of the AICQ core that failed
  resent       \* history: the message was sent again

zai    == <<page, accepted, owed>>
base   == <<pre_count, pre_last_hash>>
local  == <<tries, poll, last_sent, stable, buffered, resent>>
aicq   == <<shown, ended, told, fails>>
vars   == <<page, accepted, owed, pc, back, tries, poll, pre_count, pre_last_hash, last_sent,
            stable, buffered, current, cancelled, shown, ended, told, fails, resent>>

\* One piece of a text.  Answer 0 is everything from before, -1 are the
\* bridge's own notices.
Piece   == [of : -1..MaxSends, kind : AllKinds, as : {"md", "html"}, rev : {0, 1}, at : 1..MaxLen]
Message == [of : 0..MaxSends, kind : AllKinds, rev : {0, 1}, len : 0..MaxLen]
Notice  == <<[of |-> -1, kind |-> "answer", as |-> "md", rev |-> 0, at |-> 1]>>
Old     == [of |-> 0, kind |-> "answer", rev |-> 0, len |-> 1]

Sending == {"first", "fetch", "sandbox", "limit", "quota", "stable"}

TypeOK ==
  /\ page \in Seq(Message)
  /\ accepted \in 0..MaxSends /\ owed \in BOOLEAN
  /\ pc \in {"type", "baseline", "fetch", "cancel", "read", "stream", "refuse", "release",
             "bypass", "final", "done", "down"}
  /\ back \in Sending
  /\ tries \in 0..MaxTries
  /\ poll \in 0..MaxPolls
  /\ pre_count \in Nat /\ pre_last_hash \in Seq(Piece)
  /\ last_sent \in Seq(Piece) /\ current \in Seq(Piece)
  /\ stable \in Nat
  /\ buffered \in BOOLEAN /\ cancelled \in BOOLEAN /\ told \in BOOLEAN /\ resent \in BOOLEAN
  /\ shown \in Seq(Piece)
  /\ ended \in Nat
  /\ fails \in 0..MaxFails

Init ==
  /\ page = [i \in 1..OldAnswers |-> Old]
  /\ accepted = 0 /\ owed = FALSE
  /\ pc = "type" /\ back = "first" /\ tries = 0 /\ poll = 0
  /\ pre_count = 0 /\ pre_last_hash = <<>>
  /\ last_sent = <<>> /\ current = <<>> /\ stable = 0 /\ buffered = FALSE
  /\ cancelled = FALSE
  /\ shown = <<>> /\ ended = 0 /\ told = FALSE
  /\ fails = 0 /\ resent = FALSE

-----------------------------------------------------------------------------
(* z.ai's page, and the friend. *)

\* The answer to what it accepted last: a message more, or in place of the last.
Answer ==
  /\ owed
  /\ owed' = FALSE
  /\ \E k \in Kinds :
       LET m == [of |-> accepted, kind |-> k, rev |-> 0, len |-> IF k = "answer" THEN 0 ELSE 1]
       IN \/ page' = Append(page, m)
          \/ page # <<>> /\ page' = [page EXCEPT ![Len(page)] = m]

\* It grows, or is written anew.
Write ==
  /\ page # <<>> /\ ~owed
  /\ Last(page).of = accepted /\ Last(page).kind = "answer"
  /\ \/ Last(page).len < MaxLen /\ page' = [page EXCEPT ![Len(page)].len = @ + 1]
     \/ /\ Last(page).rev = 0 /\ Last(page).len > 0
        /\ page' = [page EXCEPT ![Len(page)].rev = 1, ![Len(page)].len = 1]
  /\ UNCHANGED owed

\* z.ai and the friend act at any time; it is enough to let them where the
\* bridge is about to look at them, since none of its other steps does.
Zai ==
  /\ pc \in {"type", "baseline", "fetch", "read", "final"}
  /\ accepted > 0
  /\ Answer \/ Write
  /\ UNCHANGED <<accepted, pc, back, base, local, current, cancelled, aicq>>

\* The friend clicks stop.
Cancel ==
  /\ pc = "cancel"
  /\ ~cancelled
  /\ cancelled' = TRUE
  /\ UNCHANGED <<zai, pc, back, base, local, current, aicq>>

-----------------------------------------------------------------------------
(* What a text is, and the calls of the AICQ core: one that raises has no effect. *)

Rendered(m, as) ==
  [i \in 1..m.len |-> [of |-> m.of, kind |-> m.kind, as |-> as, rev |-> m.rev, at |-> i]]

\* The hash is of the first characters only.
Hash(m) == Rendered([m EXCEPT !.len = IF @ < HashLen THEN @ ELSE HashLen], "md")

is_usage_limit_error(text)   == \E i \in DOMAIN text : text[i].kind \in {"limit", "quota"}
is_sandbox_limit_error(text) == \E i \in DOMAIN text : text[i].kind = "sandbox"

Raises == fails < MaxFails /\ fails' = fails + 1

\* Mutant of SayAndEnd: the break behind it is missing.
SayAndGoOn(text, place) ==
  /\ \/ /\ shown' = shown \o text
        /\ ended' = ended + 1
        /\ UNCHANGED fails
     \/ /\ Raises
        /\ shown' \in {shown, shown \o text}
        /\ UNCHANGED ended
  /\ pc' = place
  /\ UNCHANGED told

\* send_stream_chunk(text), then send_stream_end: both work; or one raises, and
\* the bridge goes on at place.
SayAndEnd(text, place) ==
  /\ \/ /\ shown' = shown \o text
        /\ ended' = ended + 1
        /\ pc' = "done"
        /\ UNCHANGED fails
     \/ /\ Raises
        /\ shown' \in {shown, shown \o text}
        /\ pc' = place
        /\ UNCHANGED ended
  /\ UNCHANGED told

\* Mutant of NextPoll: one poll too many.
NextPollToo == poll' = poll + 1 /\ pc' = IF poll' <= MaxPolls THEN "fetch" ELSE "final"

NextPoll == poll' = poll + 1 /\ pc' = IF poll' < MaxPolls THEN "fetch" ELSE "final"

-----------------------------------------------------------------------------
(* zai_type_and_send. *)

SendAgain(from) == pc' = "type" /\ back' = from /\ tries' = 0

\* Mutant of Sent: a message that is sent again has its hour again.
SentAnew ==
  IF back = "first" THEN pc' = "baseline" /\ UNCHANGED <<poll, last_sent, stable, buffered, resent>>
  ELSE /\ last_sent' = <<>> /\ stable' = 0 /\ resent' = TRUE
       /\ buffered' = (buffered /\ back \notin {"fetch", "sandbox"})
       /\ poll' = 0 /\ pc' = "fetch"

\* It returned True: the loop begins, or goes on as for a new stream.
Sent ==
  IF back = "first" THEN pc' = "baseline" /\ UNCHANGED <<poll, last_sent, stable, buffered, resent>>
  ELSE /\ last_sent' = <<>> /\ stable' = 0 /\ resent' = TRUE
       /\ buffered' = (buffered /\ back \notin {"fetch", "sandbox"})
       /\ NextPoll

\* Enter is pressed.  Whether z.ai accepts the message and whether the call
\* tells so are two things: it may time out, find a popup or an empty input.
Press ==
  /\ pc = "type"
  /\ tries < MaxTries
  /\ tries' = tries + 1
  /\ \/ UNCHANGED <<accepted, owed>>
     \/ accepted < MaxSends /\ accepted' = accepted + 1 /\ owed' = TRUE
  /\ Sent \/ UNCHANGED <<pc, poll, last_sent, stable, buffered, resent>>
  /\ UNCHANGED <<page, back, base, current, cancelled, aicq>>

\* It returns False, with no input field or no attempt left: the friend is told
\* of it, or the loop goes on behind the place that sent again.
GiveUp ==
  /\ pc = "type"
  /\ CASE back = "first" -> /\ \/ pc' = "done" /\ told' = TRUE /\ UNCHANGED fails
                               \/ pc' = "down" /\ Raises /\ UNCHANGED told
                            /\ UNCHANGED poll
       [] back = "fetch" -> pc' = "cancel" /\ UNCHANGED <<poll, told, fails>>
       [] back = "quota" -> pc' = "stream" /\ UNCHANGED <<poll, told, fails>>
       [] OTHER          -> NextPoll /\ UNCHANGED <<told, fails>>
  /\ UNCHANGED <<zai, back, base, tries, last_sent, stable, buffered, resent, current,
                 cancelled, shown, ended>>

\* What GetDOMTextAll gets is n messages, message i the last of them: one that
\* the page replaces before its HTML is asked for is left out, and so is one
\* whose request fails (client.go:1479-1491).
Gets(i, n) == n <= i

\* The baseline, from the page that may hold the answer already.  A read that
\* fails counts no messages.
Baseline ==
  /\ pc = "baseline"
  /\ \/ pre_count' = 0 /\ pre_last_hash' = <<>>
     \/ \E i, n \in DOMAIN page : /\ Gets(i, n)
                                  /\ pre_count' = n
                                  /\ pre_last_hash' = Hash(page[i])
  /\ pc' = IF MaxPolls = 0 THEN "final" ELSE "fetch"
  /\ UNCHANGED <<zai, back, local, current, cancelled, aicq>>

-----------------------------------------------------------------------------
(* A poll. *)

\* New text in the captured streams, which may tell the sandbox error that the
\* page shows.
Fetch ==
  /\ pc = "fetch"
  /\ \/ pc' = "cancel" /\ UNCHANGED <<back, buffered>>
     \/ /\ buffered \/ \E i \in DOMAIN page : page[i].kind = "sandbox"
        /\ buffered' = TRUE
        /\ pc' = "release" /\ back' = "fetch"
  /\ UNCHANGED <<zai, base, tries, poll, last_sent, stable, resent, current, cancelled, aicq>>

\* The friend has clicked stop, and the bridge could find out.
CheckCancel ==
  /\ pc = "cancel"
  /\ \/ /\ ~cancelled
        /\ pc' = "read"
        /\ UNCHANGED <<cancelled, aicq>>
     \/ /\ Raises
        /\ pc' = "read"
        /\ cancelled' \in {cancelled, FALSE}
        /\ UNCHANGED <<shown, ended, told>>
     \/ /\ cancelled
        /\ cancelled' = FALSE
        /\ SayAndEnd(last_sent \o Notice, "read")
  /\ UNCHANGED <<zai, back, base, local, current>>

\* zai_read_response_via_dom: message i, the last of the n it got, when it is
\* beyond the baseline or its hash is not that of the baseline.
DomSees(i, n) ==
  /\ page[i].len > 0
  /\ pre_count < n \/ Hash(page[i]) # pre_last_hash

\* Its list of elements holds the messages first and what is nested in them
\* behind, and is cut at the same number.
EvalSees ==
  /\ page # <<>> /\ Last(page).len > 0
  /\ pre_count < (1 + Nested) * Len(page)

\* What the text that was read leads to.
Decide(text, error) ==
  LET noWorkspace == error /\ (buffered \/ is_sandbox_limit_error(text)
                                        \/ is_sandbox_limit_error(last_sent))
      limited == is_usage_limit_error(text) \/ (error /\ is_usage_limit_error(last_sent))
  IN /\ current' = text
     /\ \/ text = <<>> /\ NextPoll /\ UNCHANGED back
        \/ /\ text # <<>>
           /\ UNCHANGED poll
           /\ \/ noWorkspace /\ pc' = "release" /\ back' = "sandbox"
              \/ /\ ~noWorkspace /\ limited
                 /\ pc' = "bypass" /\ back' = IF error THEN "limit" ELSE "quota"
              \/ /\ ~noWorkspace /\ ~limited
                 /\ pc' = IF error THEN "refuse" ELSE "stream"
                 /\ UNCHANGED back

\* The DOM reader, or the fallback if it sees nothing or its call fails; the
\* fallback's may fail too, and does not know the sandbox error.
Read ==
  /\ pc = "read"
  /\ \/ \E i, n \in DOMAIN page :
          /\ Gets(i, n) /\ DomSees(i, n)
          /\ Decide(Rendered(page[i], "md"), page[i].kind \in {"limit", "sandbox", "busy"})
     \/ EvalSees /\ Decide(Rendered(Last(page), "html"), Last(page).kind \in {"limit", "busy"})
     \/ Decide(<<>>, FALSE)
  /\ UNCHANGED <<zai, base, tries, last_sent, stable, buffered, resent, cancelled, aicq>>

\* Another error: it is shown and ends the stream.
Refuse ==
  /\ pc = "refuse"
  /\ SayAndEnd(Notice, "down")
  /\ UNCHANGED <<zai, back, base, local, current, cancelled>>

\* zai_release_workspaces released some, or none.
Release ==
  /\ pc = "release"
  /\ \/ SendAgain(back) /\ UNCHANGED aicq
     \/ SayAndEnd(Notice, IF back = "fetch" THEN "cancel" ELSE "down") /\ UNCHANGED <<back, tries>>
  /\ UNCHANGED <<zai, base, poll, last_sent, stable, buffered, resent, current, cancelled>>

\* zai_bypass_usage_limit: all chats are deleted, a greeting is answered, and a
\* new chat is opened, unless that fails and the greeting's stays; or it fails.
Bypass ==
  /\ pc = "bypass"
  /\ owed' = FALSE
  /\ \/ SendAgain(back) /\ page' \in {<<>>, <<Old>>} /\ UNCHANGED aicq
     \/ SayAndEnd(Notice, "down") /\ page' \in {page, <<>>} /\ UNCHANGED <<back, tries>>
  /\ UNCHANGED <<accepted, base, poll, last_sent, stable, buffered, resent, current, cancelled>>

-----------------------------------------------------------------------------
(* The text is streamed. *)

\* Mutant of Push: a text that was rewritten is sent without clear_text.
PushOnly(text) ==
  /\ \/ /\ UNCHANGED fails
        /\ shown' = IF last_sent = <<>> \/ IsPrefix(last_sent, text)
                    THEN shown \o SubSeq(text, Len(last_sent) + 1, Len(text)) ELSE shown \o text
     \/ Raises /\ UNCHANGED shown
  /\ UNCHANGED <<ended, told>>

\* What the text adds, or all of it after clear_text; a call that raises is
\* swallowed and the text counts as sent.
Push(text) ==
  /\ \/ /\ UNCHANGED fails
        /\ shown' = IF last_sent = <<>> \/ IsPrefix(last_sent, text)
                    THEN shown \o SubSeq(text, Len(last_sent) + 1, Len(text)) ELSE text
     \/ /\ Raises
        /\ \/ UNCHANGED shown
           \/ ~IsPrefix(last_sent, text) /\ shown' = <<>>
  /\ UNCHANGED <<ended, told>>

Grown ==
  /\ pc = "stream"
  /\ current # last_sent
  /\ Push(current)
  /\ last_sent' = current /\ stable' = 0
  /\ NextPoll
  /\ UNCHANGED <<zai, back, base, tries, buffered, resent, current, cancelled>>

\* Unchanged: after StablePolls of these the stream ends, unless the text is a
\* usage limit; an end that raises is logged.
Unchanged ==
  /\ pc = "stream"
  /\ current = last_sent
  /\ stable' = stable + 1
  /\ \/ stable' < StablePolls /\ NextPoll /\ UNCHANGED <<back, aicq>>
     \/ /\ stable' >= StablePolls
        /\ UNCHANGED poll
        /\ IF is_usage_limit_error(current)
           THEN pc' = "bypass" /\ back' = "stable" /\ UNCHANGED aicq
           ELSE SayAndEnd(<<>>, "done") /\ UNCHANGED back
  /\ UNCHANGED <<zai, base, tries, last_sent, buffered, resent, current, cancelled>>

\* The polls have run out: one more look, and whatever there is is sent.
Final ==
  /\ pc = "final"
  /\ \/ UNCHANGED last_sent
     \/ EvalSees /\ last_sent' = Rendered(Last(page), "html")
  /\ SayAndEnd(last_sent', "done")
  /\ UNCHANGED <<zai, back, base, tries, poll, stable, buffered, resent, current, cancelled>>

BridgeStep ==
  \/ Press \/ GiveUp \/ Baseline
  \/ Fetch \/ CheckCancel \/ Read
  \/ Refuse \/ Release \/ Bypass
  \/ Grown \/ Unchanged \/ Final

Next == BridgeStep \/ Zai \/ Cancel

Spec == Init /\ [][Next]_vars

\* Every await of the bridge has a timeout or is answered by the core.  z.ai
\* and the friend may do nothing.
FairSpec == Spec /\ WF_vars(BridgeStep)

-----------------------------------------------------------------------------
(* Properties. *)

\* The bridge's idea of the friend's screen is right: as long as no call of the
\* core failed, what it sent last is all the screen shows, or the end of it
\* once the message was sent again.  Only then is the difference it sends next
\* (aicq.me appends) the right one.
ScreenIsWhatWasSent ==
  fails = 0 /\ pc \notin {"done", "down"} =>
    IF resent THEN IsSuffix(last_sent, shown) ELSE shown = last_sent

\* The stream is ended once at most, and by the last thing the loop does.
EndsOnce == ended <= 1 /\ (ended = 1 => pc = "done")

\* Where the message is for the main loop.  Sending it again after a release of
\* workspaces is part of the relay, as it goes to the same chat.
Phase ==
  CASE pc = "type" /\ back \notin {"fetch", "sandbox"} -> "type"
    [] pc = "done" -> "over"
    [] pc = "down" -> "down"
    [] OTHER       -> "relay"

Contract == INSTANCE Turn WITH at <- Phase

(* The relay of a message keeps to what the main loop takes it for: over   *)
(* all of its ways to recover, to give up and to fail, the stream is ended *)
(* once, or the friend is told once that nothing could be sent; nothing is *)
(* shown after that, and only a failing call of the core ends the bridge.  *)
KeepsContract == Contract!Spec

\* The friend's stream is ended or they are told of the failure, unless a
\* call of the core failed: nobody is left with a status bar that says that
\* z.ai is at work, whatever z.ai does and however often the message is sent.
EveryAnswerEnds == <>(ended = 1 \/ told \/ fails > 0)

\* "we only stream NEW responses (not old ones from the chat history)"
\* (aicq_bridge.py:2136-2138, README.md:111-112), once the baseline could be read.
OnlyNewResponses ==
  pre_count > 0 => \A i \in DOMAIN shown : shown[i].of # 0

=============================================================================
