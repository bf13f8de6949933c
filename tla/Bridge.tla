------------------------------- MODULE Bridge -------------------------------
(***************************************************************************)
(* The AICQ bridge's main loop (scripts/aicq_bridge.py, run_bridge): which *)
(* z.ai chat a friend's message goes to.  Private messages queue up and    *)
(* are handled one by one; "/new" starts a new chat, "/release" frees      *)
(* workspaces; group messages are handled when no private one is waiting.  *)
(*                                                                         *)
(* The relay of a message's answer is one step here, with the outcomes     *)
(* that AnswerStream has.  Chats are numbered in the order z.ai creates    *)
(* them; None is a page that shows no chat yet.                            *)
(***************************************************************************)
EXTENDS Integers, Sequences

CONSTANTS Friends, Owner,   \* who writes to the agent; Owner is 1000008
          Groups,
          OldChats,         \* chats in the sidebar when the bridge starts
          MaxChats,         \* bound: chats z.ai ever creates
          MaxMail,          \* bound: private messages
          MaxGroupMail,     \* bound: group messages
          MaxFaults         \* bound: failing calls, and new chats that do not open in time

ASSUME BridgeAssumption ==
  /\ Owner \in Friends
  /\ OldChats \in Nat /\ MaxChats \in Nat /\ OldChats <= MaxChats
  /\ MaxMail \in Nat /\ MaxGroupMail \in Nat /\ MaxFaults \in Nat

VARIABLES
  mailed, groupMailed,  \* AICQ: messages sent to the agent so far
  inbox,                \* message_queue
  groupbox,             \* group_message_queue
  chat_map,             \* chat_map: the chat of each friend
  chats,                \* z.ai: the chats there are
  born,                 \* z.ai: the chats it has created
  open,                 \* z.ai: the chat the page shows
  msg,                  \* the private message being handled
  pc,                   \* where the main loop is
  last,                 \* history: the chat the friend wrote to last, since their /new
  spoke,                \* history: who has written to a chat in private
  strayed,              \* history: whose message went to another chat than their last
  waiting,              \* history: unanswered messages of each friend
  wiped,                \* history: whose chat may have been deleted by someone else
  faults                \* history

aicq    == <<mailed, groupMailed>>
zai     == <<chats, born, open>>
history == <<last, spoke, strayed, wiped>>
vars    == <<mailed, groupMailed, inbox, groupbox, chat_map, chats, born, open, msg, pc,
             last, spoke, strayed, waiting, wiped, faults>>

Chat   == 1..MaxChats
None   == 0
Mail   == [from : Friends, what : {"text", "new", "release"}]
NoMail == [from |-> Owner, what |-> "none"]

TypeOK ==
  /\ mailed \in 0..MaxMail /\ groupMailed \in 0..MaxGroupMail
  /\ inbox \in Seq(Mail) /\ groupbox \in Seq(Groups)
  /\ chat_map \in [Friends -> Chat \cup {None}]
  /\ born \in 0..MaxChats /\ chats \subseteq 1..born /\ open \in {None} \cup 1..born
  /\ msg \in Mail \cup {NoMail}
  /\ pc \in {"wait", "handle", "create", "tell", "type", "relay", "group", "group next",
             "group more", "down"}
  /\ (msg = NoMail) = (pc \in {"wait", "group", "group next", "group more", "down"})
  /\ last \in [Friends -> Chat \cup {None}]
  /\ spoke \in [Chat -> SUBSET Friends]
  /\ strayed \subseteq Friends /\ wiped \subseteq Friends
  /\ waiting \in [Friends -> 0..MaxMail]
  /\ faults \in Nat

\* zai_select_first_chat: one of the chats is shown and is the owner's; or
\* there is none, or it was not found.
Init ==
  /\ mailed = 0 /\ groupMailed = 0 /\ inbox = <<>> /\ groupbox = <<>>
  /\ chats = 1..OldChats /\ born = OldChats
  /\ open \in {None} \cup 1..OldChats
  /\ chat_map = [f \in Friends |-> IF f = Owner THEN open ELSE None]
  /\ last = chat_map
  /\ msg = NoMail /\ pc = "wait"
  /\ spoke = [c \in Chat |-> {}]
  /\ strayed = {} /\ wiped = {}
  /\ waiting = [f \in Friends |-> 0] /\ faults = 0

-----------------------------------------------------------------------------
(* AICQ.  Messages come at any time; it is enough to let them come where the   *)
(* loop is about to look at a queue, since none of its other steps does.       *)

\* A private message.  Those of agents and empty ones are ignored.
on_message(f, what) ==
  /\ pc \in {"wait", "group more"}
  /\ mailed < MaxMail
  /\ mailed' = mailed + 1
  /\ inbox' = Append(inbox, [from |-> f, what |-> what])
  /\ waiting' = [waiting EXCEPT ![f] = @ + 1]
  /\ UNCHANGED <<groupMailed, groupbox, chat_map, zai, msg, pc, history, faults>>

\* A group message; system messages and the agent's own are ignored.  For one
\* with an id the callback reads _processed_group_msg_ids, which it assigns
\* further down: an UnboundLocalError, which is logged.
on_group_message(g, hasId) ==
  /\ pc \in {"wait", "group more"}
  /\ groupMailed < MaxGroupMail
  /\ groupMailed' = groupMailed + 1
  /\ \/ hasId /\ UNCHANGED groupbox
     \/ ~hasId /\ groupbox' = Append(groupbox, g)
  /\ UNCHANGED <<mailed, inbox, chat_map, zai, msg, pc, last, spoke, strayed, waiting, wiped, faults>>

-----------------------------------------------------------------------------
(* What the page does. *)

\* Something fails; at the bound of z.ai's chats, however often it has.  Failures
\* beyond MaxFaults are not told apart.
Fault ==
  /\ faults < MaxFaults \/ born = MaxChats
  /\ faults' = IF faults = 0 \/ faults < MaxFaults THEN faults + 1 ELSE faults

\* send_message returns: the message is answered.
Answered ==
  /\ waiting' = [waiting EXCEPT ![msg.from] = @ - 1]
  /\ msg' = NoMail /\ pc' = "wait"
  /\ UNCHANGED faults

\* send_message raises: nobody catches it and the bridge ends.
Dies == Fault /\ pc' = "down" /\ msg' = NoMail /\ UNCHANGED waiting

\* It deletes all of them, or those that it can; the page of a deleted chat
\* shows none.
zai_delete_all_chats ==
  /\ chats' \in SUBSET chats
  /\ open' = IF open \in chats' THEN open ELSE None
  /\ UNCHANGED born

\* Mutant of zai_new_chat: the URL is not compared with the one before.
zai_new_chat_any(id) ==
  \/ /\ born < MaxChats
     /\ born' = born + 1 /\ chats' = chats \cup {born'}
     /\ open' = born' /\ id = born'
     /\ UNCHANGED faults
  \/ /\ open # None
     /\ id = open
     /\ UNCHANGED <<zai, faults>>

\* A new chat opens, and id is that of the changed URL.  Otherwise that is
\* None, or, if the URL before could not be read, that of the chat shown; a
\* chat may still open after that.
zai_new_chat(id) ==
  \/ /\ born < MaxChats
     /\ born' = born + 1 /\ chats' = chats \cup {born'}
     /\ open' = born' /\ id = born'
     /\ UNCHANGED faults
  \/ /\ Fault
     /\ id \in {None, open}
     /\ \/ born < MaxChats /\ born' = born + 1 /\ chats' = chats \cup {born'} /\ open' = born'
        \/ open' \in {open, None} /\ UNCHANGED <<chats, born>>

\* Text goes to the chat shown; a page without a chat becomes one, and so
\* does that of a chat that is no more.
Typed ==
  \/ open \in chats /\ UNCHANGED zai
  \/ /\ open \notin chats
     /\ born < MaxChats
     /\ born' = born + 1 /\ chats' = chats \cup {born'} /\ open' = born'

\* The friend's message is in the chat that is shown now.
Noted ==
  LET f == msg.from IN
  /\ last' = [last EXCEPT ![f] = open']
  /\ spoke' = [spoke EXCEPT ![open'] = @ \cup {f}]
  /\ strayed' = IF last[f] \notin {None, open'} THEN strayed \cup {f} ELSE strayed

-----------------------------------------------------------------------------
(* The main loop. *)

\* Mutant of Take: the message that came last.
TakeNewest ==
  /\ pc = "wait"
  /\ inbox # <<>>
  /\ msg' = inbox[Len(inbox)] /\ inbox' = SubSeq(inbox, 1, Len(inbox) - 1)
  /\ pc' = "handle"
  /\ UNCHANGED <<aicq, groupbox, chat_map, zai, waiting, history, faults>>

\* The next message.  The page is made ready, or not within 30 s.
Take ==
  /\ pc = "wait"
  /\ inbox # <<>>
  /\ msg' = Head(inbox) /\ inbox' = Tail(inbox)
  /\ pc' = "handle"
  /\ UNCHANGED <<aicq, groupbox, chat_map, zai, waiting, history, faults>>

\* "/new": all chats are deleted, or those that can be.
NewCommand ==
  /\ pc = "handle" /\ msg.what = "new"
  /\ zai_delete_all_chats
  /\ wiped' = wiped \cup (Friends \ {msg.from})
  /\ last' = [last EXCEPT ![msg.from] = None]
  /\ pc' = "create"
  /\ UNCHANGED <<aicq, inbox, groupbox, chat_map, msg, waiting, spoke, strayed, faults>>

\* The new chat of "/new", or of any other text of a friend who has none,
\* becomes the friend's.
CreateChat ==
  /\ pc = "create" \/ (pc = "handle" /\ msg.what = "text" /\ chat_map[msg.from] = None)
  /\ \E id \in {None} \cup Chat :
       /\ zai_new_chat(id)
       /\ chat_map' = IF id = None THEN chat_map ELSE [chat_map EXCEPT ![msg.from] = id]
  /\ pc' = IF pc = "create" THEN "tell" ELSE "type"
  /\ UNCHANGED <<aicq, inbox, groupbox, msg, waiting, history>>

\* Mutant of Tell: the command is sent to z.ai as well.
TellAndGoOn ==
  /\ pc = "tell" \/ (pc = "handle" /\ msg.what = "release")
  /\ waiting' = [waiting EXCEPT ![msg.from] = @ - 1]
  /\ pc' = "type"
  /\ UNCHANGED <<aicq, inbox, groupbox, chat_map, zai, msg, history, faults>>

\* The friend is told the outcome of a command.  "/release" frees workspaces,
\* which does not touch the chats.
Tell ==
  /\ pc = "tell" \/ (pc = "handle" /\ msg.what = "release")
  /\ Answered \/ Dies
  /\ UNCHANGED <<aicq, inbox, groupbox, chat_map, zai, history>>

\* Mutant of Navigate: the page stays where it is.
NavigateNowhere ==
  /\ pc = "handle" /\ msg.what = "text"
  /\ chat_map[msg.from] # None
  /\ pc' = "type"
  /\ UNCHANGED <<aicq, inbox, groupbox, chat_map, zai, msg, waiting, history, faults>>

\* The friend has a chat: the page goes there, unless the eval fails.
Navigate ==
  /\ pc = "handle" /\ msg.what = "text"
  /\ chat_map[msg.from] # None
  /\ \/ open' = (IF chat_map[msg.from] \in chats THEN chat_map[msg.from] ELSE None) /\ UNCHANGED faults
     \/ Fault /\ UNCHANGED open
  /\ pc' = "type"
  /\ UNCHANGED <<aicq, inbox, groupbox, chat_map, chats, born, msg, waiting, history>>

\* zai_type_and_send.
Type ==
  /\ pc = "type"
  /\ Typed /\ Noted
  /\ pc' = "relay"
  /\ UNCHANGED <<aicq, inbox, groupbox, chat_map, msg, waiting, wiped, faults>>

\* It failed.
NotTyped ==
  /\ pc = "type"
  /\ Answered \/ Dies
  /\ UNCHANGED <<aicq, inbox, groupbox, chat_map, zai, history>>

\* The answer has been streamed, or a call of the core raised.  Meanwhile the
\* text may have been sent again where workspaces ran out, and the first chat of
\* the sidebar been clicked: the one shown, which z.ai has put there when it was
\* written to (2205), so neither leads elsewhere.
Relay ==
  /\ pc = "relay"
  /\ Answered \/ Dies
  /\ UNCHANGED <<aicq, inbox, groupbox, chat_map, zai, history>>

\* z.ai answers with its usage limit: all chats are deleted, or those that can
\* be, a greeting is answered in a chat that is deleted in its turn, or not, and
\* a new one opens, whose id nobody notes.  The text is sent again; or it could
\* not be, and the relay goes on; or the bypass failed.  When no chat opened, the
\* page may still show one that was not deleted.
Bypass ==
  /\ pc = "relay"
  /\ born < MaxChats
  /\ born' = born + 1
  /\ chats' \in SUBSET (chats \cup {born'})
  /\ wiped' = Friends
  /\ \/ /\ open' \in {None} \cup (chats' \ chats)
        /\ \/ pc' \in {"type", "relay"} /\ UNCHANGED <<msg, waiting, faults>>
           \/ Answered
           \/ Dies
     \/ /\ open' \in chats'
        /\ Fault
        /\ pc' \in {"type", "relay"} /\ UNCHANGED <<msg, waiting>>
  /\ UNCHANGED <<aicq, inbox, groupbox, chat_map, last, spoke, strayed>>

-----------------------------------------------------------------------------
(* process_group_message. *)

\* No private message has come for 60 s.
GroupTake ==
  /\ pc = "wait"
  /\ inbox = <<>> /\ groupbox # <<>>
  /\ groupbox' = Tail(groupbox)
  /\ pc' = "group"
  /\ UNCHANGED <<aicq, inbox, chat_map, zai, msg, waiting, history, faults>>

\* The message is typed into whatever the page shows, and answered; or it is
\* dropped, and if it was the first, so is its answer.
GroupType ==
  /\ pc \in {"group", "group next"}
  /\ \/ Typed /\ (pc' = "group more" \/ (pc = "group" /\ pc' = "wait"))
     \/ UNCHANGED zai /\ pc' = IF pc = "group" THEN "wait" ELSE "group more"
  /\ UNCHANGED <<aicq, inbox, groupbox, chat_map, msg, waiting, history, faults>>

\* Mutant of GroupMore: it waits for another message.
GroupMoreAlways ==
  /\ pc = "group more"
  /\ groupbox # <<>>
  /\ groupbox' = Tail(groupbox)
  /\ pc' = "group next"
  /\ UNCHANGED <<aicq, inbox, chat_map, zai, msg, waiting, history, faults>>

\* What came meanwhile is handled too; then the answers go to the first
\* message's group.
GroupMore ==
  /\ pc = "group more"
  /\ IF groupbox = <<>> THEN pc' = "wait" /\ UNCHANGED groupbox
     ELSE pc' = "group next" /\ groupbox' = Tail(groupbox)
  /\ UNCHANGED <<aicq, inbox, chat_map, zai, msg, waiting, history, faults>>

Loop ==
  \/ Take \/ NewCommand \/ CreateChat \/ Tell \/ Navigate
  \/ Type \/ NotTyped \/ Relay \/ Bypass
  \/ GroupTake \/ GroupType \/ GroupMore

Next ==
  \/ Loop
  \/ \E f \in Friends, what \in {"text", "new", "release"} : on_message(f, what)
  \/ \E g \in Groups, hasId \in BOOLEAN : on_group_message(g, hasId)

Spec == Init /\ [][Next]_vars

\* Every step of the loop ends: its awaits have timeouts, and so has the relay
\* (AnswerStream, EveryAnswerEnds).  The mail may stop.
FairSpec == Spec /\ WF_vars(Loop)

-----------------------------------------------------------------------------
(* Properties. *)

\* "Subsequent messages reuse the same z.ai chat so context is preserved across
\* multi-turn conversations" (2103-2108): what a friend writes goes to the chat
\* they wrote to last, whatever others and groups write in between, unless
\* someone else's /new or a usage limit deleted the chats, or a call failed.
ContextKept == faults = 0 => strayed \subseteq wiped

\* Nobody else's private messages are in the chat of a friend, and no two
\* friends have the same, as long as no call failed.
ChatsApart ==
  faults = 0 =>
    \A f, g \in Friends :
      f # g /\ chat_map[f] # None => chat_map[g] # chat_map[f] /\ g \notin spoke[chat_map[f]]

\* The message at hand and those behind it.
Pending == (IF msg = NoMail THEN <<>> ELSE <<msg>>) \o inbox

Box == INSTANCE Mailbox WITH pending <- Pending, up <- pc # "down"

(* The loop implements the mailbox of its friends: through commands, chats *)
(* that fail to open, texts that are sent again after a bypass and groups  *)
(* in between, private messages are answered one at a time, in the order   *)
(* they came, each once ("serial", aicq_bridge.py:1990).                   *)
InOrder == Box!Spec

\* Every message is answered one way or another, unless the bridge ended.
EveryMessageAnswered ==
  \A f \in Friends : waiting[f] > 0 ~> waiting[f] = 0 \/ pc = "down"

=============================================================================
