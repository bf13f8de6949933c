---------------------------- MODULE Bridge_proof ----------------------------
(***************************************************************************)
(* Proofs about Bridge, for any number of friends, groups, chats and       *)
(* messages: whose words end up in which chat, and that each of them is    *)
(* answered for once; and about AutoStream, for texts of any length: what  *)
(* is on the screen.                                                       *)
(***************************************************************************)
EXTENDS Bridge, AutoStream, SequenceTheorems, FiniteSetTheorems, TLAPS

(* What the proofs need to know of the state; mostly a part of TypeOK. *)

Types ==
  /\ inbox \in Seq(Mail)
  /\ born \in 0..MaxChats /\ chats \subseteq 1..born /\ open \in {None} \cup 1..born
  /\ chat_map \in [Friends -> {None} \cup 1..born]
  /\ msg \in Mail \cup {NoMail}
  /\ last \in [Friends -> Chat \cup {None}]
  /\ spoke \in [Chat -> SUBSET Friends]
  /\ \A c \in Chat : c > born => spoke[c] = {}
  /\ strayed \subseteq Friends /\ wiped \subseteq Friends
  /\ faults \in Nat

\* The page where a friend's text is about to go, or has gone, is nobody else's.
PageIsOwn ==
  faults = 0 /\ pc \in {"type", "relay"} =>
    \A g \in Friends \ {msg.from} : open \in chats => chat_map[g] # open

Apart == ChatsApart /\ PageIsOwn

\* What f writes goes on where it was: f's chat is there and is that of f's
\* last text.  While f's /new is at work, f has none.
Continues(f) ==
  IF pc = "create" /\ msg.from = f THEN last[f] = None
  ELSE /\ chat_map[f] \in chats \cup {None}
       /\ last[f] \in {None, chat_map[f]}
       /\ pc \in {"type", "relay"} /\ msg.from = f => open = chat_map[f] /\ open # None

Context ==
  faults = 0 => strayed \subseteq wiped /\ \A f \in Friends \ wiped : Continues(f)

Inv == Types /\ Apart /\ Context

LEMMA Constants ==
  /\ Owner \in Friends
  /\ OldChats \in Nat /\ MaxChats \in Nat /\ OldChats <= MaxChats
BY BridgeAssumption

LEMMA Sender == ASSUME Types PROVE msg.from \in Friends
BY Constants DEF Types, Mail, NoMail

LEMMA InvInit == ASSUME Init PROVE Inv
<1>1. open \in {None} \cup 1..OldChats /\ chats = 1..OldChats /\ born = OldChats
  BY DEF Init
<1>2. Types
  <2>1. born \in 0..MaxChats
    BY <1>1, Constants
  <2>2. chat_map \in [Friends -> {None} \cup 1..born]
    BY <1>1 DEF Init, None
  <2>3. last \in [Friends -> Chat \cup {None}]
    <3>1. 1..OldChats \subseteq Chat
      BY Constants DEF Chat
    <3>2. QED
      BY <1>1, <3>1 DEF Init
  <2>4. QED
    BY <1>1, <2>1, <2>2, <2>3 DEF Init, Types
<1>3. Apart
  <2>1. ASSUME NEW f \in Friends, chat_map[f] # None PROVE f = Owner /\ chat_map[f] \in Chat
    <3>1. f = Owner /\ chat_map[f] = open
      BY <2>1 DEF Init
    <3>2. open \in 1..OldChats
      BY <1>1, <2>1, <3>1
    <3>3. QED
      BY <3>1, <3>2, Constants DEF Chat
  <2>2. ChatsApart
    BY <2>1 DEF Init, ChatsApart
  <2>3. PageIsOwn
    BY DEF Init, PageIsOwn
  <2>4. QED
    BY <2>2, <2>3 DEF Apart
<1>4. Context
  <2>1. ASSUME NEW f \in Friends PROVE Continues(f)
    <3>1. pc = "wait" /\ last[f] = chat_map[f]
      BY DEF Init
    <3>2. chat_map[f] \in chats \cup {None}
      BY <1>1 DEF Init
    <3>3. QED
      BY <3>1, <3>2 DEF Continues
  <2>2. QED
    BY <2>1 DEF Init, Context
<1>5. QED
  BY <1>2, <1>3, <1>4 DEF Inv

\* A step that touches none of the chats and what is known of them, and does
\* not send a text.
Quiet ==
  /\ UNCHANGED <<chat_map, zai, last, spoke, strayed, wiped>>
  /\ faults' = faults \/ faults' = faults + 1
  /\ pc # "create" /\ pc' \notin {"create", "type", "relay"}
  /\ inbox' \in Seq(Mail) /\ msg' \in Mail \cup {NoMail}

LEMMA QuietStep == ASSUME Inv, Quiet PROVE Inv'
<1>1. Types'
  BY DEF Inv, Types, Quiet, zai
<1>2. faults' = 0 => faults = 0
  BY DEF Inv, Types, Quiet
<1>3. Apart'
  BY <1>2 DEF Inv, Apart, ChatsApart, PageIsOwn, Quiet, zai
<1>4. Context'
  BY <1>2 DEF Inv, Context, Continues, Quiet, zai
<1>5. QED
  BY <1>1, <1>3, <1>4 DEF Inv

LEMMA QuietMail ==
  ASSUME Inv, NEW f \in Friends, NEW what \in {"text", "new", "release"}, on_message(f, what)
  PROVE  Quiet
<1> DEFINE m == [from |-> f, what |-> what]
<1>1. m \in Mail
  BY DEF Mail
<1>2. inbox' = Append(inbox, m)
  BY DEF on_message
<1>3. inbox \in Seq(Mail) /\ msg \in Mail \cup {NoMail}
  BY DEF Inv, Types
<1> HIDE DEF m
<1>4. inbox' \in Seq(Mail)
  BY <1>1, <1>2, <1>3
<1>5. QED
  BY <1>3, <1>4 DEF on_message, Quiet, history, zai

LEMMA QuietGroup ==
  ASSUME Inv, NEW g \in Groups, NEW hasId \in BOOLEAN, on_group_message(g, hasId)
  PROVE  Quiet
BY DEF on_group_message, Quiet, zai, Inv, Types

LEMMA QuietTake == ASSUME Inv, Take PROVE Quiet
<1>1. inbox \in Seq(Mail) /\ inbox # <<>>
  BY DEF Take, Inv, Types
<1>2. Head(inbox) \in Mail /\ Tail(inbox) \in Seq(Mail)
  BY <1>1
<1>3. QED
  BY <1>2 DEF Take, Quiet, history, zai

LEMMA QuietLoop ==
  ASSUME Inv, Tell \/ NotTyped \/ Relay \/ GroupTake \/ GroupMore
  PROVE  Quiet
BY DEF Tell, NotTyped, Relay, GroupTake, GroupMore, Answered, Dies, Fault, Quiet, history, zai,
       Inv, Types

\* A chat is born, or none is; it has no words and is nobody's.
LEMMA TypedTypes ==
  ASSUME Types, Typed
  PROVE  /\ born' \in 0..MaxChats /\ born <= born'
         /\ chats \subseteq chats' /\ chats' \subseteq 1..born' /\ open' \in 1..born'
         /\ open' \in chats'
         /\ (UNCHANGED open /\ open \in chats) \/ (open' = born + 1 /\ open \notin chats)
<1>1. born \in 0..MaxChats /\ chats \subseteq 1..born /\ open \in {None} \cup 1..born
      /\ MaxChats \in Nat
  BY Constants DEF Types
<1>2. CASE open \in chats /\ UNCHANGED zai
  BY <1>1, <1>2 DEF zai
<1>3. CASE /\ open \notin chats /\ born < MaxChats
           /\ born' = born + 1 /\ chats' = chats \cup {born'} /\ open' = born'
  <2>1. born' \in 0..MaxChats /\ born <= born' /\ born' \in 1..born'
    BY <1>1, <1>3
  <2>2. 1..born \subseteq 1..born'
    BY <1>1, <2>1
  <2>3. QED
    BY <1>1, <1>3, <2>1, <2>2
<1>4. QED
  BY <1>2, <1>3 DEF Typed

LEMMA MapGrows ==
  ASSUME Types, born' \in 0..MaxChats, born <= born'
  PROVE  /\ chat_map \in [Friends -> {None} \cup 1..born']
         /\ 1..born \subseteq 1..born'
         /\ \A c \in Chat : c > born' => spoke[c] = {}
<1>1. born \in Nat /\ born' \in Nat /\ MaxChats \in Nat
  BY Constants DEF Types
<1>2. 1..born \subseteq 1..born'
  BY <1>1
<1>3. chat_map \in [Friends -> {None} \cup 1..born']
  BY <1>2 DEF Types
<1>4. \A c \in Chat : c > born' => c > born
  BY <1>1 DEF Chat
<1>5. QED
  BY <1>2, <1>3, <1>4 DEF Types

LEMMA GroupTypeStep == ASSUME Inv, GroupType PROVE Inv'
<1>0. /\ pc \in {"group", "group next"} /\ pc' \in {"group more", "wait"}
      /\ UNCHANGED <<inbox, chat_map, msg, last, spoke, strayed, wiped, faults>>
  BY DEF GroupType, history
<1>1. CASE UNCHANGED zai
  <2>1. Quiet
    BY <1>0, <1>1 DEF Quiet, Inv, Types
  <2>2. QED
    BY <2>1, QuietStep
<1>2. CASE Typed
  <2>1. /\ born' \in 0..MaxChats /\ born <= born'
        /\ chats \subseteq chats' /\ chats' \subseteq 1..born' /\ open' \in 1..born'
    BY <1>2, TypedTypes DEF Inv
  <2>2. Types'
    BY <1>0, <2>1, MapGrows DEF Inv, Types
  <2>3. Apart'
    BY <1>0 DEF Inv, Apart, ChatsApart, PageIsOwn
  <2>4. Context'
    <3>1. ASSUME faults' = 0, NEW f \in Friends \ wiped' PROVE Continues(f)'
      <4>1. Continues(f)
        BY <1>0, <3>1 DEF Inv, Context
      <4>2. QED
        BY <1>0, <2>1, <4>1 DEF Continues
    <3>2. QED
      BY <1>0, <3>1 DEF Inv, Context
  <2>5. QED
    BY <2>2, <2>3, <2>4 DEF Inv
<1>3. QED
  BY <1>1, <1>2 DEF GroupType

LEMMA NewCommandStep == ASSUME Inv, NewCommand PROVE Inv'
<1> DEFINE f == msg.from
<1>0. /\ pc = "handle" /\ pc' = "create"
      /\ UNCHANGED <<inbox, chat_map, msg, spoke, strayed, faults, born>>
      /\ chats' \subseteq chats /\ open' \in {open, None}
      /\ wiped' = wiped \cup (Friends \ {f})
      /\ last' = [last EXCEPT ![f] = None]
      /\ f \in Friends
  BY Sender DEF NewCommand, zai_delete_all_chats, Inv
<1>1. Types'
  BY <1>0 DEF Inv, Types
<1>2. Apart'
  BY <1>0 DEF Inv, Apart, ChatsApart, PageIsOwn
<1>3. Context'
  <2>1. ASSUME NEW g \in Friends \ wiped' PROVE Continues(g)'
    <3>1. g = f
      BY <1>0, <2>1
    <3>2. last'[g] = None
      BY <1>0, <3>1 DEF Inv, Types
    <3>3. QED
      BY <1>0, <3>1, <3>2 DEF Continues
  <2>2. QED
    BY <1>0, <2>1 DEF Inv, Context
<1>4. QED
  BY <1>1, <1>2, <1>3 DEF Inv

LEMMA CreateChatStep == ASSUME Inv, CreateChat PROVE Inv'
<1> DEFINE f == msg.from
<1>0. /\ pc \in {"create", "handle"} /\ pc' \in {"tell", "type"}
      /\ pc = "create" => pc' = "tell"
      /\ pc = "handle" => chat_map[f] = None
      /\ UNCHANGED <<inbox, msg, last, spoke, strayed, wiped>>
      /\ f \in Friends
  BY Sender DEF CreateChat, history, Inv
<1>1. PICK id \in {None} \cup Chat :
        /\ zai_new_chat(id)
        /\ chat_map' = IF id = None THEN chat_map ELSE [chat_map EXCEPT ![f] = id]
  BY DEF CreateChat
<1>2. /\ born \in 0..MaxChats /\ born \in Nat /\ MaxChats \in Nat
      /\ chats \subseteq 1..born /\ open \in {None} \cup 1..born
      /\ chat_map \in [Friends -> {None} \cup 1..born]
      /\ faults \in Nat
  BY Constants DEF Inv, Types
<1>3. CASE /\ born < MaxChats
           /\ born' = born + 1 /\ chats' = chats \cup {born'}
           /\ open' = born' /\ id = born'
           /\ UNCHANGED faults
  <2>1. born' \in 0..MaxChats /\ born <= born' /\ born' \in 1..born' /\ born' \notin {None} \cup 1..born
        /\ born' \in Chat /\ born' > born
    BY <1>2, <1>3 DEF None, Chat
  <2>2. chats' \subseteq 1..born' /\ chat_map \in [Friends -> {None} \cup 1..born']
    BY <1>2, <1>3, <2>1, MapGrows DEF Inv
  <2>3. chat_map' = [chat_map EXCEPT ![f] = born']
    BY <1>1, <1>3, <2>1
  <2>4. chat_map'[f] = born' /\ \A g \in Friends \ {f} : chat_map'[g] = chat_map[g] /\ chat_map[g] # born'
    BY <1>0, <1>2, <2>1, <2>3
  <2>5. spoke[born'] = {}
    BY <2>1 DEF Inv, Types
  <2>6. Types'
    <3>1. \A c \in Chat : c > born' => spoke'[c] = {}
      BY <1>0, <2>1, MapGrows DEF Inv
    <3>2. chat_map' \in [Friends -> {None} \cup 1..born']
      BY <2>1, <2>2, <2>3
    <3>3. open' \in {None} \cup 1..born'
      BY <1>3, <2>1
    <3>4. QED
      BY <1>0, <1>3, <2>1, <2>2, <3>1, <3>2, <3>3 DEF Inv, Types
  <2>7. ChatsApart'
    BY <1>0, <1>3, <2>4, <2>5 DEF Inv, Apart, ChatsApart
  <2>8. PageIsOwn'
    BY <1>0, <1>3, <2>4 DEF PageIsOwn
  <2>9. Context'
    <3>1. ASSUME faults' = 0, NEW g \in Friends \ wiped' PROVE Continues(g)'
      <4>1. Continues(g)
        BY <1>0, <1>3, <3>1 DEF Inv, Context
      <4>2. CASE g = f
        <5>1. last[g] = None
          BY <1>0, <4>1, <4>2 DEF Continues
        <5>2. chat_map'[g] \in chats' /\ open' = chat_map'[g] /\ open' # None
          BY <1>3, <2>1, <2>4, <4>2
        <5>3. QED
          BY <1>0, <5>1, <5>2 DEF Continues
      <4>3. CASE g # f
        <5>1. chat_map[g] \in chats \cup {None} /\ last[g] \in {None, chat_map[g]}
          BY <4>1, <4>3 DEF Continues
        <5>2. chat_map'[g] \in chats' \cup {None} /\ last'[g] \in {None, chat_map'[g]}
          BY <1>0, <1>3, <2>4, <3>1, <4>3, <5>1
        <5>3. QED
          BY <1>0, <4>3, <5>2 DEF Continues
      <4>4. QED
        BY <4>2, <4>3
    <3>2. QED
      BY <1>0, <1>3, <3>1 DEF Inv, Context
  <2>10. QED
    BY <2>6, <2>7, <2>8, <2>9 DEF Inv, Apart
<1>4. CASE /\ Fault
           /\ id \in {None, open}
           /\ \/ born < MaxChats /\ born' = born + 1 /\ chats' = chats \cup {born'} /\ open' = born'
              \/ open' \in {open, None} /\ UNCHANGED <<chats, born>>
  <2>1. faults' \in Nat /\ faults' # 0
    BY <1>2, <1>4 DEF Fault
  <2>2. /\ born' \in 0..MaxChats /\ born <= born'
        /\ chats' \subseteq chats \cup {born'} /\ (chats' = chats \/ born' \in 1..born')
        /\ open' \in {open, None} \/ (open' = born' /\ born' \in 1..born')
    BY <1>2, <1>4
  <2>3. /\ 1..born \subseteq 1..born' /\ chat_map \in [Friends -> {None} \cup 1..born']
        /\ \A c \in Chat : c > born' => spoke[c] = {}
    BY <2>2, MapGrows DEF Inv
  <2>4. chats' \subseteq 1..born' /\ open' \in {None} \cup 1..born'
    BY <1>2, <2>2, <2>3
  <2>5. chat_map' \in [Friends -> {None} \cup 1..born']
    <3>1. id \in {None} \cup 1..born'
      BY <1>2, <1>4, <2>3
    <3>2. QED
      BY <1>1, <2>3, <3>1
  <2>6. Types'
    BY <1>0, <2>1, <2>2, <2>3, <2>4, <2>5 DEF Inv, Types
  <2>7. Apart' /\ Context'
    BY <2>1 DEF Apart, ChatsApart, PageIsOwn, Context
  <2>8. QED
    BY <2>6, <2>7 DEF Inv
<1>5. QED
  BY <1>1, <1>3, <1>4 DEF zai_new_chat

LEMMA NavigateStep == ASSUME Inv, Navigate PROVE Inv'
<1> DEFINE f == msg.from
<1>0. /\ pc = "handle" /\ pc' = "type"
      /\ UNCHANGED <<inbox, chat_map, chats, born, msg, last, spoke, strayed, wiped>>
      /\ chat_map[f] # None
      /\ f \in Friends
  BY Sender DEF Navigate, history, Inv
<1>1. CASE open' = (IF chat_map[f] \in chats THEN chat_map[f] ELSE None) /\ UNCHANGED faults
  <2>1. chats \subseteq 1..born /\ None \notin chats
    BY DEF Inv, Types, None
  <2>2. open' \in {None} \cup chats
    BY <1>1
  <2>3. Types'
    BY <1>0, <1>1, <2>1, <2>2 DEF Inv, Types
  <2>4. ChatsApart'
    BY <1>0, <1>1 DEF Inv, Apart, ChatsApart
  <2>5. PageIsOwn'
    <3>1. ASSUME faults = 0, NEW g \in Friends \ {f}, open' \in chats PROVE chat_map[g] # open'
      <4>1. open' = chat_map[f]
        BY <1>1, <2>1, <3>1
      <4>2. QED
        BY <1>0, <3>1, <4>1 DEF Inv, Apart, ChatsApart
    <3>2. QED
      BY <1>0, <1>1, <3>1 DEF PageIsOwn
  <2>6. Context'
    <3>1. ASSUME faults' = 0, NEW g \in Friends \ wiped' PROVE Continues(g)'
      <4>1. Continues(g)
        BY <1>0, <1>1, <3>1 DEF Inv, Context
      <4>2. chat_map[g] \in chats \cup {None} /\ last[g] \in {None, chat_map[g]}
        BY <1>0, <4>1 DEF Continues
      <4>3. g = f => open' = chat_map[g] /\ open' # None
        BY <1>0, <1>1, <2>1, <4>2
      <4>4. QED
        BY <1>0, <4>2, <4>3 DEF Continues
    <3>2. QED
      BY <1>0, <1>1, <3>1 DEF Inv, Context
  <2>7. QED
    BY <2>3, <2>4, <2>5, <2>6 DEF Inv, Apart
<1>2. CASE Fault /\ UNCHANGED open
  <2>1. faults' \in Nat /\ faults' # 0
    BY <1>2 DEF Fault, Inv, Types
  <2>2. Types'
    BY <1>0, <1>2, <2>1 DEF Inv, Types
  <2>3. Apart' /\ Context'
    BY <2>1 DEF Apart, ChatsApart, PageIsOwn, Context
  <2>4. QED
    BY <2>2, <2>3 DEF Inv
<1>3. QED
  BY <1>1, <1>2 DEF Navigate

LEMMA TypeStep == ASSUME Inv, Type PROVE Inv'
<1> DEFINE f == msg.from
<1>0. /\ pc = "type" /\ pc' = "relay"
      /\ Typed /\ Noted
      /\ UNCHANGED <<inbox, chat_map, msg, wiped, faults>>
      /\ f \in Friends
  BY Sender DEF Type, Inv
<1>1. /\ born' \in 0..MaxChats /\ born <= born'
      /\ chats \subseteq chats' /\ chats' \subseteq 1..born' /\ open' \in 1..born'
      /\ (UNCHANGED open /\ open \in chats) \/ (open' = born + 1 /\ open \notin chats)
  BY <1>0, TypedTypes DEF Inv
<1>2. open' \in Chat /\ ~(open' > born') /\ born \in Nat
  BY <1>1, Constants DEF Chat, Inv, Types
<1>3. /\ last' = [last EXCEPT ![f] = open']
      /\ spoke' = [spoke EXCEPT ![open'] = @ \cup {f}]
      /\ strayed' = IF last[f] \notin {None, open'} THEN strayed \cup {f} ELSE strayed
  BY <1>0 DEF Noted
<1>4. Types'
  <2>1. \A c \in Chat : c > born' => spoke'[c] = {}
    <3>1. ASSUME NEW c \in Chat, c > born' PROVE spoke'[c] = {}
      <4>1. c # open' /\ spoke[c] = {}
        BY <1>1, <1>2, <3>1, MapGrows DEF Inv
      <4>2. QED
        BY <1>3, <4>1 DEF Inv, Types
    <3>2. QED
      BY <3>1
  <2>2. spoke' \in [Chat -> SUBSET Friends] /\ last' \in [Friends -> Chat \cup {None}]
    BY <1>0, <1>2, <1>3 DEF Inv, Types
  <2>3. strayed' \subseteq Friends
    BY <1>0, <1>3 DEF Inv, Types
  <2>4. chat_map' \in [Friends -> {None} \cup 1..born']
    BY <1>0, <1>1, MapGrows DEF Inv
  <2>5. QED
    BY <1>0, <1>1, <2>1, <2>2, <2>3, <2>4 DEF Inv, Types
<1>5. ASSUME faults = 0, NEW g \in Friends \ {f} PROVE chat_map[g] # open'
  <2>1. CASE UNCHANGED open /\ open \in chats
    BY <1>0, <1>5, <2>1 DEF Inv, Apart, PageIsOwn
  <2>2. CASE open' = born + 1
    <3>1. born + 1 \notin {None} \cup 1..born
      BY <1>2 DEF None
    <3>2. QED
      BY <1>5, <2>2, <3>1 DEF Inv, Types
  <2>3. QED
    BY <1>1, <2>1, <2>2
<1>6. ChatsApart'
  <2>1. ASSUME faults = 0, NEW h \in Friends, NEW g \in Friends, h # g, chat_map[h] # None
        PROVE  chat_map[g] # chat_map[h] /\ g \notin spoke'[chat_map[h]]
    <3>1. chat_map[g] # chat_map[h] /\ g \notin spoke[chat_map[h]]
      BY <2>1 DEF Inv, Apart, ChatsApart
    <3>2. g = f => chat_map[h] # open'
      BY <1>5, <2>1
    <3>3. spoke'[chat_map[h]] = spoke[chat_map[h]]
            \/ (chat_map[h] = open' /\ spoke'[chat_map[h]] = spoke[chat_map[h]] \cup {f})
      BY <1>2, <1>3 DEF Inv, Types
    <3>4. QED
      BY <3>1, <3>2, <3>3
  <2>2. QED
    BY <1>0, <2>1 DEF ChatsApart
<1>7. PageIsOwn'
  BY <1>0, <1>5 DEF PageIsOwn
<1>8. Context'
  <2>1. ASSUME faults = 0, f \notin wiped
        PROVE  open' = chat_map[f] /\ last[f] \in {None, open'} /\ chat_map[f] \in chats
    <3>1. Continues(f)
      BY <1>0, <2>1 DEF Inv, Context
    <3>2. /\ chat_map[f] \in chats \cup {None} /\ last[f] \in {None, chat_map[f]}
          /\ open = chat_map[f] /\ open # None
      BY <1>0, <3>1 DEF Continues
    <3>3. QED
      BY <1>1, <3>2
  <2>2. ASSUME faults = 0, NEW g \in Friends \ wiped PROVE Continues(g)'
    <3>1. Continues(g)
      BY <2>2 DEF Inv, Context
    <3>2. CASE g = f
      <4>1. last'[g] = open'
        BY <1>0, <1>3, <3>2 DEF Inv, Types
      <4>2. open' # None
        BY <1>1 DEF None
      <4>3. QED
        BY <1>0, <1>1, <2>1, <2>2, <3>2, <4>1, <4>2 DEF Continues
    <3>3. CASE g # f
      <4>1. last'[g] = last[g]
        BY <1>0, <1>3, <3>3 DEF Inv, Types
      <4>2. QED
        BY <1>0, <1>1, <3>1, <3>3, <4>1 DEF Continues
    <3>4. QED
      BY <3>2, <3>3
  <2>3. faults = 0 => strayed' \subseteq wiped
    BY <1>3, <2>1 DEF Inv, Context
  <2>4. QED
    BY <1>0, <2>2, <2>3 DEF Context
<1>9. QED
  BY <1>4, <1>6, <1>7, <1>8 DEF Inv, Apart

LEMMA BypassStep == ASSUME Inv, Bypass PROVE Inv'
<1>0. /\ pc' \in {"type", "relay", "wait", "down"} /\ msg' \in Mail \cup {NoMail}
      /\ pc' \in {"type", "relay"} => msg' = msg
      /\ UNCHANGED <<inbox, chat_map, last, spoke, strayed>>
      /\ faults' = faults \/ faults' = faults + 1
      /\ born < MaxChats /\ born' = born + 1
      /\ chats' \subseteq chats \cup {born'} /\ open' \in {None} \cup chats'
      /\ faults' = 0 => open' \in {None, born'}
      /\ wiped' = Friends
  <2>1. CASE /\ open' \in {None} \cup (chats' \ chats)
             /\ \/ pc' \in {"type", "relay"} /\ UNCHANGED <<msg, waiting, faults>>
                \/ Answered
                \/ Dies
    <3>1. chats' \subseteq chats \cup {born'}
      BY DEF Bypass
    <3>2. open' \in {None, born'} /\ open' \in {None} \cup chats'
      BY <2>1, <3>1
    <3>3. QED
      BY <2>1, <3>1, <3>2 DEF Bypass, Answered, Dies, Fault, Inv, Types
  <2>2. CASE open' \in chats' /\ Fault /\ pc' \in {"type", "relay"} /\ UNCHANGED <<msg, waiting>>
    BY <2>2 DEF Bypass, Fault, Inv, Types
  <2>3. QED
    BY <2>1, <2>2 DEF Bypass
<1>1. /\ born' \in 0..MaxChats /\ born <= born' /\ born' \in 1..born'
      /\ born' \notin {None} \cup 1..born
  BY <1>0, Constants DEF Inv, Types, None
<1>2. chats' \subseteq 1..born' /\ open' \in {None} \cup 1..born'
  <2>1. chats \subseteq 1..born'
    BY <1>0, <1>1 DEF Inv, Types
  <2>2. QED
    BY <1>0, <1>1, <2>1
<1>3. Types'
  BY <1>0, <1>1, <1>2, MapGrows DEF Inv, Types
<1>4. faults' = 0 => faults = 0
  BY <1>0 DEF Inv, Types
<1>5. ChatsApart'
  BY <1>0, <1>4 DEF Inv, Apart, ChatsApart
<1>6. PageIsOwn'
  <2>1. ASSUME NEW g \in Friends, faults' = 0, open' \in chats' PROVE chat_map[g] # open'
    <3>1. None \notin chats'
      BY <1>2 DEF None
    <3>2. open' = born'
      BY <1>0, <2>1, <3>1
    <3>3. QED
      BY <1>1, <3>2 DEF Inv, Types
  <2>2. QED
    BY <1>0, <2>1 DEF PageIsOwn
<1>7. Context'
  BY <1>0, <1>3 DEF Types, Context
<1>8. QED
  BY <1>3, <1>5, <1>6, <1>7 DEF Inv, Apart

LEMMA InvStep == ASSUME Inv, [Next]_vars PROVE Inv'
<1>1. CASE Take
  BY <1>1, QuietTake, QuietStep
<1>2. CASE Tell \/ NotTyped \/ Relay \/ GroupTake \/ GroupMore
  BY <1>2, QuietLoop, QuietStep
<1>3. CASE NewCommand
  BY <1>3, NewCommandStep
<1>4. CASE CreateChat
  BY <1>4, CreateChatStep
<1>5. CASE Navigate
  BY <1>5, NavigateStep
<1>6. CASE Type
  BY <1>6, TypeStep
<1>7. CASE Bypass
  BY <1>7, BypassStep
<1>8. CASE GroupType
  BY <1>8, GroupTypeStep
<1>9. ASSUME NEW f \in Friends, NEW what \in {"text", "new", "release"}, on_message(f, what)
      PROVE  Inv'
  BY <1>9, QuietMail, QuietStep
<1>10. ASSUME NEW g \in Groups, NEW hasId \in BOOLEAN, on_group_message(g, hasId)
       PROVE  Inv'
  BY <1>10, QuietGroup, QuietStep
<1>11. CASE UNCHANGED vars
  BY <1>11 DEF vars, Inv, Types, Apart, ChatsApart, PageIsOwn, Context, Continues
<1>12. QED
  BY <1>1, <1>2, <1>3, <1>4, <1>5, <1>6, <1>7, <1>8, <1>9, <1>10, <1>11 DEF Next, Loop

LEMMA InvAlways == Spec => []Inv
<1>1. QED
  BY InvInit, InvStep, PTL DEF Spec

\* As long as no call failed, the chat that chat_map keeps for a friend has
\* nobody else's private messages, and is nobody else's.
THEOREM ChatsStayApart == Spec => []ChatsApart
<1>1. Inv => ChatsApart
  BY DEF Inv, Apart
<1>2. QED
  BY <1>1, InvAlways, PTL

\* As long as no call failed, the only friends whose messages ever leave the
\* chat they wrote to before are those whose chats a /new of someone else or a
\* usage limit deleted.
THEOREM ContextIsKept == Spec => []ContextKept
<1>1. Inv => ContextKept
  BY DEF Inv, Context, ContextKept
<1>2. QED
  BY <1>1, InvAlways, PTL

-----------------------------------------------------------------------------
(* Messages: each friend waits for as many answers as messages of theirs   *)
(* are in the queue or in hand.                                            *)

Of(q, f)  == {i \in DOMAIN q : q[i].from = f}
InHand(f) == IF msg # NoMail /\ msg.from = f THEN 1 ELSE 0

\* A bridge that has ended answers nobody: one message was in its hands.
Owed ==
  pc # "down" => \A f \in Friends : waiting[f] = Cardinality(Of(inbox, f)) + InHand(f)

Counters ==
  /\ mailed \in 0..MaxMail /\ groupMailed \in 0..MaxGroupMail
  /\ groupbox \in Seq(Groups)
  /\ waiting \in [Friends -> Nat] /\ \A f \in Friends : waiting[f] <= mailed

Places ==
  /\ pc \in {"wait", "handle", "create", "tell", "type", "relay", "group", "group next",
             "group more", "down"}
  /\ (msg = NoMail) = (pc \in {"wait", "group", "group next", "group more", "down"})

MailInv == Inv /\ Counters /\ Places /\ Owed

LEMMA OfIsFinite ==
  ASSUME NEW q \in Seq(Mail), NEW f
  PROVE  IsFiniteSet(Of(q, f)) /\ Cardinality(Of(q, f)) \in Nat
<1>1. IsFiniteSet(1..Len(q))
  BY FS_Interval
<1>2. Of(q, f) \in SUBSET (1..Len(q))
  BY DEF Of
<1>3. QED
  BY <1>1, <1>2, FS_Subset, FS_CardinalityType

\* A message that arrives is one more of its friend.
LEMMA OneMore ==
  ASSUME NEW q \in Seq(Mail), NEW m \in Mail, NEW f
  PROVE  Cardinality(Of(Append(q, m), f)) = Cardinality(Of(q, f)) + (IF m.from = f THEN 1 ELSE 0)
<1>1. Len(q) + 1 \notin Of(q, f)
  BY DEF Of
<1>2. Of(Append(q, m), f) = IF m.from = f THEN Of(q, f) \cup {Len(q) + 1} ELSE Of(q, f)
  <2> DEFINE more == Append(q, m)
  <2>1. /\ Len(q) \in Nat /\ DOMAIN q = 1..Len(q) /\ DOMAIN more = 1..(Len(q) + 1)
        /\ \A i \in 1..Len(q) : more[i] = q[i]
        /\ more[Len(q) + 1] = m
    BY AppendProperties
  <2> HIDE DEF more
  <2>2. DOMAIN more = DOMAIN q \cup {Len(q) + 1} /\ Len(q) + 1 \notin DOMAIN q
    BY <2>1
  <2>3. QED
    BY <2>1, <2>2 DEF Of
<1>3. IsFiniteSet(Of(q, f)) /\ Cardinality(Of(q, f)) \in Nat
  BY OfIsFinite
<1>4. Cardinality(Of(q, f) \cup {Len(q) + 1}) = Cardinality(Of(q, f)) + 1
  BY <1>1, <1>3, FS_AddElement
<1>5. CASE m.from = f
  BY <1>2, <1>4, <1>5
<1>6. CASE m.from # f
  BY <1>2, <1>3, <1>6
<1>7. QED
  BY <1>5, <1>6

\* One that is taken from the queue is one less.
LEMMA OneLess ==
  ASSUME NEW q \in Seq(Mail), q # <<>>, NEW f
  PROVE  Cardinality(Of(q, f)) = Cardinality(Of(Tail(q), f)) + (IF Head(q).from = f THEN 1 ELSE 0)
<1> DEFINE Rest  == Of(q, f) \ {1}
           Shift == [i \in Of(Tail(q), f) |-> i + 1]
<1>1. /\ Len(q) \in Nat \ {0} /\ Tail(q) \in Seq(Mail) /\ Head(q) = q[1]
      /\ DOMAIN Tail(q) = 1..(Len(q) - 1) /\ DOMAIN q = 1..Len(q)
      /\ \A i \in 1..(Len(q) - 1) : Tail(q)[i] = q[i + 1]
  BY HeadTailProperties, EmptySeq
<1>2. \A i \in Of(Tail(q), f) : i \in Int /\ i + 1 \in Rest
  BY <1>1 DEF Of
<1>3. \A j \in Rest : j \in Int /\ j - 1 \in Of(Tail(q), f)
  BY <1>1 DEF Of
<1>4. Shift \in Bijection(Of(Tail(q), f), Rest)
  <2>1. Shift \in [Of(Tail(q), f) -> Rest]
    BY <1>2
  <2>2. \A i, j \in Of(Tail(q), f) : Shift[i] = Shift[j] => i = j
    BY <1>2
  <2>3. \A j \in Rest : \E i \in Of(Tail(q), f) : Shift[i] = j
    <3>1. ASSUME NEW j \in Rest PROVE Shift[j - 1] = j /\ j - 1 \in Of(Tail(q), f)
      BY <1>3
    <3>2. QED
      BY <3>1
  <2> HIDE DEF Shift, Rest
  <2>4. QED
    BY <2>1, <2>2, <2>3 DEF Bijection, Injection, Surjection, IsInjective
<1>5. /\ IsFiniteSet(Of(q, f)) /\ Cardinality(Of(q, f)) \in Nat
      /\ IsFiniteSet(Of(Tail(q), f)) /\ Cardinality(Of(Tail(q), f)) \in Nat
  BY <1>1, OfIsFinite
<1>6. ExistsBijection(Of(Tail(q), f), Rest)
  BY <1>4 DEF ExistsBijection
<1> HIDE DEF Shift
<1>7. Cardinality(Rest) = Cardinality(Of(Tail(q), f))
  BY <1>5, <1>6, FS_Bijection
<1>8. 1 \in Of(q, f) <=> Head(q).from = f
  BY <1>1 DEF Of
<1>9. CASE 1 \in Of(q, f)
  <2>1. Cardinality(Rest) = Cardinality(Of(q, f)) - 1
    BY <1>5, <1>9, FS_RemoveElement
  <2>2. QED
    BY <1>5, <1>7, <1>8, <1>9, <2>1
<1>10. CASE 1 \notin Of(q, f)
  <2>1. Rest = Of(q, f)
    BY <1>10
  <2>2. Cardinality(Of(q, f)) = Cardinality(Of(Tail(q), f))
    BY <1>7, <2>1
  <2>3. Head(q).from # f
    BY <1>8, <1>10
  <2> HIDE DEF Rest
  <2>4. QED
    BY <1>5, <2>2, <2>3
<1>11. QED
  BY <1>9, <1>10

LEMMA MailInit == ASSUME Init PROVE MailInv
<1>1. ASSUME NEW f \in Friends PROVE waiting[f] = Cardinality(Of(inbox, f)) + InHand(f)
  <2>1. Of(inbox, f) = {}
    BY DEF Init, Of
  <2>2. Cardinality(Of(inbox, f)) = 0
    BY <2>1, FS_EmptySet
  <2>3. InHand(f) = 0 /\ waiting[f] = 0
    BY DEF Init, InHand
  <2>4. QED
    BY <2>2, <2>3
<1>2. Owed
  BY <1>1 DEF Owed
<1>3. QED
  BY <1>2, InvInit, BridgeAssumption DEF Init, MailInv, Counters, Places, NoMail

\* One message of f's is answered: f was waiting for it.
LEMMA HandsBusy ==
  ASSUME MailInv, msg # NoMail
  PROVE  /\ msg.from \in Friends /\ msg \in Mail /\ pc # "down"
         /\ waiting[msg.from] \in Nat \ {0}
<1>1. msg.from \in Friends /\ inbox \in Seq(Mail) /\ msg \in Mail
  BY Sender DEF MailInv, Inv, Types
<1>2. pc # "down"
  BY DEF MailInv, Places
<1>3. waiting[msg.from] = Cardinality(Of(inbox, msg.from)) + 1
  BY <1>1, <1>2 DEF MailInv, Owed, InHand
<1>4. Cardinality(Of(inbox, msg.from)) \in Nat
  BY <1>1, OfIsFinite
<1>5. QED
  BY <1>1, <1>2, <1>3, <1>4

LEMMA AnsweredStep ==
  ASSUME MailInv, msg # NoMail, Answered \/ Dies,
         UNCHANGED <<mailed, groupMailed, inbox, groupbox>>
  PROVE  Counters' /\ Places' /\ Owed'
<1>0. /\ msg.from \in Friends /\ waiting[msg.from] \in Nat \ {0}
      /\ pc # "down" /\ mailed \in Nat
      /\ waiting \in [Friends -> Nat] /\ \A f \in Friends : waiting[f] <= mailed
  BY HandsBusy DEF MailInv, Counters
<1>1. CASE Answered
  <2>1. waiting' = [waiting EXCEPT ![msg.from] = @ - 1] /\ msg' = NoMail /\ pc' = "wait"
    BY <1>1 DEF Answered
  <2>2. /\ waiting' \in [Friends -> Nat]
        /\ \A f \in Friends : waiting'[f] = IF f = msg.from THEN waiting[f] - 1 ELSE waiting[f]
    BY <1>0, <2>1
  <2>3. Counters'
    BY <1>0, <2>2 DEF MailInv, Counters
  <2>4. Places'
    BY <2>1 DEF Places
  <2>5. Owed'
    <3>1. ASSUME NEW f \in Friends PROVE waiting'[f] = Cardinality(Of(inbox, f)) + 0
      <4>1. waiting[f] = Cardinality(Of(inbox, f)) + InHand(f) /\ Cardinality(Of(inbox, f)) \in Nat
        BY <1>0, OfIsFinite DEF MailInv, Owed, Inv, Types
      <4>2. InHand(f) = IF f = msg.from THEN 1 ELSE 0
        BY DEF InHand
      <4>3. QED
        BY <2>2, <4>1, <4>2
    <3>2. \A f \in Friends : InHand(f)' = 0
      BY <2>1 DEF InHand
    <3>3. QED
      BY <3>1, <3>2 DEF Owed
  <2>6. QED
    BY <2>3, <2>4, <2>5
<1>2. CASE Dies
  BY <1>2 DEF Dies, MailInv, Counters, Places, Owed
<1>3. QED
  BY <1>1, <1>2

\* The loop goes on with the message it has, or with none.
LEMMA SameMail ==
  ASSUME MailInv, UNCHANGED <<mailed, groupMailed, inbox, msg, waiting>>,
         groupbox' \in Seq(Groups), Places', pc # "down"
  PROVE  Counters' /\ Owed'
BY DEF MailInv, Counters, Owed, InHand

LEMMA TakeMail == ASSUME MailInv, Take PROVE Counters' /\ Places' /\ Owed'
<1>1. /\ inbox \in Seq(Mail) /\ inbox # <<>> /\ msg = NoMail /\ pc # "down"
      /\ msg' = Head(inbox) /\ inbox' = Tail(inbox) /\ pc' = "handle"
      /\ UNCHANGED <<mailed, groupMailed, groupbox, waiting>>
  BY DEF MailInv, Inv, Types, Places, Take, aicq
<1>2. msg' \in Mail /\ msg' # NoMail
  <2>1. Head(inbox) \in Mail
    BY <1>1
  <2>2. NoMail \notin Mail
    BY DEF Mail, NoMail
  <2>3. QED
    BY <1>1, <2>1, <2>2
<1>3. Places' /\ Counters'
  <2>1. Places'
    BY <1>1, <1>2 DEF Places
  <2>2. Counters'
    BY <1>1 DEF MailInv, Counters
  <2>3. QED
    BY <2>1, <2>2
<1>4. ASSUME NEW f \in Friends PROVE waiting'[f] = Cardinality(Of(inbox', f)) + InHand(f)'
  <2>1. waiting[f] = Cardinality(Of(inbox, f)) + 0 /\ Cardinality(Of(inbox, f)) \in Nat
    BY <1>1, OfIsFinite DEF MailInv, Owed, InHand
  <2>2. InHand(f)' = IF Head(inbox).from = f THEN 1 ELSE 0
    BY <1>1, <1>2 DEF InHand
  <2>3. Cardinality(Of(inbox, f)) = Cardinality(Of(Tail(inbox), f)) + InHand(f)'
    BY <1>1, <2>2, OneLess
  <2>4. QED
    BY <1>1, <2>1, <2>3
<1>5. QED
  BY <1>3, <1>4 DEF Owed

LEMMA NewMail ==
  ASSUME MailInv, NEW f \in Friends, NEW what \in {"text", "new", "release"}, on_message(f, what)
  PROVE  Counters' /\ Places' /\ Owed'
<1> DEFINE m == [from |-> f, what |-> what]
<1>1. m \in Mail /\ m.from = f
  BY DEF Mail
<1>2. /\ inbox' = Append(inbox, m) /\ mailed < MaxMail /\ mailed' = mailed + 1
      /\ waiting' = [waiting EXCEPT ![f] = @ + 1]
      /\ UNCHANGED <<groupMailed, groupbox, msg, pc>>
  BY DEF on_message
<1>a. /\ inbox \in Seq(Mail)
      /\ mailed \in Nat /\ MaxMail \in Nat
      /\ waiting \in [Friends -> Nat] /\ \A g \in Friends : waiting[g] <= mailed
  BY BridgeAssumption DEF MailInv, Inv, Types, Counters
<1> HIDE DEF m
<1>3. /\ waiting' \in [Friends -> Nat]
      /\ \A g \in Friends : waiting'[g] = IF g = f THEN waiting[g] + 1 ELSE waiting[g]
  BY <1>2, <1>a
<1>4. Counters'
  BY <1>2, <1>a, <1>3 DEF MailInv, Counters
<1>5. Places'
  BY <1>2 DEF MailInv, Places
<1>6. ASSUME NEW g \in Friends, pc # "down" PROVE waiting'[g] = Cardinality(Of(inbox', g)) + InHand(g)'
  <2>1. /\ waiting[g] = Cardinality(Of(inbox, g)) + InHand(g)
        /\ Cardinality(Of(inbox, g)) \in Nat /\ InHand(g) \in Nat
    BY <1>a, <1>6, OfIsFinite DEF MailInv, Owed, InHand
  <2>2. Cardinality(Of(inbox', g)) = Cardinality(Of(inbox, g)) + (IF f = g THEN 1 ELSE 0)
    BY <1>1, <1>2, <1>a, OneMore
  <2>3. InHand(g)' = InHand(g)
    BY <1>2 DEF InHand
  <2>4. QED
    BY <1>a, <1>3, <2>1, <2>2, <2>3
<1>7. QED
  BY <1>2, <1>4, <1>5, <1>6 DEF Owed

LEMMA MailStep == ASSUME MailInv, [Next]_vars PROVE MailInv'
<1>0. Inv'
  BY InvStep DEF MailInv
<1>1. CASE Take
  BY <1>0, <1>1, TakeMail DEF MailInv
<1>2. CASE Tell \/ NotTyped \/ Relay
  <2>1. /\ msg # NoMail /\ (Answered \/ Dies)
        /\ UNCHANGED <<mailed, groupMailed, inbox, groupbox>>
    BY <1>2 DEF Tell, NotTyped, Relay, aicq, MailInv, Places
  <2>2. QED
    BY <1>0, <2>1, AnsweredStep DEF MailInv
<1>3. CASE Bypass
  <2>1. UNCHANGED <<mailed, groupMailed, inbox, groupbox>> /\ msg # NoMail /\ pc = "relay"
    BY <1>3 DEF Bypass, aicq, MailInv, Places
  <2>2. CASE Answered \/ Dies
    BY <1>0, <2>1, <2>2, AnsweredStep DEF MailInv
  <2>3. CASE pc' \in {"type", "relay"} /\ UNCHANGED <<msg, waiting>>
    <3>1. msg' # NoMail
      BY <2>1, <2>3
    <3>2. Places'
      <4>1. CASE pc' = "type"
        BY <3>1, <4>1 DEF Places
      <4>2. CASE pc' = "relay"
        BY <3>1, <4>2 DEF Places
      <4>3. QED
        BY <2>3, <4>1, <4>2
    <3>3. QED
      BY <1>0, <2>1, <2>3, <3>2, SameMail DEF MailInv, Counters
  <2>4. QED
    BY <1>3, <2>2, <2>3 DEF Bypass
<1>4. CASE NewCommand \/ CreateChat \/ Navigate \/ Type
  <2>1. /\ UNCHANGED <<mailed, groupMailed, inbox, groupbox, msg, waiting>>
        /\ pc \in {"handle", "create", "type"} /\ pc' \in {"create", "tell", "type", "relay"}
    BY <1>4 DEF NewCommand, CreateChat, Navigate, Type, aicq
  <2>2. msg # NoMail
    BY <2>1 DEF MailInv, Places
  <2>3. msg' # NoMail
    BY <2>1, <2>2
  <2>4. Places'
    <3>1. CASE pc' = "create"
      BY <2>3, <3>1 DEF Places
    <3>2. CASE pc' = "tell"
      BY <2>3, <3>2 DEF Places
    <3>3. CASE pc' = "type"
      BY <2>3, <3>3 DEF Places
    <3>4. CASE pc' = "relay"
      BY <2>3, <3>4 DEF Places
    <3>5. QED
      BY <2>1, <3>1, <3>2, <3>3, <3>4
  <2>5. QED
    BY <1>0, <2>1, <2>4, SameMail DEF MailInv, Counters
<1>5. CASE GroupTake \/ GroupType \/ GroupMore
  <2>1. /\ UNCHANGED <<mailed, groupMailed, inbox, msg, waiting>>
        /\ groupbox' \in {groupbox, Tail(groupbox)} /\ (groupbox' = groupbox \/ groupbox # <<>>)
        /\ pc \in {"wait", "group", "group next", "group more"}
        /\ pc' \in {"wait", "group", "group next", "group more"}
    BY <1>5 DEF GroupTake, GroupType, GroupMore, aicq
  <2>2. Places'
    BY <2>1 DEF MailInv, Places
  <2>3. groupbox' \in Seq(Groups)
    <3>1. groupbox \in Seq(Groups)
      BY DEF MailInv, Counters
    <3>2. groupbox # <<>> => Tail(groupbox) \in Seq(Groups)
      BY <3>1
    <3>3. QED
      BY <2>1, <3>1, <3>2
  <2>4. QED
    BY <1>0, <2>1, <2>2, <2>3, SameMail DEF MailInv
<1>6. ASSUME NEW f \in Friends, NEW what \in {"text", "new", "release"}, on_message(f, what)
      PROVE  MailInv'
  BY <1>0, <1>6, NewMail DEF MailInv
<1>7. ASSUME NEW g \in Groups, NEW hasId \in BOOLEAN, on_group_message(g, hasId)
      PROVE  MailInv'
  <2>1. /\ groupMailed < MaxGroupMail /\ groupMailed' = groupMailed + 1
        /\ groupbox' \in {groupbox, Append(groupbox, g)}
        /\ UNCHANGED <<mailed, inbox, msg, waiting, pc>>
    BY <1>7 DEF on_group_message
  <2>2. groupbox' \in Seq(Groups) /\ groupMailed' \in 0..MaxGroupMail
    BY <2>1, BridgeAssumption DEF MailInv, Counters
  <2>3. Counters' /\ Places' /\ Owed'
    BY <2>1, <2>2 DEF MailInv, Counters, Places, Owed, InHand
  <2>4. QED
    BY <1>0, <2>3 DEF MailInv
<1>8. CASE UNCHANGED vars
  BY <1>0, <1>8 DEF vars, MailInv, Counters, Places, Owed, InHand
<1>9. QED
  BY <1>1, <1>2, <1>3, <1>4, <1>5, <1>6, <1>7, <1>8 DEF Next, Loop

LEMMA MailAlways == Spec => []MailInv
<1>1. QED
  BY MailInit, MailStep, PTL DEF Spec

\* Every variable stays in its type: so no friend ever waits for fewer than no
\* answers, or for more than they sent messages.
THEOREM TypeCorrect == Spec => []TypeOK
<1>1. ASSUME MailInv PROVE TypeOK
  <2>1. born \in 0..MaxChats /\ 1..born \subseteq Chat
    BY <1>1, Constants DEF MailInv, Inv, Types, Chat
  <2>2. chat_map \in [Friends -> Chat \cup {None}]
    BY <1>1, <2>1 DEF MailInv, Inv, Types
  <2>3. waiting \in [Friends -> 0..MaxMail]
    BY <1>1, BridgeAssumption DEF MailInv, Counters
  <2>4. QED
    BY <1>1, <2>1, <2>2, <2>3 DEF MailInv, Inv, Types, Counters, Places, TypeOK
<1>2. QED
  BY <1>1, MailAlways, PTL

\* As long as the bridge runs, a friend waits for exactly as many answers as
\* there are messages of theirs in message_queue and in the loop's hands: no
\* path through the loop answers a message twice or loses one.
THEOREM EveryMessageIsOwed == Spec => []Owed
<1>1. MailInv => Owed
  BY DEF MailInv
<1>2. QED
  BY <1>1, MailAlways, PTL

-----------------------------------------------------------------------------
(* The loop implements the mailbox.                                        *)

\* With a message before it, a queue has that one at its head.
LEMMA InFront ==
  ASSUME NEW S, NEW x \in S, NEW q \in Seq(S)
  PROVE  /\ <<x>> \o q # <<>> /\ Tail(<<x>> \o q) = q
         /\ \A y \in S : <<x>> \o Append(q, y) = Append(<<x>> \o q, y)
  OBVIOUS

LEMMA AloneInQueue ==
  ASSUME NEW S, NEW q \in Seq(S)
  PROVE  /\ <<>> \o q = q
         /\ q # <<>> => <<Head(q)>> \o Tail(q) = q
  OBVIOUS

LEMMA PendingIsQueue ==
  ASSUME MailInv
  PROVE  /\ inbox \in Seq(Mail) /\ NoMail \notin Mail
         /\ msg = NoMail => Pending = inbox
         /\ msg # NoMail => msg \in Mail /\ pc # "down" /\ Pending = <<msg>> \o inbox
<1>1. inbox \in Seq(Mail) /\ msg \in Mail \cup {NoMail}
  BY DEF MailInv, Inv, Types
<1>2. NoMail \notin Mail
  BY DEF Mail, NoMail
<1>3. msg # NoMail => pc # "down"
  BY DEF MailInv, Places
<1>4. QED
  BY <1>1, <1>2, <1>3, AloneInQueue DEF Pending

LEMMA InOrderStep ==
  ASSUME MailInv, [Next]_vars
  PROVE  [Box!Next]_<<Pending, pc # "down">>
<1>1. ASSUME msg # NoMail, Answered \/ Dies, UNCHANGED inbox PROVE Box!Next
  <2>1. msg' = NoMail /\ pc' = (IF Answered THEN "wait" ELSE "down") /\ Pending' = inbox
    <3>1. msg' = NoMail /\ (Answered => pc' = "wait") /\ (Dies => pc' = "down")
      BY <1>1 DEF Answered, Dies
    <3>2. Pending' = <<>> \o inbox
      BY <1>1, <3>1 DEF Pending
    <3>3. QED
      BY <1>1, <3>1, <3>2, PendingIsQueue, AloneInQueue
  <2>2. Pending # <<>> /\ Tail(Pending) = inbox /\ pc # "down"
    BY <1>1, PendingIsQueue, InFront
  <2>3. QED
    BY <2>1, <2>2 DEF Box!Next, Box!Answered, Box!Ends
<1>2. ASSUME UNCHANGED <<inbox, msg>>, pc # "down", pc' # "down"
      PROVE  UNCHANGED <<Pending, pc # "down">>
  BY <1>2 DEF Pending
<1>3. CASE Take
  <2>1. /\ inbox # <<>> /\ msg = NoMail /\ pc = "wait" /\ pc' = "handle"
        /\ msg' = Head(inbox) /\ inbox' = Tail(inbox)
    BY <1>3 DEF Take, MailInv, Places
  <2>2. inbox \in Seq(Mail) /\ Head(inbox) \in Mail /\ NoMail \notin Mail
    BY <2>1, PendingIsQueue
  <2>3. Pending' = <<Head(inbox)>> \o Tail(inbox)
    BY <2>1, <2>2 DEF Pending
  <2>4. Pending' = Pending
    BY <2>1, <2>2, <2>3, PendingIsQueue, AloneInQueue
  <2>5. QED
    BY <2>1, <2>4
<1>4. CASE Tell \/ NotTyped \/ Relay
  <2>1. msg # NoMail /\ (Answered \/ Dies) /\ UNCHANGED inbox
    BY <1>4 DEF Tell, NotTyped, Relay, MailInv, Places
  <2>2. QED
    BY <1>1, <2>1
<1>5. CASE Bypass
  <2>1. UNCHANGED inbox /\ msg # NoMail /\ pc = "relay"
    BY <1>5 DEF Bypass, MailInv, Places
  <2>2. CASE Answered \/ Dies
    BY <1>1, <2>1, <2>2
  <2>3. CASE pc' \in {"type", "relay"} /\ UNCHANGED msg
    BY <1>2, <2>1, <2>3
  <2>4. QED
    BY <1>5, <2>2, <2>3 DEF Bypass
<1>6. CASE NewCommand \/ CreateChat \/ Navigate \/ Type \/ GroupTake \/ GroupType \/ GroupMore
  <2>1. UNCHANGED <<inbox, msg>> /\ pc # "down" /\ pc' # "down"
    BY <1>6 DEF NewCommand, CreateChat, Navigate, Type, GroupTake, GroupType, GroupMore
  <2>2. QED
    BY <1>2, <2>1
<1>7. ASSUME NEW f \in Friends, NEW what \in {"text", "new", "release"}, on_message(f, what)
      PROVE  Box!Next
  <2> DEFINE m == [from |-> f, what |-> what]
  <2>1. m \in Mail
    BY DEF Mail
  <2>2. inbox' = Append(inbox, m) /\ UNCHANGED <<msg, pc>> /\ pc # "down" /\ msg = NoMail
    BY <1>7 DEF on_message, MailInv, Places
  <2> HIDE DEF m
  <2>3. inbox' \in Seq(Mail) /\ inbox \in Seq(Mail)
    BY <2>1, <2>2, PendingIsQueue
  <2>4. Pending = inbox /\ Pending' = inbox'
    BY <2>2, <2>3, AloneInQueue DEF Pending
  <2>5. QED
    BY <2>1, <2>2, <2>4 DEF Box!Next, Box!Arrives
<1>8. ASSUME NEW g \in Groups, NEW hasId \in BOOLEAN, on_group_message(g, hasId)
      PROVE  UNCHANGED <<Pending, pc # "down">>
  <2>1. UNCHANGED <<inbox, msg, pc>> /\ pc # "down"
    BY <1>8 DEF on_group_message
  <2>2. QED
    BY <1>2, <2>1
<1>9. CASE UNCHANGED vars
  BY <1>9 DEF vars, Pending
<1>10. QED
  BY <1>3, <1>4, <1>5, <1>6, <1>7, <1>8, <1>9 DEF Next, Loop

\* For any number of friends and messages: the loop is a mailbox that answers
\* messages one at a time, in the order they came and each once, until it ends.
THEOREM MessagesInOrder == Spec => InOrder
<1>1. Init => Box!Init
  <2>1. SUFFICES ASSUME Init PROVE Box!Init
    OBVIOUS
  <2>2. Pending = <<>> /\ pc # "down"
    BY <2>1 DEF Init, Pending
  <2>3. QED
    BY <2>2 DEF Box!Init
<1>2. QED
  BY <1>1, InOrderStep, MailAlways, PTL DEF Spec, InOrder, Box!Spec

-----------------------------------------------------------------------------
(* AutoStream: the difference that is sent is the one that is missing.     *)

\* A text that begins with what was sent is that, followed by the rest of it.
LEMMA RestCompletes ==
  ASSUME NEW S, NEW s \in Seq(S), NEW t \in Seq(S), s = <<>> \/ IsPrefix(s, t)
  PROVE  s \o SubSeq(t, Len(s) + 1, Len(t)) = t
<1>1. Len(s) <= Len(t) /\ \A i \in 1..Len(s) : s[i] = t[i]
  <2>1. CASE s = <<>>
    BY <2>1
  <2>2. CASE IsPrefix(s, t)
    <3>1. Len(s) <= Len(t) /\ SubSeq(s, 1, Len(s)) = SubSeq(t, 1, Len(s))
      BY <2>2 DEF IsPrefix
    <3>2. QED
      BY <3>1, SubSeqProperties
  <2>3. QED
    BY <2>1, <2>2
<1>2. QED
  BY <1>1

Piece == Nat \X Nat

AutoTypes ==
  /\ answer \in [rev : 0..2, len : Nat]
  /\ sent \in Seq(Piece)
  /\ raises \in Nat

AutoInv == AutoTypes /\ AutoScreen

LEMMA TextIsText ==
  ASSUME NEW m \in [rev : 0..2, len : Nat]
  PROVE  Text(m) \in Seq(Piece)
<1>1. m.rev \in Nat /\ m.len \in Nat
  OBVIOUS
<1>2. \A i \in 1..m.len : <<m.rev, i>> \in Piece
  BY <1>1 DEF Piece
<1>3. QED
  BY <1>1, <1>2 DEF Text

LEMMA ResultIsText ==
  ASSUME AutoTypes, NEW text \in Results
  PROVE  text \in Seq(Piece)
<1>1. [rev |-> 0, len |-> LongestText] \in [rev : 0..2, len : Nat]
  BY AutoAssumption
<1>2. Before \in Seq(Piece)
  BY <1>1, TextIsText DEF Before
<1>3. Text(answer) \in Seq(Piece)
  BY TextIsText DEF AutoTypes
<1>4. <<>> \in Seq(Piece)
  OBVIOUS
<1>5. QED
  BY <1>2, <1>3, <1>4 DEF Results

LEMMA NewIsShown == ASSUME AutoInv, LookNew PROVE AutoInv'
<1>1. PICK text \in Results : Streams(text) /\ sent' = text
  BY DEF LookNew
<1>2. text \in Seq(Piece) /\ sent \in Seq(Piece) /\ raises \in Nat
  BY ResultIsText DEF AutoInv, AutoTypes
<1>3. raises' = raises \/ raises' = raises + 1
  BY <1>1 DEF Streams, RaisesNow
<1>4. AutoTypes'
  BY <1>1, <1>2, <1>3 DEF LookNew, AutoInv, AutoTypes
<1>5. ASSUME raises' = 0 PROVE screen' = text
  <2>1. raises = 0 /\ screen = sent
    BY <1>2, <1>3, <1>5 DEF AutoInv, AutoScreen
  <2>2. screen' = IF sent = <<>> \/ IsPrefix(sent, text)
                  THEN screen \o SubSeq(text, Len(sent) + 1, Len(text)) ELSE text
    BY <1>1, <1>5, <2>1 DEF Streams, RaisesNow
  <2>3. CASE sent = <<>> \/ IsPrefix(sent, text)
    <3>1. sent \o SubSeq(text, Len(sent) + 1, Len(text)) = text
      BY <1>2, <2>3, RestCompletes
    <3>2. QED
      BY <2>1, <2>2, <2>3, <3>1
  <2>4. CASE ~(sent = <<>> \/ IsPrefix(sent, text))
    BY <2>2, <2>4
  <2>5. QED
    BY <2>3, <2>4
<1>6. QED
  BY <1>1, <1>4, <1>5 DEF AutoInv, AutoScreen

LEMMA AutoStepInv == ASSUME AutoInv, [AutoNext]_autoVars PROVE AutoInv'
<1>1. CASE LookNew
  BY <1>1, NewIsShown
<1>2. CASE LookSame \/ LookShort \/ LookMisses \/ After
  <2>1. UNCHANGED <<answer, sent, screen>> /\ raises' \in {raises, raises + 1}
    BY <1>2 DEF LookSame, LookShort, LookMisses, After, NextCycle, Breaks, Ends, RaisesNow
  <2>2. QED
    BY <2>1 DEF AutoInv, AutoTypes, AutoScreen
<1>3. CASE WritesOn
  <2>1. UNCHANGED <<sent, screen, raises>> /\ answer' \in [rev : 0..2, len : Nat]
    <3>1. answer.len + 1 \in Nat
      BY DEF AutoInv, AutoTypes
    <3>2. [answer EXCEPT !.len = @ + 1] \in [rev : 0..2, len : Nat]
      BY <3>1 DEF AutoInv, AutoTypes
    <3>3. QED
      BY <1>3, <3>2 DEF WritesOn
  <2>2. QED
    BY <2>1 DEF AutoInv, AutoTypes, AutoScreen
<1>4. CASE UNCHANGED autoVars
  BY <1>4 DEF autoVars, AutoInv, AutoTypes, AutoScreen
<1>5. QED
  BY <1>1, <1>2, <1>3, <1>4 DEF AutoNext, AutoStep

\* While no call of the AICQ core raised, the friend's screen shows what the
\* bridge takes it to show, for texts and cycles of any number.
THEOREM AutoScreenFollows == AutoSpec => []AutoScreen
<1>1. AutoInit => AutoInv
  <2>1. 0..LongestText \subseteq Nat
    BY AutoAssumption
  <2>2. <<>> \in Seq(Piece)
    OBVIOUS
  <2>3. QED
    BY <2>1, <2>2 DEF AutoInit, AutoInv, AutoTypes, AutoScreen
<1>2. AutoInv => AutoScreen
  BY DEF AutoInv
<1>3. QED
  BY <1>1, <1>2, AutoStepInv, PTL DEF AutoSpec

=============================================================================
