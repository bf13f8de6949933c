------------------------- MODULE AnswerStream_proof -------------------------
(***************************************************************************)
(* Proofs about AnswerStream, for any answers of any length, any number of *)
(* polls and any thresholds.                                               *)
(***************************************************************************)
EXTENDS AnswerStream, SequenceTheorems, TLAPS

(* Sequences: what a prefix lacks, and suffixes as the ends of a sequence. *)

LEMMA PrefixCompleted ==
  ASSUME NEW S, NEW s \in Seq(S), NEW t \in Seq(S), IsPrefix(s, t)
  PROVE  /\ SubSeq(t, Len(s) + 1, Len(t)) \in Seq(S)
         /\ s \o SubSeq(t, Len(s) + 1, Len(t)) = t
<1>1. Len(s) \in Nat /\ Len(t) \in Nat /\ Len(s) <= Len(t)
  BY DEF IsPrefix
<1>2. SubSeq(t, Len(s) + 1, Len(t)) \in Seq(S)
  BY <1>1
<1>3. s = SubSeq(t, 1, Len(s))
  BY SubSeqFull DEF IsPrefix
<1>4. SubSeq(t, 1, Len(s)) \o SubSeq(t, Len(s) + 1, Len(t)) = SubSeq(t, 1, Len(t))
  <2>1. /\ 1 \in 1..Len(t) + 1 /\ Len(s) \in 1 - 1..Len(t) /\ Len(t) \in Len(s)..Len(t)
    BY <1>1
  <2>2. QED
    BY <2>1, ConcatAdjacentSubSeq
<1>5. SubSeq(t, 1, Len(t)) = t
  BY SubSeqFull
<1>6. QED
  BY <1>2, <1>3, <1>4, <1>5

LEMMA Associative ==
  ASSUME NEW S
  PROVE  \A s, t, u \in Seq(S) : (s \o t) \o u = s \o (t \o u)
<1>1. ASSUME NEW s \in Seq(S), NEW t \in Seq(S), NEW u \in Seq(S)
      PROVE  (s \o t) \o u = s \o (t \o u)
  BY ConcatAssociative
<1>2. QED
  BY <1>1

LEMMA EndIsSuffix ==
  ASSUME NEW S, NEW x \in Seq(S), NEW s \in Seq(S)
  PROVE  IsSuffix(s, x \o s)
<1> DEFINE t == x \o s
<1>1. /\ Len(x) \in Nat /\ Len(s) \in Nat
      /\ t \in Seq(S) /\ Len(t) = Len(x) + Len(s)
      /\ \A i \in 1..Len(s) : t[Len(x) + i] = s[i]
  BY ConcatProperties
<1> HIDE DEF t
<1> DEFINE rs == Reverse(s)
           rt == Reverse(t)
<1>2. rs \in Seq(S) /\ Len(rs) = Len(s) /\ \A i \in 1..Len(s) : rs[i] = s[(Len(s) - i) + 1]
  BY <1>1 DEF Reverse
<1>3. rt \in Seq(S) /\ Len(rt) = Len(t) /\ \A i \in 1..Len(t) : rt[i] = t[(Len(t) - i) + 1]
  BY <1>1 DEF Reverse
<1>4. ASSUME NEW i \in 1..Len(s) PROVE rs[i] = rt[i]
  <2>1. /\ (Len(s) - i) + 1 \in 1..Len(s) /\ i \in 1..Len(t)
        /\ (Len(t) - i) + 1 = Len(x) + ((Len(s) - i) + 1)
    BY <1>1
  <2>2. t[Len(x) + ((Len(s) - i) + 1)] = s[(Len(s) - i) + 1]
    BY <1>1, <2>1
  <2>3. QED
    BY <1>2, <1>3, <2>1, <2>2
<1> HIDE DEF rs, rt
<1>5. SubSeq(rs, 1, Len(rs)) = SubSeq(rt, 1, Len(rs))
  <2>1. Len(rs) <= Len(rt) /\ Len(rs) \in Nat /\ Len(rt) \in Nat
    BY <1>1, <1>2, <1>3
  <2>2. \A i \in 1..Len(rs) : rs[i] = rt[i]
    BY <1>2, <1>4
  <2>3. QED
    BY <1>2, <1>3, <2>1, <2>2
<1>6. Len(rs) <= Len(rt)
  BY <1>1, <1>2, <1>3
<1>7. QED
  BY <1>5, <1>6 DEF IsSuffix, IsPrefix, rs, rt, t

LEMMA SuffixIsEnd ==
  ASSUME NEW S, NEW s \in Seq(S), NEW t \in Seq(S), IsSuffix(s, t)
  PROVE  \E x \in Seq(S) : t = x \o s
<1> DEFINE rs == Reverse(s)
           rt == Reverse(t)
           x == SubSeq(t, 1, Len(t) - Len(s))
<1>1. Len(s) \in Nat /\ Len(t) \in Nat
  OBVIOUS
<1>2. rs \in Seq(S) /\ Len(rs) = Len(s) /\ \A i \in 1..Len(s) : rs[i] = s[(Len(s) - i) + 1]
  BY <1>1 DEF Reverse
<1>3. rt \in Seq(S) /\ Len(rt) = Len(t) /\ \A i \in 1..Len(t) : rt[i] = t[(Len(t) - i) + 1]
  BY <1>1 DEF Reverse
<1>4. Len(rs) <= Len(rt) /\ SubSeq(rs, 1, Len(rs)) = SubSeq(rt, 1, Len(rs))
  BY DEF IsSuffix, IsPrefix
<1> HIDE DEF rs, rt
<1>5. \A i \in 1..Len(s) : rs[i] = rt[i]
  <2>1. \A i \in 1..Len(rs) : SubSeq(rs, 1, Len(rs))[i] = rs[i] /\ SubSeq(rt, 1, Len(rs))[i] = rt[i]
    BY <1>1, <1>2, <1>3, <1>4
  <2>2. QED
    BY <1>2, <1>4, <2>1
<1>6. /\ x \in Seq(S) /\ Len(x) = Len(t) - Len(s)
      /\ \A i \in 1..Len(x) : x[i] = t[i]
  BY <1>1, <1>2, <1>3, <1>4
<1> HIDE DEF x
<1>7. x \o s \in Seq(S) /\ Len(x \o s) = Len(t)
  BY <1>1, <1>6
<1>8. ASSUME NEW i \in 1..Len(t) PROVE (x \o s)[i] = t[i]
  <2>1. CASE i <= Len(x)
    BY <1>1, <1>6, <2>1, ConcatProperties
  <2>2. CASE i > Len(x)
    <3>1. /\ (Len(t) - i) + 1 \in 1..Len(s)
          /\ (Len(s) - ((Len(t) - i) + 1)) + 1 = i - Len(x)
          /\ (Len(t) - i) + 1 \in 1..Len(t)
          /\ (Len(t) - ((Len(t) - i) + 1)) + 1 = i
      BY <1>1, <1>2, <1>3, <1>4, <1>6, <2>2
    <3>2. s[i - Len(x)] = t[i]
      BY <1>2, <1>3, <1>5, <3>1, ZenonT(30)
    <3>3. (x \o s)[i] = s[i - Len(x)]
      BY <1>1, <1>6, <2>2
    <3>4. QED
      BY <3>2, <3>3
  <2>3. QED
    BY <1>1, <1>6, <2>1, <2>2
<1>9. QED
  BY <1>6, <1>7, <1>8, SeqEqual

-----------------------------------------------------------------------------
(* Types. *)

Places == {"type", "baseline", "fetch", "cancel", "read", "stream", "refuse", "release",
           "bypass", "final", "done", "down"}

\* Where the loop's body is: it has a poll to make.
Body == {"fetch", "cancel", "read", "stream", "refuse", "release", "bypass"}

PollsLeft ==
  /\ pc \in Body \/ (pc = "type" /\ back # "first") => poll < MaxPolls
  /\ pc = "baseline" \/ (pc = "type" /\ back = "first") => poll = 0
  /\ pc \in {"release", "bypass"} => back # "first"

Types == TypeOK /\ PollsLeft

LEMMA Constants ==
  /\ Kinds \subseteq AllKinds
  /\ OldAnswers \in Nat /\ Nested \in Nat /\ HashLen \in Nat
  /\ StablePolls \in Nat \ {0} /\ MaxPolls \in Nat /\ MaxTries \in Nat
  /\ MaxSends \in Nat /\ MaxLen \in Nat \ {0} /\ MaxFails \in Nat
  BY AnswerAssumption

LEMMA OldType == Old \in Message
<1>1. 0 \in 0..MaxSends /\ 1 \in 0..MaxLen
  BY Constants
<1>2. QED
  BY <1>1 DEF Old, Message, AllKinds

LEMMA NoticeType == Notice \in Seq(Piece)
<1>1. -1 \in -1..MaxSends /\ 1 \in 1..MaxLen
  BY Constants
<1>2. [of |-> -1, kind |-> "answer", as |-> "md", rev |-> 0, at |-> 1] \in Piece
  BY <1>1 DEF Piece, AllKinds
<1>3. QED
  BY <1>2 DEF Notice

LEMMA RenderedType ==
  ASSUME NEW m \in Message, NEW as \in {"md", "html"}
  PROVE  Rendered(m, as) \in Seq(Piece)
<1>1. m.of \in -1..MaxSends /\ m.kind \in AllKinds /\ m.rev \in {0, 1} /\ m.len \in 0..MaxLen
  <2>1. m.of \in 0..MaxSends
    BY DEF Message
  <2>2. QED
    BY <2>1, Constants DEF Message
<1>2. ASSUME NEW i \in 1..m.len
      PROVE  [of |-> m.of, kind |-> m.kind, as |-> as, rev |-> m.rev, at |-> i] \in Piece
  <2>1. i \in 1..MaxLen
    BY <1>1, Constants
  <2>2. QED
    BY <1>1, <2>1 DEF Piece
<1>3. m.len \in Nat
  BY <1>1, Constants
<1>4. Rendered(m, as) \in [1..m.len -> Piece]
  BY <1>2 DEF Rendered
<1>5. [1..m.len -> Piece] \subseteq Seq(Piece)
  BY <1>3
<1>6. QED
  BY <1>4, <1>5

LEMMA HashType == ASSUME NEW m \in Message PROVE Hash(m) \in Seq(Piece)
<1> DEFINE n == IF m.len < HashLen THEN m.len ELSE HashLen
<1>1. m.len \in 0..MaxLen
  BY DEF Message
<1>2. n \in 0..MaxLen
  BY <1>1, Constants
<1> HIDE DEF n
<1>3. [m EXCEPT !.len = n] \in Message
  BY <1>2 DEF Message
<1>4. Hash(m) = Rendered([m EXCEPT !.len = n], "md")
  BY DEF Hash, n
<1>5. QED
  BY <1>3, <1>4, RenderedType

LEMMA LastType ==
  ASSUME Types, page # <<>>
  PROVE  Last(page) \in Message /\ Len(page) \in Nat \ {0}
BY DEF Types, TypeOK, Last

LEMMA RaisedType == ASSUME Types, Raises PROVE fails' \in 0..MaxFails
<1>1. fails \in 0..MaxFails /\ MaxFails \in Nat
  BY Constants DEF Types, TypeOK
<1>2. QED
  BY <1>1 DEF Raises

LEMMA SayTypes ==
  ASSUME Types, NEW text \in Seq(Piece), NEW place \in Places, SayAndEnd(text, place)
  PROVE  /\ shown' \in Seq(Piece) /\ ended' \in Nat /\ told' \in BOOLEAN
         /\ fails' \in 0..MaxFails
         /\ pc' \in {"done", place}
<1>1. shown \o text \in Seq(Piece)
  BY DEF Types, TypeOK
<1>2. fails' \in 0..MaxFails
  BY RaisedType DEF SayAndEnd, Types, TypeOK
<1>3. ended' \in Nat
  BY DEF SayAndEnd, Types, TypeOK
<1>4. QED
  BY <1>1, <1>2, <1>3 DEF SayAndEnd, Types, TypeOK

LEMMA NextPollTypes ==
  ASSUME Types, poll < MaxPolls, NextPoll
  PROVE  /\ poll' \in 0..MaxPolls
         /\ pc' \in {"fetch", "final"}
         /\ pc' = "fetch" => poll' < MaxPolls
BY Constants DEF NextPoll, Types, TypeOK

LEMMA PushTypes ==
  ASSUME Types, Push(current)
  PROVE  /\ shown' \in Seq(Piece) /\ ended' \in Nat /\ told' \in BOOLEAN
         /\ fails' \in 0..MaxFails
<1>1. fails' \in 0..MaxFails
  BY RaisedType DEF Push, Types, TypeOK
<1>2. SubSeq(current, Len(last_sent) + 1, Len(current)) \in Seq(Piece)
  BY DEF Types, TypeOK
<1>3. shown \o SubSeq(current, Len(last_sent) + 1, Len(current)) \in Seq(Piece)
  BY <1>2 DEF Types, TypeOK
<1>4. shown \in Seq(Piece) /\ current \in Seq(Piece) /\ <<>> \in Seq(Piece)
  BY DEF Types, TypeOK
<1>5. shown' \in {shown, current, <<>>, shown \o SubSeq(current, Len(last_sent) + 1, Len(current))}
  BY DEF Push
<1>6. QED
  BY <1>1, <1>3, <1>4, <1>5 DEF Push, Types, TypeOK

LEMMA TypesInit == ASSUME Init PROVE Types
<1>1. page \in Seq(Message)
  <2>1. page \in [1..OldAnswers -> Message]
    BY OldType DEF Init
  <2>2. QED
    BY <2>1, Constants
<1>2. 0 \in 0..MaxSends /\ 0 \in 0..MaxTries /\ 0 \in 0..MaxPolls /\ 0 \in 0..MaxFails
  BY Constants
<1>3. <<>> \in Seq(Piece)
  OBVIOUS
<1>4. TypeOK
  BY <1>1, <1>2, <1>3 DEF Init, TypeOK, Sending
<1>5. PollsLeft
  BY DEF Init, PollsLeft, Body
<1>6. QED
  BY <1>4, <1>5 DEF Types

LEMMA TypesZai == ASSUME Types, Zai PROVE Types'
<1> USE DEF local, base, aicq
<1>1. CASE Answer
  <2>1. PICK k \in Kinds :
          LET m == [of |-> accepted, kind |-> k, rev |-> 0, len |-> IF k = "answer" THEN 0 ELSE 1]
          IN \/ page' = Append(page, m)
             \/ page # <<>> /\ page' = [page EXCEPT ![Len(page)] = m]
    BY <1>1 DEF Answer
  <2> DEFINE m == [of |-> accepted, kind |-> k, rev |-> 0, len |-> IF k = "answer" THEN 0 ELSE 1]
  <2>2. m \in Message
    <3>1. 0 \in 0..MaxLen /\ 1 \in 0..MaxLen /\ k \in AllKinds
      BY Constants
    <3>2. QED
      BY <3>1 DEF Message, Types, TypeOK
  <2>3. page' = Append(page, m) \/ (page # <<>> /\ page' = [page EXCEPT ![Len(page)] = m])
    BY <2>1
  <2> HIDE DEF m
  <2>4. page \in Seq(Message)
    BY DEF Types, TypeOK
  <2>5. page' \in Seq(Message)
    BY <2>2, <2>3, <2>4
  <2>6. QED
    BY <1>1, <2>5 DEF Zai, Answer, Types, TypeOK, PollsLeft
<1>2. CASE Write
  <2>1. Last(page) \in Message /\ Len(page) \in Nat \ {0} /\ Last(page) = page[Len(page)]
    BY <1>2, LastType DEF Write, Last
  <2> DEFINE last == page[Len(page)]
  <2>2. \E m \in Message : page' = [page EXCEPT ![Len(page)] = m]
    <3>1. CASE /\ Last(page).len < MaxLen
               /\ page' = [page EXCEPT ![Len(page)].len = @ + 1]
      <4>1. last.len + 1 \in 0..MaxLen
        BY <2>1, <3>1, Constants DEF Message
      <4>2. [last EXCEPT !.len = @ + 1] \in Message
        BY <2>1, <4>1 DEF Message
      <4>3. page' = [page EXCEPT ![Len(page)] = [last EXCEPT !.len = @ + 1]]
        BY <3>1
      <4>4. QED
        BY <4>2, <4>3
    <3>2. CASE page' = [page EXCEPT ![Len(page)].rev = 1, ![Len(page)].len = 1]
      <4>1. 1 \in 0..MaxLen
        BY Constants
      <4>2. [last EXCEPT !.rev = 1, !.len = 1] \in Message
        BY <2>1, <4>1 DEF Message
      <4>3. page' = [page EXCEPT ![Len(page)] = [last EXCEPT !.rev = 1, !.len = 1]]
        BY <2>1, <3>2 DEF Types, TypeOK
      <4>4. QED
        BY <4>2, <4>3
    <3>3. QED
      BY <1>2, <3>1, <3>2 DEF Write
  <2>3. page' \in Seq(Message)
    BY <2>1, <2>2 DEF Types, TypeOK
  <2>4. QED
    BY <1>2, <2>3 DEF Zai, Write, Types, TypeOK, PollsLeft
<1>3. QED
  BY <1>1, <1>2 DEF Zai

LEMMA SentTypes ==
  ASSUME Types, pc = "type", Sent \/ UNCHANGED <<pc, poll, last_sent, stable, buffered, resent>>,
         UNCHANGED back
  PROVE  /\ pc' \in Places /\ poll' \in 0..MaxPolls
         /\ last_sent' \in Seq(Piece) /\ stable' \in Nat
         /\ buffered' \in BOOLEAN /\ resent' \in BOOLEAN
         /\ PollsLeft'
<1>1. CASE UNCHANGED <<pc, poll, last_sent, stable, buffered, resent>>
  BY <1>1 DEF Types, TypeOK, PollsLeft, Places
<1>2. CASE Sent /\ back = "first"
  BY <1>2 DEF Sent, Types, TypeOK, PollsLeft, Places, Body
<1>3. CASE Sent /\ back # "first"
  <2>1. poll < MaxPolls /\ NextPoll
    BY <1>3 DEF Sent, Types, PollsLeft
  <2>2. poll' \in 0..MaxPolls /\ pc' \in {"fetch", "final"} /\ (pc' = "fetch" => poll' < MaxPolls)
    BY <2>1, NextPollTypes
  <2>3. last_sent' = <<>> /\ stable' = 0 /\ resent' = TRUE /\ buffered' \in BOOLEAN
    BY <1>3 DEF Sent
  <2>4. QED
    BY <2>2, <2>3 DEF PollsLeft, Places, Body
<1>4. QED
  BY <1>1, <1>2, <1>3

\* What Decide leaves.
Decided ==
  /\ current \in Seq(Piece) /\ back \in Sending /\ poll \in 0..MaxPolls
  /\ pc \in Body \cup {"final"}
  /\ PollsLeft

LEMMA DecideTypes ==
  ASSUME Types, pc = "read", NEW text \in Seq(Piece), NEW error \in BOOLEAN, Decide(text, error)
  PROVE  Decided'
<1>1. poll < MaxPolls
  BY DEF Types, PollsLeft, Body
<1>2. CASE NextPoll /\ UNCHANGED back
  <2>1. poll' \in 0..MaxPolls /\ pc' \in {"fetch", "final"} /\ (pc' = "fetch" => poll' < MaxPolls)
    BY <1>1, <1>2, NextPollTypes
  <2>2. QED
    BY <1>2, <2>1 DEF Decide, Decided, Types, TypeOK, PollsLeft, Body
<1>3. CASE /\ UNCHANGED poll
           /\ \/ pc' = "release" /\ back' = "sandbox"
              \/ pc' = "bypass" /\ back' \in {"limit", "quota"}
              \/ pc' \in {"refuse", "stream"} /\ UNCHANGED back
  BY <1>1, <1>3 DEF Decide, Decided, Types, TypeOK, PollsLeft, Body, Sending
<1>4. (NextPoll /\ UNCHANGED back) \/
      (/\ UNCHANGED poll
       /\ \/ pc' = "release" /\ back' = "sandbox"
          \/ pc' = "bypass" /\ back' \in {"limit", "quota"}
          \/ pc' \in {"refuse", "stream"} /\ UNCHANGED back)
  BY DEF Decide
<1>5. QED
  BY <1>2, <1>3, <1>4

LEMMA TypesSending ==
  ASSUME Types, Press \/ GiveUp \/ Baseline
  PROVE  Types'
<1> USE DEF local, base, aicq, zai
<1>1. CASE Press
  <2>1. accepted' \in 0..MaxSends /\ owed' \in BOOLEAN /\ tries' \in 0..MaxTries
    <3>1. accepted \in 0..MaxSends /\ owed \in BOOLEAN /\ tries \in 0..MaxTries
      BY DEF Types, TypeOK
    <3>2. /\ tries < MaxTries /\ tries' = tries + 1
          /\ \/ accepted' = accepted /\ owed' = owed
             \/ accepted < MaxSends /\ accepted' = accepted + 1 /\ owed' = TRUE
      BY <1>1 DEF Press
    <3>3. MaxSends \in Nat /\ MaxTries \in Nat
      BY Constants
    <3>4. tries' \in 0..MaxTries
      BY <3>1, <3>2, <3>3
    <3>5. accepted' \in 0..MaxSends
      <4>1. CASE accepted' = accepted
        BY <3>1, <4>1
      <4>2. CASE accepted < MaxSends /\ accepted' = accepted + 1
        BY <3>1, <3>3, <4>2
      <4>3. QED
        BY <3>2, <4>1, <4>2
    <3>6. owed' \in BOOLEAN
      BY <3>1, <3>2
    <3>7. QED
      BY <3>4, <3>5, <3>6
  <2>2. /\ poll' \in 0..MaxPolls /\ pc' \in Places
        /\ last_sent' \in Seq(Piece) /\ stable' \in Nat
        /\ buffered' \in BOOLEAN /\ resent' \in BOOLEAN /\ PollsLeft'
    BY <1>1, SentTypes DEF Press
  <2>3. UNCHANGED <<page, back, base, current, cancelled, aicq>>
    BY <1>1 DEF Press
  <2>4. QED
    BY <2>1, <2>2, <2>3 DEF Types, TypeOK, Places
<1>2. CASE GiveUp
  <2>0. /\ UNCHANGED <<zai, back, base, tries, last_sent, stable, buffered, resent, current>>
        /\ UNCHANGED <<cancelled, shown, ended>>
        /\ pc = "type"
    BY <1>2 DEF GiveUp
  <2>1. CASE back = "first"
    <3>1. /\ UNCHANGED poll
          /\ \/ pc' = "done" /\ told' = TRUE /\ UNCHANGED fails
             \/ pc' = "down" /\ Raises /\ UNCHANGED told
      BY <1>2, <2>1 DEF GiveUp
    <3>2. fails' \in 0..MaxFails
      BY <3>1, RaisedType DEF Types, TypeOK
    <3>3. QED
      BY <2>0, <3>1, <3>2 DEF Types, TypeOK, PollsLeft, Body
  <2>2. CASE back \in {"fetch", "quota"}
    <3>1. /\ UNCHANGED <<poll, told, fails>> /\ pc' \in {"cancel", "stream"}
      BY <1>2, <2>2 DEF GiveUp
    <3>2. QED
      BY <2>0, <2>2, <3>1 DEF Types, TypeOK, PollsLeft, Body
  <2>3. CASE back \notin {"first", "fetch", "quota"}
    <3>1. NextPoll /\ UNCHANGED <<told, fails>> /\ poll < MaxPolls
      BY <1>2, <2>0, <2>3 DEF GiveUp, Types, PollsLeft
    <3>2. poll' \in 0..MaxPolls /\ pc' \in {"fetch", "final"} /\ (pc' = "fetch" => poll' < MaxPolls)
      BY <3>1, NextPollTypes
    <3>3. QED
      BY <2>0, <3>1, <3>2 DEF Types, TypeOK, PollsLeft, Body
  <2>4. QED
    BY <2>1, <2>2, <2>3
<1>3. CASE Baseline
  <2>1. pre_count' \in Nat /\ pre_last_hash' \in Seq(Piece)
    <3>1. CASE pre_count' = 0 /\ pre_last_hash' = <<>>
      BY <3>1
    <3>2. ASSUME NEW i \in DOMAIN page, NEW n \in DOMAIN page,
                 pre_count' = n, pre_last_hash' = Hash(page[i])
          PROVE  pre_count' \in Nat /\ pre_last_hash' \in Seq(Piece)
      <4>1. page[i] \in Message /\ n \in Nat
        BY DEF Types, TypeOK
      <4>2. QED
        BY <3>2, <4>1, HashType
    <3>3. QED
      BY <1>3, <3>1, <3>2 DEF Baseline
  <2>2. UNCHANGED <<zai, back, local, current, cancelled, aicq>> /\ poll = 0
    BY <1>3 DEF Baseline, Types, PollsLeft
  <2>3. CASE MaxPolls = 0 /\ pc' = "final"
    BY <2>1, <2>2, <2>3 DEF Types, TypeOK, PollsLeft, Body
  <2>4. CASE MaxPolls # 0 /\ pc' = "fetch"
    <3>1. 0 < MaxPolls
      BY <2>4, Constants
    <3>2. QED
      BY <2>1, <2>2, <2>4, <3>1 DEF Types, TypeOK, PollsLeft, Body
  <2>5. QED
    BY <1>3, <2>3, <2>4 DEF Baseline
<1>4. QED
  BY <1>1, <1>2, <1>3

LEMMA TypesReading ==
  ASSUME Types, Fetch \/ CheckCancel \/ Read
  PROVE  Types'
<1> USE DEF local, base, aicq, zai
<1>1. CASE Fetch
  <2>1. /\ UNCHANGED <<zai, base, tries, poll, last_sent, stable, resent, current, cancelled, aicq>>
        /\ pc' \in {"cancel", "release"} /\ back' \in Sending /\ buffered' \in BOOLEAN
        /\ pc' = "release" => back' # "first"
    BY <1>1 DEF Fetch, Types, TypeOK, Sending
  <2>2. poll < MaxPolls
    BY <1>1 DEF Fetch, Types, PollsLeft, Body
  <2>3. QED
    BY <2>1, <2>2 DEF Types, TypeOK, PollsLeft, Body
<1>2. CASE CheckCancel
  <2>1. poll < MaxPolls /\ UNCHANGED <<zai, back, base, local, current>>
    BY <1>2 DEF CheckCancel, Types, PollsLeft, Body
  <2>2. last_sent \o Notice \in Seq(Piece)
    BY NoticeType DEF Types, TypeOK
  <2>3. /\ shown' \in Seq(Piece) /\ ended' \in Nat /\ told' \in BOOLEAN
        /\ fails' \in 0..MaxFails
        /\ pc' \in {"done", "read"}
        /\ cancelled' \in BOOLEAN
    <3>0. cancelled \in BOOLEAN
      BY DEF Types, TypeOK
    <3>1. CASE ~cancelled /\ pc' = "read" /\ UNCHANGED <<cancelled, aicq>>
      BY <3>1 DEF Types, TypeOK
    <3>2. CASE /\ Raises /\ pc' = "read" /\ cancelled' \in {cancelled, FALSE}
               /\ UNCHANGED <<shown, ended, told>>
      BY <3>2, RaisedType DEF Types, TypeOK
    <3>3. CASE cancelled /\ cancelled' = FALSE /\ SayAndEnd(last_sent \o Notice, "read")
      BY <2>2, <3>3, SayTypes DEF Places
    <3>4. QED
      BY <1>2, <3>1, <3>2, <3>3 DEF CheckCancel
  <2>4. QED
    BY <2>1, <2>3 DEF Types, TypeOK, PollsLeft, Body
<1>3. CASE Read
  <2>1. /\ UNCHANGED <<zai, base, tries, last_sent, stable, buffered, resent, cancelled, aicq>>
        /\ pc = "read"
    BY <1>3 DEF Read
  <2>2. ASSUME NEW i \in DOMAIN page,
               Decide(Rendered(page[i], "md"), page[i].kind \in {"limit", "sandbox", "busy"})
        PROVE  Decided'
    <3>0. page[i] \in Message
      BY DEF Types, TypeOK
    <3>1. Rendered(page[i], "md") \in Seq(Piece)
      BY <3>0, RenderedType
    <3> DEFINE text == Rendered(page[i], "md")
               error == page[i].kind \in {"limit", "sandbox", "busy"}
    <3>2. Decide(text, error) /\ error \in BOOLEAN
      BY <2>2
    <3> HIDE DEF text, error
    <3>3. text \in Seq(Piece)
      BY <3>1 DEF text
    <3>4. QED
      BY <2>1, <3>2, <3>3, DecideTypes
  <2>3. ASSUME EvalSees,
               Decide(Rendered(Last(page), "html"), Last(page).kind \in {"limit", "busy"})
        PROVE  Decided'
    <3>1. Rendered(Last(page), "html") \in Seq(Piece)
      BY <2>3, LastType, RenderedType DEF EvalSees
    <3> DEFINE text == Rendered(Last(page), "html")
               error == Last(page).kind \in {"limit", "busy"}
    <3>2. Decide(text, error) /\ error \in BOOLEAN
      BY <2>3
    <3> HIDE DEF text, error
    <3>3. text \in Seq(Piece)
      BY <3>1 DEF text
    <3>4. QED
      BY <2>1, <3>2, <3>3, DecideTypes
  <2>4. ASSUME Decide(<<>>, FALSE) PROVE Decided'
    <3>1. <<>> \in Seq(Piece) /\ FALSE \in BOOLEAN
      OBVIOUS
    <3>2. QED
      BY <2>1, <2>4, <3>1, DecideTypes
  <2>5. Decided'
    BY <1>3, <2>2, <2>3, <2>4 DEF Read
  <2>6. QED
    BY <2>1, <2>5 DEF Types, TypeOK, Body, Decided
<1>4. QED
  BY <1>1, <1>2, <1>3

LEMMA TypesErrors ==
  ASSUME Types, Refuse \/ Release \/ Bypass
  PROVE  Types'
<1> USE DEF local, base, aicq, zai
<1>0. poll < MaxPolls
  BY DEF Refuse, Release, Bypass, Types, PollsLeft, Body
<1>a. 0 \in 0..MaxTries
  BY Constants
<1>1. CASE Refuse
  <2>1. /\ shown' \in Seq(Piece) /\ ended' \in Nat /\ told' \in BOOLEAN
        /\ fails' \in 0..MaxFails /\ pc' \in {"done", "down"}
    BY <1>1, NoticeType, SayTypes DEF Refuse, Places
  <2>2. QED
    BY <1>1, <2>1 DEF Refuse, Types, TypeOK, PollsLeft, Body
<1>2. CASE Release
  <2>1. UNCHANGED <<zai, base, poll, last_sent, stable, buffered, resent, current, cancelled>>
    BY <1>2 DEF Release
  <2>2. CASE SendAgain(back) /\ UNCHANGED aicq
    <3>1. pc' = "type" /\ back' = back /\ back # "first" /\ tries' \in 0..MaxTries
      BY <1>2, <1>a, <2>2 DEF SendAgain, Release, Types, PollsLeft
    <3>2. QED
      BY <1>0, <2>1, <2>2, <3>1 DEF Types, TypeOK, PollsLeft, Body
  <2>3. CASE /\ SayAndEnd(Notice, IF back = "fetch" THEN "cancel" ELSE "down")
             /\ UNCHANGED <<back, tries>>
    <3>1. /\ shown' \in Seq(Piece) /\ ended' \in Nat /\ told' \in BOOLEAN
          /\ fails' \in 0..MaxFails /\ pc' \in {"done", "cancel", "down"}
      BY <2>3, NoticeType, SayTypes DEF Places
    <3>2. QED
      BY <1>0, <2>1, <2>3, <3>1 DEF Types, TypeOK, PollsLeft, Body
  <2>4. QED
    BY <1>2, <2>2, <2>3 DEF Release
<1>3. CASE Bypass
  <2>1. /\ UNCHANGED <<accepted, base, poll, last_sent, stable, buffered, resent, current>>
        /\ UNCHANGED cancelled /\ owed' = FALSE
    BY <1>3 DEF Bypass
  <2>2. page' \in Seq(Message)
    <3>1. <<>> \in Seq(Message) /\ <<Old>> \in Seq(Message) /\ page \in Seq(Message)
      BY OldType DEF Types, TypeOK
    <3>2. QED
      BY <1>3, <3>1 DEF Bypass
  <2>3. CASE SendAgain(back) /\ UNCHANGED aicq
    <3>1. pc' = "type" /\ back' = back /\ back # "first" /\ tries' \in 0..MaxTries
      BY <1>3, <1>a, <2>3 DEF SendAgain, Bypass, Types, PollsLeft
    <3>2. QED
      BY <1>0, <2>1, <2>2, <2>3, <3>1 DEF Types, TypeOK, PollsLeft, Body
  <2>4. CASE SayAndEnd(Notice, "down") /\ UNCHANGED <<back, tries>>
    <3>1. /\ shown' \in Seq(Piece) /\ ended' \in Nat /\ told' \in BOOLEAN
          /\ fails' \in 0..MaxFails /\ pc' \in {"done", "down"}
      BY <2>4, NoticeType, SayTypes DEF Places
    <3>2. QED
      BY <2>1, <2>2, <2>4, <3>1 DEF Types, TypeOK, PollsLeft, Body
  <2>5. QED
    BY <1>3, <2>3, <2>4 DEF Bypass
<1>4. QED
  BY <1>1, <1>2, <1>3

LEMMA TypesStreaming ==
  ASSUME Types, Grown \/ Unchanged \/ Final
  PROVE  Types'
<1> USE DEF local, base, aicq, zai
<1>1. CASE Grown
  <2>1. UNCHANGED <<zai, back, base, tries, buffered, resent, current, cancelled>>
    BY <1>1 DEF Grown
  <2>2. last_sent' \in Seq(Piece) /\ stable' \in Nat
    BY <1>1 DEF Grown, Types, TypeOK
  <2>3. /\ shown' \in Seq(Piece) /\ ended' \in Nat /\ told' \in BOOLEAN
        /\ fails' \in 0..MaxFails
    BY <1>1, PushTypes DEF Grown
  <2>4. poll' \in 0..MaxPolls /\ pc' \in {"fetch", "final"} /\ (pc' = "fetch" => poll' < MaxPolls)
    <3>1. NextPoll /\ poll < MaxPolls
      BY <1>1 DEF Grown, Types, PollsLeft, Body
    <3>2. QED
      BY <3>1, NextPollTypes
  <2>5. QED
    BY <2>1, <2>2, <2>3, <2>4 DEF Types, TypeOK, PollsLeft, Body
<1>2. CASE Unchanged
  <2>1. UNCHANGED <<zai, base, tries, last_sent, buffered, resent, current, cancelled>>
    BY <1>2 DEF Unchanged
  <2>2. stable' \in Nat /\ poll < MaxPolls
    BY <1>2 DEF Unchanged, Types, TypeOK, PollsLeft, Body
  <2>3. CASE NextPoll /\ UNCHANGED <<back, aicq>>
    <3>1. poll' \in 0..MaxPolls /\ pc' \in {"fetch", "final"} /\ (pc' = "fetch" => poll' < MaxPolls)
      BY <2>2, <2>3, NextPollTypes
    <3>2. QED
      BY <2>1, <2>2, <2>3, <3>1 DEF Types, TypeOK, PollsLeft, Body
  <2>4. CASE UNCHANGED poll /\ pc' = "bypass" /\ back' = "stable" /\ UNCHANGED aicq
    BY <2>1, <2>2, <2>4 DEF Types, TypeOK, PollsLeft, Body, Sending
  <2>5. CASE UNCHANGED poll /\ SayAndEnd(<<>>, "done") /\ UNCHANGED back
    <3>1. /\ shown' \in Seq(Piece) /\ ended' \in Nat /\ told' \in BOOLEAN
          /\ fails' \in 0..MaxFails /\ pc' = "done"
      <4>1. <<>> \in Seq(Piece)
        OBVIOUS
      <4>2. QED
        BY <2>5, <4>1, SayTypes DEF Places
    <3>2. QED
      BY <2>1, <2>2, <2>5, <3>1 DEF Types, TypeOK, PollsLeft, Body
  <2>6. QED
    BY <1>2, <2>3, <2>4, <2>5 DEF Unchanged
<1>3. CASE Final
  <2>1. /\ UNCHANGED <<zai, back, base, tries, poll, stable, buffered, resent, current>>
        /\ UNCHANGED cancelled
    BY <1>3 DEF Final
  <2>2. last_sent' \in Seq(Piece)
    <3>1. CASE UNCHANGED last_sent
      BY <3>1 DEF Types, TypeOK
    <3>2. CASE EvalSees /\ last_sent' = Rendered(Last(page), "html")
      BY <3>2, LastType, RenderedType DEF EvalSees
    <3>3. QED
      BY <1>3, <3>1, <3>2 DEF Final
  <2>3. /\ shown' \in Seq(Piece) /\ ended' \in Nat /\ told' \in BOOLEAN
        /\ fails' \in 0..MaxFails /\ pc' = "done"
    BY <1>3, <2>2, SayTypes DEF Final, Places
  <2>4. QED
    BY <2>1, <2>2, <2>3 DEF Types, TypeOK, PollsLeft, Body
<1>4. QED
  BY <1>1, <1>2, <1>3

LEMMA TypesStep == ASSUME Types, [Next]_vars PROVE Types'
<1>1. CASE BridgeStep
  BY <1>1, TypesSending, TypesReading, TypesErrors, TypesStreaming DEF BridgeStep
<1>2. CASE Zai
  BY <1>2, TypesZai
<1>3. CASE Cancel
  BY <1>3 DEF Cancel, zai, base, local, aicq, Types, TypeOK, PollsLeft
<1>4. CASE UNCHANGED vars
  BY <1>4 DEF vars, Types, TypeOK, PollsLeft
<1>5. QED
  BY <1>1, <1>2, <1>3, <1>4 DEF Next

\* Every value stays in its type, and the loop makes no poll beyond the last.
THEOREM TypeCorrect == Spec => []TypeOK
<1>1. Init => Types
  BY TypesInit
<1>2. Types /\ [Next]_vars => Types'
  BY TypesStep
<1>3. Types => TypeOK
  BY DEF Types
<1>4. QED
  BY <1>1, <1>2, <1>3, PTL DEF Spec

-----------------------------------------------------------------------------
(* The friend's screen, and the end of the stream. *)

Inv == Types /\ ScreenIsWhatWasSent /\ EndsOnce

\* What is said at the end of a stream leaves no screen to keep, nor does a
\* call that raised.
LEMMA SaidAtTheEnd ==
  ASSUME Inv, NEW text \in Seq(Piece), NEW place \in Places, SayAndEnd(text, place), pc # "done"
  PROVE  /\ pc' = "done" \/ (fails' > 0 /\ pc' = place)
         /\ EndsOnce'
<1>1. ended = 0 /\ fails \in Nat
  <2>1. ended \in Nat /\ fails \in 0..MaxFails /\ MaxFails \in Nat
    BY Constants DEF Inv, Types, TypeOK
  <2>2. ended <= 1 /\ ended # 1
    BY DEF Inv, EndsOnce
  <2>3. QED
    BY <2>1, <2>2
<1>2. CASE ended' = ended + 1 /\ pc' = "done" /\ UNCHANGED fails
  BY <1>1, <1>2 DEF EndsOnce
<1>3. CASE Raises /\ pc' = place /\ UNCHANGED ended
  BY <1>1, <1>3 DEF EndsOnce, Raises
<1>4. QED
  BY <1>2, <1>3 DEF SayAndEnd

\* A step that leaves the stream alone.
LEMMA EndsOnceKept ==
  ASSUME Inv, UNCHANGED ended, pc # "done"
  PROVE  EndsOnce'
<1>1. ended = ended' /\ ended <= 1 /\ ended # 1
  BY DEF Inv, EndsOnce
<1>2. QED
  BY <1>1 DEF EndsOnce

LEMMA EmptySuffix == ASSUME NEW t \in Seq(Piece) PROVE IsSuffix(<<>>, t)
<1>1. <<>> \in Seq(Piece) /\ t \o <<>> = t
  BY ConcatEmptySeq
<1>2. IsSuffix(<<>>, t \o <<>>)
  BY <1>1, EndIsSuffix
<1>3. QED
  BY <1>1, <1>2

LEMMA SelfSuffix == ASSUME NEW t \in Seq(Piece) PROVE IsSuffix(t, t)
<1>1. <<>> \in Seq(Piece) /\ <<>> \o t = t
  BY ConcatEmptySeq
<1>2. IsSuffix(t, <<>> \o t)
  BY <1>1, EndIsSuffix
<1>3. QED
  BY <1>1, <1>2

\* The heart of it: what Push sends completes what the friend saw.
LEMMA PushCompletes ==
  ASSUME Inv, pc = "stream", fails = 0, Push(current), UNCHANGED fails
  PROVE  IF resent THEN IsSuffix(current, shown') ELSE shown' = current
<1> DEFINE rest == SubSeq(current, Len(last_sent) + 1, Len(current))
<1>1. last_sent \in Seq(Piece) /\ current \in Seq(Piece) /\ shown \in Seq(Piece)
  BY DEF Inv, Types, TypeOK
<1>2. IF resent THEN IsSuffix(last_sent, shown) ELSE shown = last_sent
  BY DEF Inv, ScreenIsWhatWasSent
<1>3. shown' = IF last_sent = <<>> \/ IsPrefix(last_sent, current) THEN shown \o rest ELSE current
  BY SMTT(30) DEF Push, Raises
<1>4. CASE last_sent = <<>> \/ IsPrefix(last_sent, current)
  <2>1. rest \in Seq(Piece) /\ last_sent \o rest = current
    <3>1. CASE IsPrefix(last_sent, current)
      BY <1>1, <3>1, PrefixCompleted
    <3>2. CASE last_sent = <<>>
      <4>1. Len(last_sent) + 1 = 1
        BY <3>2
      <4>2. rest = current
        BY <1>1, <4>1, SubSeqFull
      <4>3. QED
        BY <1>1, <3>2, <4>2, ConcatEmptySeq
    <3>3. QED
      BY <1>4, <3>1, <3>2
  <2> HIDE DEF rest
  <2>2. shown' = shown \o rest
    BY <1>3, <1>4
  <2>3. CASE ~resent
    BY <1>2, <2>1, <2>2, <2>3
  <2>4. CASE resent
    <3>1. PICK x \in Seq(Piece) : shown = x \o last_sent
      BY <1>1, <1>2, <2>4, SuffixIsEnd
    <3>2. shown' = x \o (last_sent \o rest)
      <4>1. shown' = (x \o last_sent) \o rest
        BY <2>2, <3>1
      <4>2. x \in Seq(Piece) /\ last_sent \in Seq(Piece) /\ rest \in Seq(Piece)
        BY <1>1, <2>1, <3>1
      <4>3. (x \o last_sent) \o rest = x \o (last_sent \o rest)
        BY <4>2, Associative
      <4>4. QED
        BY <4>1, <4>3
    <3>3. IsSuffix(current, x \o current)
      BY <1>1, EndIsSuffix
    <3>4. QED
      BY <2>1, <2>4, <3>2, <3>3
  <2>5. QED
    BY <2>3, <2>4
<1>5. CASE ~(last_sent = <<>> \/ IsPrefix(last_sent, current))
  <2>1. shown' = current
    BY <1>3, <1>5
  <2>2. QED
    BY <1>1, <2>1, SelfSuffix
<1>6. QED
  BY <1>4, <1>5

LEMMA ScreenKept ==
  ASSUME Inv, pc \notin {"done", "down"}, UNCHANGED <<last_sent, shown, resent, fails>>
  PROVE  ScreenIsWhatWasSent'
BY DEF Inv, ScreenIsWhatWasSent

LEMMA ScreenGone ==
  ASSUME pc' \in {"done", "down"} \/ fails' > 0
  PROVE  ScreenIsWhatWasSent'
BY DEF ScreenIsWhatWasSent

LEMMA InvInit == ASSUME Init PROVE Inv
<1>1. Types
  BY TypesInit
<1>2. ScreenIsWhatWasSent /\ EndsOnce
  BY DEF Init, ScreenIsWhatWasSent, EndsOnce
<1>3. QED
  BY <1>1, <1>2 DEF Inv

LEMMA InvSending ==
  ASSUME Inv, Press \/ GiveUp \/ Baseline
  PROVE  ScreenIsWhatWasSent' /\ EndsOnce'
<1> USE DEF local, base, aicq, zai
<1>1. CASE Press
  <2>1. EndsOnce'
    BY <1>1, EndsOnceKept DEF Press
  <2>2. CASE UNCHANGED <<last_sent, resent>>
    BY <1>1, <2>1, <2>2, ScreenKept DEF Press
  <2>3. CASE last_sent' = <<>> /\ resent' = TRUE
    <3>1. shown' \in Seq(Piece)
      BY <1>1 DEF Press, Inv, Types, TypeOK
    <3>2. QED
      BY <2>1, <2>3, <3>1, EmptySuffix DEF ScreenIsWhatWasSent
  <2>4. QED
    BY <1>1, <2>1, <2>2, <2>3 DEF Press, Sent
<1>2. CASE GiveUp
  <2>1. EndsOnce'
    BY <1>2, EndsOnceKept DEF GiveUp
  <2>2. CASE UNCHANGED fails
    BY <1>2, <2>1, <2>2, ScreenKept DEF GiveUp
  <2>3. CASE Raises
    <3>1. fails \in Nat
      BY Constants DEF Inv, Types, TypeOK
    <3>2. QED
      BY <2>1, <2>3, <3>1, ScreenGone DEF Raises
  <2>4. QED
    BY <1>2, <2>1, <2>2, <2>3 DEF GiveUp
<1>3. CASE Baseline
  BY <1>3, EndsOnceKept, ScreenKept DEF Baseline
<1>4. QED
  BY <1>1, <1>2, <1>3

LEMMA InvReading ==
  ASSUME Inv, Fetch \/ CheckCancel \/ Read
  PROVE  ScreenIsWhatWasSent' /\ EndsOnce'
<1> USE DEF local, base, aicq, zai
<1>1. CASE Fetch
  BY <1>1, EndsOnceKept, ScreenKept DEF Fetch
<1>2. CASE CheckCancel
  <2>1. CASE ~cancelled /\ UNCHANGED aicq
    BY <1>2, <2>1, EndsOnceKept, ScreenKept DEF CheckCancel
  <2>2. CASE Raises /\ UNCHANGED ended
    <3>1. fails \in Nat
      BY Constants DEF Inv, Types, TypeOK
    <3>2. fails' > 0
      BY <2>2, <3>1 DEF Raises
    <3>3. QED
      BY <1>2, <2>2, <3>2, EndsOnceKept, ScreenGone DEF CheckCancel
  <2>3. CASE SayAndEnd(last_sent \o Notice, "read")
    <3>1. last_sent \o Notice \in Seq(Piece)
      BY NoticeType DEF Inv, Types, TypeOK
    <3>2. QED
      BY <1>2, <2>3, <3>1, SaidAtTheEnd, ScreenGone DEF CheckCancel, Places
  <2>4. QED
    BY <1>2, <2>1, <2>2, <2>3 DEF CheckCancel
<1>3. CASE Read
  BY <1>3, EndsOnceKept, ScreenKept DEF Read
<1>4. QED
  BY <1>1, <1>2, <1>3

LEMMA InvErrors ==
  ASSUME Inv, Refuse \/ Release \/ Bypass
  PROVE  ScreenIsWhatWasSent' /\ EndsOnce'
<1> USE DEF local, base, aicq, zai
<1>1. CASE Refuse
  BY <1>1, NoticeType, SaidAtTheEnd, ScreenGone DEF Refuse, Places
<1>2. CASE Release
  <2>1. CASE UNCHANGED aicq
    BY <1>2, <2>1, EndsOnceKept, ScreenKept DEF Release
  <2>2. CASE SayAndEnd(Notice, IF back = "fetch" THEN "cancel" ELSE "down")
    BY <1>2, <2>2, NoticeType, SaidAtTheEnd, ScreenGone DEF Release, Places
  <2>3. QED
    BY <1>2, <2>1, <2>2 DEF Release
<1>3. CASE Bypass
  <2>1. CASE UNCHANGED aicq
    BY <1>3, <2>1, EndsOnceKept, ScreenKept DEF Bypass
  <2>2. CASE SayAndEnd(Notice, "down")
    BY <1>3, <2>2, NoticeType, SaidAtTheEnd, ScreenGone DEF Bypass, Places
  <2>3. QED
    BY <1>3, <2>1, <2>2 DEF Bypass
<1>4. QED
  BY <1>1, <1>2, <1>3

LEMMA InvStreaming ==
  ASSUME Inv, Grown \/ Unchanged \/ Final
  PROVE  ScreenIsWhatWasSent' /\ EndsOnce'
<1> USE DEF local, base, aicq, zai
<1>1. CASE Grown
  <2>1. EndsOnce'
    BY <1>1, EndsOnceKept DEF Grown, Push
  <2>2. last_sent' = current /\ resent' = resent /\ Push(current) /\ pc = "stream"
    BY <1>1 DEF Grown
  <2>3. fails \in Nat
    BY Constants DEF Inv, Types, TypeOK
  <2>4. CASE UNCHANGED fails
    <3>1. CASE fails = 0
      BY <2>1, <2>2, <2>4, <3>1, PushCompletes DEF ScreenIsWhatWasSent
    <3>2. CASE fails # 0
      BY <2>1, <2>3, <2>4, <3>2 DEF ScreenIsWhatWasSent
    <3>3. QED
      BY <3>1, <3>2
  <2>5. CASE Raises
    BY <2>1, <2>3, <2>5, ScreenGone DEF Raises
  <2>6. QED
    BY <2>1, <2>2, <2>4, <2>5 DEF Push
<1>2. CASE Unchanged
  <2>1. CASE UNCHANGED aicq
    BY <1>2, <2>1, EndsOnceKept, ScreenKept DEF Unchanged
  <2>2. CASE SayAndEnd(<<>>, "done")
    <3>1. <<>> \in Seq(Piece)
      OBVIOUS
    <3>2. QED
      BY <1>2, <2>2, <3>1, SaidAtTheEnd, ScreenGone DEF Unchanged, Places
  <2>3. QED
    BY <1>2, <2>1, <2>2 DEF Unchanged
<1>3. CASE Final
  <2>1. last_sent' \in Seq(Piece)
    BY <1>3, TypesStreaming DEF Inv, Types, TypeOK
  <2>2. QED
    BY <1>3, <2>1, SaidAtTheEnd, ScreenGone DEF Final, Places
<1>4. QED
  BY <1>1, <1>2, <1>3

LEMMA InvStep == ASSUME Inv, [Next]_vars PROVE Inv'
<1>1. Types'
  BY TypesStep DEF Inv
<1>2. ScreenIsWhatWasSent' /\ EndsOnce'
  <2>1. CASE BridgeStep
    BY <2>1, InvSending, InvReading, InvErrors, InvStreaming DEF BridgeStep
  <2>2. CASE Zai
    BY <2>2, ScreenKept, EndsOnceKept DEF Zai, local, aicq
  <2>3. CASE Cancel
    BY <2>3, ScreenKept, EndsOnceKept DEF Cancel, local, aicq
  <2>4. CASE UNCHANGED vars
    BY <2>4 DEF vars, Inv, ScreenIsWhatWasSent, EndsOnce
  <2>5. QED
    BY <2>1, <2>2, <2>3, <2>4 DEF Next
<1>3. QED
  BY <1>1, <1>2 DEF Inv

\* What the bridge believes to be on the friend's screen is there: the
\* differences it sends add up to the answer.
THEOREM ScreenFollows == Spec => []ScreenIsWhatWasSent
<1>1. Init => Inv
  BY InvInit
<1>2. Inv /\ [Next]_vars => Inv'
  BY InvStep
<1>3. Inv => ScreenIsWhatWasSent
  BY DEF Inv
<1>4. QED
  BY <1>1, <1>2, <1>3, PTL DEF Spec

\* No stream is ended twice, and nothing is sent after its end.
THEOREM EndsAtMostOnce == Spec => []EndsOnce
<1>1. Init => Inv
  BY InvInit
<1>2. Inv /\ [Next]_vars => Inv'
  BY InvStep
<1>3. Inv => EndsOnce
  BY DEF Inv
<1>4. QED
  BY <1>1, <1>2, <1>3, PTL DEF Spec

-----------------------------------------------------------------------------
(* The relay keeps to its contract.                                        *)

\* Which part of the loop sends the message again; and before it was sent for
\* the first time the screen is empty.
BackIsWhence ==
  /\ pc = "release" => back \in {"fetch", "sandbox"}
  /\ pc = "bypass" => back \in {"limit", "quota", "stable"}
  /\ pc = "type" /\ back = "first" => shown = <<>>

Kept == Types /\ BackIsWhence

Relaying == {"baseline", "fetch", "cancel", "read", "stream", "refuse", "release", "bypass", "final"}

LEMMA Phases ==
  /\ pc = "type" => Phase = IF back \in {"fetch", "sandbox"} THEN "relay" ELSE "type"
  /\ pc = "done" => Phase = "over"
  /\ pc = "down" => Phase = "down"
  /\ pc \in Relaying => Phase = "relay"
BY DEF Phase, Relaying

LEMMA PhasesNext ==
  /\ pc' = "type" => Phase' = IF back' \in {"fetch", "sandbox"} THEN "relay" ELSE "type"
  /\ pc' = "done" => Phase' = "over"
  /\ pc' = "down" => Phase' = "down"
  /\ pc' \in Relaying => Phase' = "relay"
BY DEF Phase, Relaying

\* What an appended text leaves on the screen begins with what was there.
LEMMA PrefixOfConcat ==
  ASSUME NEW S, NEW s \in Seq(S), NEW t \in Seq(S)
  PROVE  s \o t \in Seq(S) /\ IsPrefix(s, s \o t)
<1> DEFINE u == s \o t
<1>1. /\ u \in Seq(S) /\ Len(u) = Len(s) + Len(t) /\ Len(s) \in Nat /\ Len(t) \in Nat
      /\ \A i \in 1..Len(s) : u[i] = s[i]
  BY ConcatProperties
<1> HIDE DEF u
<1>2. SubSeq(s, 1, Len(s)) = SubSeq(u, 1, Len(s))
  BY <1>1
<1>3. QED
  BY <1>1, <1>2 DEF IsPrefix, u

\* Nothing of it is seen outside.
LEMMA Hidden ==
  ASSUME Phase' = Phase, UNCHANGED <<shown, ended, told, fails>>
  PROVE  [Contract!Next]_Contract!turn
BY DEF Contract!turn

\* The stream is ended, or a call of the core raises.
LEMMA SaidIsStep ==
  ASSUME Types, pc \in Relaying, NEW text \in Seq(Piece),
         NEW place \in Relaying \cup {"done", "down"}, SayAndEnd(text, place)
  PROVE  Contract!Next
<1>1. Phase = "relay" /\ shown \in Seq(Piece)
  BY Phases DEF Types, TypeOK
<1>2. shown \o text \in Seq(Piece) /\ IsPrefix(shown, shown \o text)
  BY <1>1, PrefixOfConcat
<1>3. CASE UNCHANGED fails
  <2>1. /\ shown' = shown \o text /\ ended' = ended + 1 /\ pc' = "done" /\ UNCHANGED told
    BY <1>3, Constants DEF SayAndEnd, Raises, Types, TypeOK
  <2>2. Phase' = "over"
    BY <2>1, PhasesNext
  <2>3. Contract!IsPrefix(shown, shown')
    BY <1>2, <2>1 DEF IsPrefix, Contract!IsPrefix
  <2>4. QED
    BY <1>1, <1>2, <1>3, <2>1, <2>2, <2>3 DEF Contract!Next, Contract!Ends
<1>4. CASE Raises
  <2>0. fails \in Nat /\ fails' = fails + 1 /\ fails' # fails
    <3>1. fails \in Nat
      BY Constants DEF Types, TypeOK
    <3>2. QED
      BY <1>4, <3>1 DEF Raises
  <2>1. /\ fails' = fails + 1 /\ UNCHANGED <<ended, told>>
        /\ pc' = place /\ shown' \in Seq(Piece)
    BY <1>1, <1>2, <2>0 DEF SayAndEnd
  <2>2. Phase' \in {"relay", "over", "down"}
    BY <2>1, PhasesNext
  <2>3. QED
    BY <1>1, <2>1, <2>2 DEF Contract!Next, Contract!Fails
<1>5. QED
  BY <1>3, <1>4 DEF SayAndEnd

LEMMA NextPollRelays == ASSUME NextPoll PROVE pc' \in Relaying /\ Phase' = "relay"
<1>1. pc' \in Relaying
  BY DEF NextPoll, Relaying
<1>2. QED
  BY <1>1, PhasesNext

LEMMA SendingKeeps ==
  ASSUME Kept, Press \/ GiveUp \/ Baseline
  PROVE  [Contract!Next]_Contract!turn /\ BackIsWhence'
<1> USE DEF base, aicq, zai
<1>1. CASE Press
  <2>0. UNCHANGED <<back, shown, ended, told, fails>> /\ pc = "type"
    BY <1>1 DEF Press
  <2>1. CASE UNCHANGED pc
    <3>1. Phase' = Phase
      BY <2>0, <2>1, Phases, PhasesNext
    <3>2. QED
      BY <2>0, <2>1, <3>1, Hidden DEF Kept, BackIsWhence
  <2>2. CASE Sent
    <3>1. pc' \in {"baseline", "fetch", "final"}
      BY <2>2 DEF Sent, NextPoll
    <3>2. Phase' = "relay"
      BY <3>1, PhasesNext DEF Relaying
    <3>3. [Contract!Next]_Contract!turn
      <4>1. CASE back \in {"fetch", "sandbox"}
        BY <2>0, <3>2, <4>1, Phases, Hidden
      <4>2. CASE back \notin {"fetch", "sandbox"}
        <5>1. Phase = "type"
          BY <2>0, <4>2, Phases
        <5>2. QED
          BY <2>0, <3>2, <5>1 DEF Contract!Next, Contract!Sent
      <4>3. QED
        BY <4>1, <4>2
    <3>4. QED
      BY <3>1, <3>3 DEF BackIsWhence
  <2>3. QED
    BY <1>1, <2>1, <2>2 DEF Press
<1>2. CASE GiveUp
  <2>0. UNCHANGED <<back, shown, ended>> /\ pc = "type" /\ back \in Sending
    BY <1>2 DEF GiveUp, Kept, Types, TypeOK
  <2>1. CASE back = "first"
    <3>1. /\ \/ pc' = "done" /\ told' = TRUE /\ UNCHANGED fails
             \/ pc' = "down" /\ Raises /\ UNCHANGED told
      BY <1>2, <2>1 DEF GiveUp
    <3>2. Phase = "type" /\ shown = <<>>
      BY <2>0, <2>1, Phases DEF Kept, BackIsWhence
    <3>3. CASE pc' = "done" /\ told' = TRUE /\ UNCHANGED fails
      BY <2>0, <3>2, <3>3, PhasesNext DEF Contract!Next, Contract!Tells, BackIsWhence
    <3>4. CASE pc' = "down" /\ Raises /\ UNCHANGED told
      BY <2>0, <3>2, <3>4, PhasesNext DEF Contract!Next, Contract!Fails, BackIsWhence, Raises
    <3>5. QED
      BY <3>1, <3>3, <3>4
  <2>2. CASE back # "first"
    <3>1. pc' \in {"cancel", "stream", "fetch", "final"} /\ UNCHANGED <<told, fails>>
      BY <1>2, <2>0, <2>2 DEF GiveUp, NextPoll, Sending
    <3>2. Phase' = "relay"
      BY <3>1, PhasesNext DEF Relaying
    <3>3. CASE back \in {"fetch", "sandbox"}
      BY <2>0, <3>1, <3>2, <3>3, Phases, Hidden DEF BackIsWhence
    <3>4. CASE back \notin {"fetch", "sandbox"}
      <4>1. Phase = "type"
        BY <2>0, <3>4, Phases
      <4>2. QED
        BY <2>0, <3>1, <3>2, <4>1 DEF Contract!Next, Contract!Sent, BackIsWhence
    <3>5. QED
      BY <3>3, <3>4
  <2>3. QED
    BY <2>1, <2>2
<1>3. CASE Baseline
  <2>1. pc = "baseline" /\ pc' \in {"final", "fetch"} /\ UNCHANGED <<shown, ended, told, fails>>
    BY <1>3 DEF Baseline
  <2>2. QED
    BY <2>1, Phases, PhasesNext, Hidden DEF Relaying, BackIsWhence
<1>4. QED
  BY <1>1, <1>2, <1>3

LEMMA ReadingKeeps ==
  ASSUME Kept, Fetch \/ CheckCancel \/ Read
  PROVE  [Contract!Next]_Contract!turn /\ BackIsWhence'
<1> USE DEF base, aicq, zai
<1>1. CASE Fetch
  <2>1. /\ pc = "fetch" /\ UNCHANGED <<shown, ended, told, fails>>
        /\ pc' = "cancel" \/ (pc' = "release" /\ back' = "fetch")
    BY <1>1 DEF Fetch
  <2>2. QED
    BY <2>1, Phases, PhasesNext, Hidden DEF Relaying, BackIsWhence
<1>2. CASE CheckCancel
  <2>0. pc = "cancel" /\ pc \in Relaying
    BY <1>2 DEF CheckCancel, Relaying
  <2>1. CASE pc' = "read" /\ UNCHANGED aicq
    BY <2>0, <2>1, Phases, PhasesNext, Hidden DEF Relaying, BackIsWhence
  <2>2. CASE pc' = "read" /\ Raises /\ UNCHANGED <<shown, ended, told>>
    <3>1. Phase = "relay" /\ Phase' = "relay" /\ shown' \in Seq(Piece)
      BY <2>0, <2>2, Phases, PhasesNext DEF Relaying, Kept, Types, TypeOK
    <3>2. QED
      BY <2>2, <3>1 DEF Contract!Next, Contract!Fails, Raises, BackIsWhence
  <2>3. CASE SayAndEnd(last_sent \o Notice, "read")
    <3>1. last_sent \o Notice \in Seq(Piece) /\ "read" \in Relaying
      BY NoticeType DEF Kept, Types, TypeOK, Relaying
    <3>2. pc' \in {"read", "done"}
      BY <2>3 DEF SayAndEnd
    <3>3. QED
      BY <2>0, <2>3, <3>1, <3>2, SaidIsStep DEF BackIsWhence, Kept
  <2>4. QED
    BY <1>2, <2>1, <2>2, <2>3 DEF CheckCancel
<1>3. CASE Read
  <2>1. /\ pc = "read" /\ UNCHANGED <<shown, ended, told, fails>>
        /\ \E text, error : Decide(text, error)
    BY <1>3 DEF Read
  <2>2. /\ pc' \in {"fetch", "final", "release", "bypass", "refuse", "stream"}
        /\ pc' = "release" => back' = "sandbox"
        /\ pc' = "bypass" => back' \in {"limit", "quota"}
    BY <2>1 DEF Decide, NextPoll
  <2>3. QED
    BY <2>1, <2>2, Phases, PhasesNext, Hidden DEF Relaying, BackIsWhence
<1>4. QED
  BY <1>1, <1>2, <1>3

LEMMA ErrorsKeep ==
  ASSUME Kept, Refuse \/ Release \/ Bypass
  PROVE  [Contract!Next]_Contract!turn /\ BackIsWhence'
<1> USE DEF base, local, aicq, zai
<1>0. Notice \in Seq(Piece) /\ {"cancel", "refuse", "release", "bypass"} \subseteq Relaying
  BY NoticeType DEF Relaying
<1>1. CASE Refuse
  <2>1. pc = "refuse" /\ SayAndEnd(Notice, "down") /\ pc' \in {"done", "down"}
    BY <1>1 DEF Refuse, SayAndEnd
  <2>2. QED
    BY <1>0, <2>1, SaidIsStep DEF Kept, BackIsWhence
<1>2. CASE Release
  <2>0. pc = "release" /\ back \in {"fetch", "sandbox"}
    BY <1>2 DEF Release, Kept, BackIsWhence
  <2>1. CASE SendAgain(back) /\ UNCHANGED aicq
    <3>1. pc' = "type" /\ back' \in {"fetch", "sandbox"}
      BY <2>0, <2>1 DEF SendAgain
    <3>2. QED
      BY <1>0, <2>0, <2>1, <3>1, Phases, PhasesNext, Hidden DEF BackIsWhence
  <2>2. CASE SayAndEnd(Notice, IF back = "fetch" THEN "cancel" ELSE "down")
    <3>1. pc' \in {"done", "down", "cancel"}
      BY <2>2 DEF SayAndEnd
    <3>2. QED
      BY <1>0, <2>0, <2>2, <3>1, SaidIsStep DEF Kept, BackIsWhence
  <2>3. QED
    BY <1>2, <2>1, <2>2 DEF Release
<1>3. CASE Bypass
  <2>0. pc = "bypass" /\ back \in {"limit", "quota", "stable"}
    BY <1>3 DEF Bypass, Kept, BackIsWhence
  <2>1. CASE SendAgain(back) /\ UNCHANGED aicq
    <3>1. pc' = "type" /\ back' \in {"limit", "quota", "stable"}
      BY <2>0, <2>1 DEF SendAgain
    <3>2. Phase = "relay" /\ Phase' = "type"
      BY <1>0, <2>0, <3>1, Phases, PhasesNext
    <3>3. QED
      BY <2>1, <3>1, <3>2 DEF Contract!Next, Contract!Again, BackIsWhence
  <2>2. CASE SayAndEnd(Notice, "down")
    <3>1. pc' \in {"done", "down"}
      BY <2>2 DEF SayAndEnd
    <3>2. QED
      BY <1>0, <2>0, <2>2, <3>1, SaidIsStep DEF Kept, BackIsWhence
  <2>3. QED
    BY <1>3, <2>1, <2>2 DEF Bypass
<1>4. QED
  BY <1>1, <1>2, <1>3

LEMMA StreamingKeeps ==
  ASSUME Kept, Grown \/ Unchanged \/ Final
  PROVE  [Contract!Next]_Contract!turn /\ BackIsWhence'
<1> USE DEF base, aicq, zai
<1>0. {"stream", "final"} \subseteq Relaying
  BY DEF Relaying
<1>1. CASE Grown
  <2>1. pc = "stream" /\ Push(current) /\ NextPoll /\ pc' \in {"fetch", "final"}
    BY <1>1 DEF Grown, NextPoll
  <2>2. Phase = "relay" /\ Phase' = "relay" /\ current \in Seq(Piece)
    BY <1>0, <2>1, Phases, NextPollRelays DEF Kept, Types, TypeOK
  <2>3. shown' \in Seq(Piece)
    BY <1>1, TypesStreaming DEF Kept, Types, TypeOK
  <2>4. UNCHANGED <<ended, told>> /\ (UNCHANGED fails \/ Raises)
    BY <2>1 DEF Push
  <2>5. QED
    BY <2>1, <2>2, <2>3, <2>4 DEF Contract!Next, Contract!Streams, Contract!Fails, Raises, BackIsWhence
<1>2. CASE Unchanged
  <2>0. pc = "stream"
    BY <1>2 DEF Unchanged
  <2>1. CASE NextPoll /\ UNCHANGED aicq
    <3>1. pc' \in {"fetch", "final"}
      BY <2>1 DEF NextPoll
    <3>2. QED
      BY <1>0, <2>0, <2>1, <3>1, Phases, NextPollRelays, Hidden DEF BackIsWhence
  <2>2. CASE pc' = "bypass" /\ back' = "stable" /\ UNCHANGED aicq
    BY <1>0, <2>0, <2>2, Phases, PhasesNext, Hidden DEF BackIsWhence, Relaying
  <2>3. CASE SayAndEnd(<<>>, "done")
    <3>1. pc' = "done" /\ <<>> \in Seq(Piece)
      BY <2>3 DEF SayAndEnd
    <3>2. QED
      BY <1>0, <2>0, <2>3, <3>1, SaidIsStep DEF Kept, BackIsWhence
  <2>4. QED
    BY <1>2, <2>1, <2>2, <2>3 DEF Unchanged
<1>3. CASE Final
  <2>1. pc = "final" /\ SayAndEnd(last_sent', "done") /\ pc' = "done"
    BY <1>3 DEF Final, SayAndEnd
  <2>2. last_sent' \in Seq(Piece)
    BY <1>3, TypesStreaming DEF Kept, Types, TypeOK
  <2>3. QED
    BY <1>0, <2>1, <2>2, SaidIsStep DEF Kept, BackIsWhence
<1>4. QED
  BY <1>1, <1>2, <1>3

LEMMA KeptStep ==
  ASSUME Kept, [Next]_vars
  PROVE  [Contract!Next]_Contract!turn /\ Kept'
<1>1. Types'
  BY TypesStep DEF Kept
<1>2. [Contract!Next]_Contract!turn /\ BackIsWhence'
  <2>1. CASE BridgeStep
    BY <2>1, SendingKeeps, ReadingKeeps, ErrorsKeep, StreamingKeeps DEF BridgeStep
  <2>2. CASE Zai \/ Cancel \/ UNCHANGED vars
    <3>1. UNCHANGED <<pc, back, shown, ended, told, fails>>
      BY <2>2 DEF Zai, Cancel, vars, local, aicq
    <3>2. QED
      BY <3>1, Hidden DEF Phase, Kept, BackIsWhence
  <2>3. QED
    BY <2>1, <2>2 DEF Next
<1>3. QED
  BY <1>1, <1>2 DEF Kept

\* Whatever z.ai answers and however often the message is sent again: what the
\* main loop and the friend see of the relay is a turn.
THEOREM Refinement == Spec => KeepsContract
<1>1. ASSUME Init PROVE Kept /\ Contract!Init
  <2>1. pc = "type" /\ back = "first" /\ shown = <<>> /\ ended = 0 /\ told = FALSE /\ fails = 0
    BY <1>1 DEF Init
  <2>2. Phase = "type"
    BY <2>1, Phases
  <2>3. QED
    BY <1>1, <2>1, <2>2, TypesInit DEF Kept, BackIsWhence, Contract!Init
<1>2. QED
  BY <1>1, KeptStep, PTL DEF Spec, KeepsContract, Contract!Spec

\* So each message has one end: the stream's, or the word that it could not be
\* sent, unless a call of the core failed; and only such a call ends the bridge.
THEOREM EveryTurnIsReliable == Spec => []Contract!Reliable
<1> DEFINE Sound == Contract!Reliable /\ ended \in Nat /\ fails \in Nat
<1>1. Contract!Init => Sound
  BY DEF Contract!Init, Contract!Reliable
<1>2. Sound /\ [Contract!Next]_Contract!turn => Sound'
  BY DEF Contract!Reliable, Contract!Next, Contract!turn, Contract!Sent, Contract!Again,
         Contract!Streams, Contract!Ends, Contract!Tells, Contract!Fails
<1>3. Sound => Contract!Reliable
  OBVIOUS
<1> HIDE DEF Sound
<1>4. QED
  BY <1>1, <1>2, <1>3, Refinement, PTL DEF KeepsContract, Contract!Spec
=============================================================================
