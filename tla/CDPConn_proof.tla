--------------------------- MODULE CDPConn_proof ---------------------------
(***************************************************************************)
(* Proofs about CDPConn, for every set of calls, every kind of reply and   *)
(* any number of faults.                                                   *)
(***************************************************************************)
EXTENDS CDPConn, TLAPS, SequenceTheorems

LEMMA BoundIsNat == MaxFaults \in Nat
  BY CallsAssumption

\* The library's fact about Tail is about sequences in general.
LEMMA TailType ==
  ASSUME NEW S, NEW s \in Seq(S), s # <<>>
  PROVE  Tail(s) \in Seq(S)
  BY HeadTailProperties

\* Finish and FailAll keep the types of what they change.
LEMMA FinishType ==
  ASSUME TypeOK, NEW c \in Calls, NEW kind, Finish(c, kind)
  PROVE  /\ pc' \in [Calls -> {"send", "wait", "reset", "dial", "install", "done"}]
         /\ try' \in [Calls -> {1, 2}]
         /\ myid' \in [Calls -> Nat]
  BY DEF TypeOK, Finish

LEMMA FailAllType ==
  ASSUME TypeOK, NEW kind \in FailKinds, FailAll(kind)
  PROVE  /\ pending' = {}
         /\ chan' \in [Chans -> Seq(Answers)]
<1>1. ASSUME NEW ch \in Chans PROVE <<[kind |-> kind, by |-> ch]>> \in Seq(Answers)
  BY <1>1 DEF Answers
<1>2. QED
  BY <1>1 DEF TypeOK, FailAll

\* The states of a reader.
LEMMA ReaderTypes ==
  /\ \A place \in {"off", "top", "gone"} : At(place) \in Readers
  /\ \A k \in Conns : Reading(k) \in Readers
  /\ \A ch \in Chans, ans \in Answers : Delivering(ch, ans) \in Readers
  BY DEF At, Reading, Delivering, Readers

\* TypeOK holds initially and every step preserves it.
LEMMA TypeInductive == (Init => TypeOK) /\ (TypeOK /\ [Next]_vars => TypeOK')
<1>1. Init => TypeOK
  <2> SUFFICES ASSUME Init PROVE TypeOK
    OBVIOUS
  <2>1. reader \in [Conns -> Readers]
    BY ReaderTypes DEF Init
  <2>2. chan \in [Chans -> Seq(Answers)]
    BY DEF Init
  <2>3. /\ conn \in Conns \cup {None}
        /\ sock \in [Conns -> {"none", "open", "stalled", "dead", "closed"}]
        /\ pc \in [Calls -> {"send", "wait", "reset", "dial", "install", "done"}]
        /\ try \in [Calls -> {1, 2}]
        /\ myid \in [Calls -> Nat]
    BY DEF Init, Conns
  <2>4. nextID \in Nat /\ faults \in 0..MaxFaults
    BY BoundIsNat DEF Init
  <2>5. QED
    BY <2>1, <2>2, <2>3, <2>4 DEF Init, TypeOK
<1>2. TypeOK /\ [Next]_vars => TypeOK'
  <2> SUFFICES ASSUME TypeOK, [Next]_vars PROVE TypeOK'
    OBVIOUS
  <2> USE DEF net, call
  <2>1. ASSUME NEW c \in Calls, NotConnected(c) PROVE TypeOK'
    <3>1. nextID' \in Nat
      <4>1. nextID \in Nat /\ nextID' = nextID + 1
        BY <2>1 DEF NotConnected, TypeOK
      <4>2. QED
        BY <4>1
    <3>2. QED
      BY <2>1, <3>1, FinishType DEF NotConnected, TypeOK
  <2>2. ASSUME NEW c \in Calls, Write(c) PROVE TypeOK'
    <3>1. nextID' \in Nat /\ Here(c) \in Chans /\ conn \in Conns
      BY <2>2 DEF Write, TypeOK, Here, Chans
    <3>2. [id |-> nextID', ch |-> Here(c)] \in [id : Nat, ch : Chans]
      BY <3>1
    <3>3. [conn |-> conn, id |-> nextID', by |-> Here(c)] \in [conn : Conns, id : Nat, by : Chans]
      BY <3>1
    <3>4. pending' \subseteq [id : Nat, ch : Chans] /\ wire' \subseteq [conn : Conns, id : Nat, by : Chans]
      BY <2>2, <3>2, <3>3 DEF Write, TypeOK
    <3>5. myid' \in [Calls -> Nat] /\ pc' \in [Calls -> {"send", "wait", "reset", "dial", "install", "done"}]
      BY <2>2, <3>1 DEF Write, TypeOK
    <3>6. QED
      BY <2>2, <3>1, <3>4, <3>5 DEF Write, TypeOK
  <2>3. ASSUME NEW c \in Calls, WriteFails(c) PROVE TypeOK'
    <3>1. nextID' \in Nat
      BY <2>3 DEF WriteFails, TypeOK
    <3>2. QED
      BY <2>3, <3>1, FinishType DEF WriteFails, TypeOK
  <2>4. ASSUME NEW c \in Calls, Receive(c) PROVE TypeOK'
    <3>1. Here(c) \in Chans
      BY DEF TypeOK, Here, Chans
    <3>2. chan[Here(c)] \in Seq(Answers) /\ chan[Here(c)] # <<>>
      BY <2>4, <3>1 DEF Receive, TypeOK
    <3>3. Tail(chan[Here(c)]) \in Seq(Answers)
      BY <3>2, TailType
    <3>4. chan' \in [Chans -> Seq(Answers)]
      BY <2>4, <3>1, <3>3 DEF Receive, TypeOK
    <3>5. QED
      BY <2>4, <3>4, FinishType DEF Receive, TypeOK
  <2>5. ASSUME NEW c \in Calls, Timeout(c) PROVE TypeOK'
    <3>1. pending' \subseteq pending
      BY <2>5 DEF Timeout, Without
    <3>2. QED
      BY <2>5, <3>1, FinishType DEF Timeout, TypeOK
  <2>6. ASSUME NEW c \in Calls, Reset(c) PROVE TypeOK'
    <3>1. sock' \in [Conns -> {"none", "open", "stalled", "dead", "closed"}]
      BY <2>6, SMTT(30) DEF Reset, TypeOK
    <3>2. pc' \in [Calls -> {"send", "wait", "reset", "dial", "install", "done"}]
      BY <2>6 DEF Reset, TypeOK
    <3>3. pending' = {} /\ chan' \in [Chans -> Seq(Answers)]
      BY <2>6, FailAllType DEF Reset, FailKinds
    <3>4. QED
      BY <2>6, <3>1, <3>2, <3>3 DEF Reset, TypeOK
  <2>7. ASSUME NEW c \in Calls, DialFails(c) \/ Dial(c) PROVE TypeOK'
    BY <2>7, ZenonT(30) DEF DialFails, Dial, TypeOK, Conns
  <2>8. ASSUME NEW c \in Calls, Install(c) PROVE TypeOK'
    <3>1. reader' \in [Conns -> Readers]
      BY <2>8, ReaderTypes DEF Install, TypeOK
    <3>2. QED
      BY <2>8, <3>1 DEF Install, TypeOK, Conns
  <2>9. ASSUME NEW k \in Conns, Loop(k) \/ ReadEvent(k) PROVE TypeOK'
    <3>1. reader' \in [Conns -> Readers]
      BY <2>9, ReaderTypes DEF Loop, ReadEvent, TypeOK
    <3>2. QED
      BY <2>9, <3>1 DEF Loop, ReadEvent, TypeOK
  <2>10. ASSUME NEW k \in Conns, Read(k) PROVE TypeOK'
    <3>1. reader' \in [Conns -> Readers]
      <4>1. PICK m \in wire :
              \/ reader' = [reader EXCEPT ![k] = At("top")]
              \/ \E p \in pending, kind \in ReplyKinds :
                   reader' = [reader EXCEPT ![k] = Delivering(p.ch, [kind |-> kind, by |-> m.by])]
        BY <2>10 DEF Read
      <4>2. m.by \in Chans
        BY DEF TypeOK
      <4>3. ASSUME NEW p \in pending, NEW kind \in ReplyKinds
            PROVE  Delivering(p.ch, [kind |-> kind, by |-> m.by]) \in Readers
        <5>1. p.ch \in Chans
          BY DEF TypeOK
        <5>2. [kind |-> kind, by |-> m.by] \in Answers
          BY <4>2 DEF Answers
        <5>3. QED
          BY <5>1, <5>2, ReaderTypes
      <4>4. reader \in [Conns -> Readers]
        BY DEF TypeOK
      <4>5. CASE reader' = [reader EXCEPT ![k] = At("top")]
        BY <4>4, <4>5, ReaderTypes
      <4>6. CASE \E p \in pending, kind \in ReplyKinds :
                   reader' = [reader EXCEPT ![k] = Delivering(p.ch, [kind |-> kind, by |-> m.by])]
        BY <4>3, <4>4, <4>6
      <4>7. QED
        BY <4>1, <4>5, <4>6
    <3>2. pending' \subseteq pending /\ wire' \subseteq wire
      BY <2>10 DEF Read, Without
    <3>3. QED
      BY <2>10, <3>1, <3>2 DEF Read, TypeOK
  <2>11. ASSUME NEW k \in Conns, Deliver(k) PROVE TypeOK'
    <3>1. reader[k].msg.ans \in Answers
      <4>1. reader[k] \in Readers
        BY DEF TypeOK
      <4>2. QED
        BY <4>1, <2>11 DEF Readers, Deliver
    <3>2. <<reader[k].msg.ans>> \in Seq(Answers)
      BY <3>1
    <3>3. chan' \in [Chans -> Seq(Answers)]
      BY <2>11, <3>2 DEF Deliver, TypeOK
    <3>4. reader' \in [Conns -> Readers]
      BY <2>11, ReaderTypes DEF Deliver, TypeOK
    <3>5. QED
      BY <2>11, <3>3, <3>4 DEF Deliver, TypeOK
  <2>12. ASSUME NEW k \in Conns, ReadError(k) \/ TornRead(k) PROVE TypeOK'
    <3>1. reader' \in [Conns -> Readers]
      BY <2>12, ReaderTypes DEF ReadError, TornRead, TypeOK
    <3>2. pending' \subseteq pending /\ chan' \in [Chans -> Seq(Answers)]
      BY <2>12, FailAllType DEF ReadError, TornRead, FailKinds, TypeOK
    <3>3. QED
      BY <2>12, <3>1, <3>2 DEF ReadError, TornRead, TypeOK
  <2>13. ASSUME Fault PROVE TypeOK'
    <3>1. sock' \in [Conns -> {"none", "open", "stalled", "dead", "closed"}]
      BY <2>13 DEF Fault, Stall, PeerDies, TypeOK
    <3>2. faults' \in 0..MaxFaults
      <4>1. faults \in 0..MaxFaults /\ faults < MaxFaults /\ faults' = faults + 1
        BY <2>13 DEF Fault, TypeOK
      <4>2. QED
        BY <4>1, BoundIsNat
    <3>3. QED
      BY <2>13, <3>1, <3>2 DEF Fault, TypeOK
  <2>14. CASE UNCHANGED vars
    BY <2>14 DEF vars, TypeOK
  <2>15. QED
    BY <2>1, <2>2, <2>3, <2>4, <2>5, <2>6, <2>7, <2>8, <2>9, <2>10, <2>11, <2>12, <2>13, <2>14
    DEF Next, CallStep, ReaderStep
<1>3. QED
  BY <1>1, <1>2

\* Type correctness: CDPConn never leaves the state space that TypeOK describes;
\* in particular no call ever reaches a third attempt.
THEOREM TypeCorrect == Spec => []TypeOK
  BY TypeInductive, PTL DEF Spec

-----------------------------------------------------------------------------
(***************************************************************************)
(* The inductive invariant.  Each lemma below is one action (or two that   *)
(* touch the same variables) and shows every conjunct that it can disturb. *)
(***************************************************************************)

\* Facts about the types that the steps below need over and over.
LEMMA Shapes ==
  ASSUME TypeOK
  PROVE  /\ \A c \in Calls : Here(c) \in Chans /\ Here(c)[1] = c /\ Here(c)[2] = try[c]
         /\ \A ch \in Chans : ch[1] \in Calls /\ ch[2] \in {1, 2} /\ ch = <<ch[1], ch[2]>>
         /\ \A p \in pending : p.id \in Nat /\ p.ch \in Chans
         /\ \A m \in wire : m.id \in Nat /\ m.by \in Chans /\ m.conn \in Conns
         /\ nextID \in Nat
  BY DEF TypeOK, Here, Chans

\* What send does with the end of an attempt begins no other attempt.
LEMMA FinishBegins ==
  ASSUME TypeOK, NEW c \in Calls, NEW kind, Finish(c, kind),
         pc[c] \in {"send", "wait"},
         NEW ch \in Chans, NotBegun(ch)'
  PROVE  NotBegun(ch)
<1>1. ch[1] \in Calls /\ ch[2] \in {1, 2}
  BY Shapes
<1>2. try[c] \in {1, 2} /\ try[ch[1]] \in {1, 2}
  BY <1>1 DEF TypeOK
<1>3. CASE ch[1] # c
  BY <1>1, <1>3 DEF Finish, NotBegun, TypeOK
<1>4. CASE ch[1] = c
  <2>1. CASE try[c] = 1 /\ kind \in Retried
    <3>1. try'[c] = 2
      BY <2>1 DEF Finish, TypeOK
    <3>2. QED
      BY <3>1, <2>1, <1>4, <1>1 DEF NotBegun
  <2>2. CASE ~(try[c] = 1 /\ kind \in Retried)
    <3>1. try'[c] = try[c] /\ pc'[c] = "done"
      BY <2>2 DEF Finish, TypeOK
    <3>2. QED
      BY <3>1, <1>4, <1>1, <1>2 DEF NotBegun
  <2>3. QED
    BY <2>1, <2>2
<1>5. QED
  BY <1>3, <1>4

\* Where Finish leaves the other calls.
LEMMA FinishOthers ==
  ASSUME TypeOK, NEW c \in Calls, NEW kind, Finish(c, kind)
  PROVE  /\ pc'[c] \in {"reset", "done"}
         /\ \A d \in Calls \ {c} :
              pc'[d] = pc[d] /\ try'[d] = try[d] /\ myid'[d] = myid[d] /\ Here(d)' = Here(d)
  BY DEF Finish, TypeOK, Here

\* The end of an attempt of c, whatever its reason, preserves the invariant when
\* the table loses c's entry and nothing else, and only c's own channel changes.
LEMMA FinishInv ==
  ASSUME IInv, TypeOK', ReadersStartOnce', NEW c \in Calls, NEW kind, Finish(c, kind),
         pc[c] \in {"send", "wait"},
         pending' \subseteq pending,
         \A p \in pending' : p.ch[1] # c,
         \A p \in pending : p.ch[1] # c => p \in pending',
         \A ch \in Chans \ {Here(c)} : chan'[ch] = chan[ch],
         \A i \in DOMAIN chan'[Here(c)] : chan'[Here(c)][i].by = Here(c),
         chan[Here(c)] = <<>> => chan'[Here(c)] = <<>>,
         reader' = reader, wire' = wire, nextID' \in Nat, nextID' >= nextID
  PROVE  IInv'
<1> USE DEF IInv
<1>1. IdsNameOneChannel'
  <2>1. nextID \in Nat /\ \A d \in Calls : myid[d] \in Nat
    BY DEF TypeOK
  <2>2. \A d \in Calls : pc'[d] = "wait" =>
          pc[d] = "wait" /\ myid'[d] = myid[d] /\ Here(d)' = Here(d)
    BY FinishOthers
  <2>3. /\ \A p \in pending' : p.id <= nextID'
        /\ \A m \in wire' : m.id <= nextID'
    BY <2>1, Shapes DEF IdsNameOneChannel
  <2>4. \A d \in Calls : pc[d] = "wait" => myid[d] <= nextID'
    BY <2>1 DEF IdsNameOneChannel
  <2>5. QED
    BY <2>2, <2>3, <2>4 DEF IdsNameOneChannel
<1>2. FreshChannels'
  <2> SUFFICES ASSUME NEW ch \in Chans, NotBegun(ch)'
               PROVE  /\ chan'[ch] = <<>>
                      /\ \A k \in Conns : reader[k].at = "deliver" => reader[k].msg.ch # ch
    BY DEF FreshChannels
  <2>1. NotBegun(ch)
    BY FinishBegins
  <2>2. QED
    BY <2>1 DEF FreshChannels
<1>3. PendingHasItsWaiter'
  BY FinishOthers, Shapes DEF PendingHasItsWaiter
<1>4. RepliesReachTheirCommand'
  BY DEF RepliesReachTheirCommand
<1>5. NoSenderBlocks'
  <2>1. \A ch \in Chans : chan[ch] = <<>> => chan'[ch] = <<>>
    OBVIOUS
  <2>2. \A p \in pending' : chan'[p.ch] = <<>>
    BY <2>1, Shapes DEF NoSenderBlocks
  <2>3. \A k \in Conns : reader[k].at = "deliver" => reader[k].msg.ch \in Chans
    BY DEF TypeOK, Readers
  <2>4. QED
    BY <2>1, <2>2, <2>3 DEF NoSenderBlocks
<1>6. NoWaiterForgotten'
  BY FinishOthers, Shapes DEF NoWaiterForgotten
<1>7. QED
  BY <1>1, <1>2, <1>3, <1>4, <1>5, <1>6

\* No entry of the table belongs to a call that has nothing in it.
LEMMA NotPending ==
  ASSUME IInv, NEW c \in Calls, pc[c] # "wait" \/ chan[Here(c)] # <<>>
  PROVE  \A p \in pending : p.ch[1] # c
  BY Shapes DEF IInv, PendingHasItsWaiter, NoSenderBlocks

LEMMA NotConnectedInv ==
  ASSUME IInv, TypeOK', ReadersStartOnce', NEW c \in Calls, NotConnected(c) \/ WriteFails(c)
  PROVE  IInv'
<1>1. PICK kind \in Errors : Finish(c, kind)
  BY DEF NotConnected, WriteFails, Errors
<1>2. /\ pc[c] = "send" /\ nextID' = nextID + 1
      /\ pending' = pending /\ chan' = chan /\ reader' = reader /\ wire' = wire
  BY DEF NotConnected, WriteFails, net
<1>3. \A i \in DOMAIN chan[Here(c)] : chan[Here(c)][i].by = Here(c)
  BY Shapes DEF IInv, RepliesReachTheirCommand
<1>4. nextID \in Nat
  BY DEF IInv, TypeOK
<1>5. \A p \in pending : p.ch[1] # c
  BY <1>2, NotPending
<1>6. QED
  BY <1>1, <1>2, <1>3, <1>4, <1>5, FinishInv DEF IInv

LEMMA ReceiveInv ==
  ASSUME IInv, TypeOK', ReadersStartOnce', NEW c \in Calls, Receive(c)
  PROVE  IInv'
<1> DEFINE q == chan[Here(c)]
<1>1. /\ pc[c] = "wait" /\ q # <<>> /\ nextID' = nextID /\ pending' = pending
      /\ reader' = reader /\ wire' = wire /\ Finish(c, Head(q).kind)
  BY DEF Receive, net
<1>2. Here(c) \in Chans /\ q \in Seq(Answers) /\ chan \in [Chans -> Seq(Answers)]
  BY Shapes DEF IInv, TypeOK
<1>3. chan' = [chan EXCEPT ![Here(c)] = Tail(q)]
  BY DEF Receive
<1>4. \A ch \in Chans \ {Here(c)} : chan'[ch] = chan[ch]
  BY <1>2, <1>3
<1>5. chan'[Here(c)] = Tail(q)
  BY <1>2, <1>3
<1>6. \A i \in DOMAIN Tail(q) : Tail(q)[i].by = Here(c)
  <2>1. \A i \in DOMAIN q : q[i].by = Here(c)
    BY <1>2 DEF IInv, RepliesReachTheirCommand
  <2>2. Tail(q) \in Seq(Answers) /\ Len(Tail(q)) = Len(q) - 1
        /\ \A i \in 1..Len(Tail(q)) : Tail(q)[i] = q[i + 1]
    BY <1>1, <1>2, HeadTailProperties
  <2>3. QED
    BY <2>1, <2>2, <1>2
<1>7. \A p \in pending : p.ch[1] # c
  BY <1>1, NotPending
<1>8. nextID \in Nat
  BY DEF IInv, TypeOK
<1>9. /\ \A i \in DOMAIN chan'[Here(c)] : chan'[Here(c)][i].by = Here(c)
      /\ chan[Here(c)] = <<>> => chan'[Here(c)] = <<>>
  BY <1>1, <1>5, <1>6
<1>10. PICK kind : Finish(c, kind)
  BY <1>1
<1> HIDE DEF q
<1>11. /\ pc[c] = "wait" /\ pending' \subseteq pending /\ reader' = reader /\ wire' = wire
       /\ nextID' \in Nat /\ nextID' >= nextID
       /\ \A p \in pending' : p.ch[1] # c
       /\ \A p \in pending : p.ch[1] # c => p \in pending'
  BY <1>1, <1>7, <1>8
<1>12. QED
  BY <1>4, <1>9, <1>10, <1>11, FinishInv

LEMMA TimeoutInv ==
  ASSUME IInv, TypeOK', ReadersStartOnce', NEW c \in Calls, Timeout(c)
  PROVE  IInv'
<1>1. /\ pc[c] = "wait" /\ nextID' = nextID /\ pending' = Without(myid[c]) /\ chan' = chan
      /\ reader' = reader /\ wire' = wire /\ Finish(c, "timeout")
  BY DEF Timeout, net
<1>2. \A p \in pending' : p \in pending /\ p.ch[1] # c
  BY <1>1, Shapes DEF Without, IInv, PendingHasItsWaiter
<1>3. \A p \in pending : p.ch[1] # c => p \in pending'
  BY <1>1, Shapes DEF Without, IInv, IdsNameOneChannel
<1>4. \A i \in DOMAIN chan[Here(c)] : chan[Here(c)][i].by = Here(c)
  BY Shapes DEF IInv, RepliesReachTheirCommand
<1>5. nextID \in Nat
  BY DEF IInv, TypeOK
<1>6. QED
  BY <1>1, <1>2, <1>3, <1>4, <1>5, FinishInv DEF IInv

\* A command is registered: its id is above every id in use and its channel is
\* that of an invocation that had not begun.
LEMMA WriteInv ==
  ASSUME IInv, TypeOK', ReadersStartOnce', NEW c \in Calls, Write(c)
  PROVE  IInv'
<1> DEFINE new == [id |-> nextID', ch |-> Here(c)]
<1>1. /\ pc[c] = "send" /\ nextID' = nextID + 1 /\ pending' = pending \cup {new}
      /\ chan' = chan /\ reader' = reader /\ try' = try
      /\ wire' \subseteq wire \cup {[conn |-> conn, id |-> nextID', by |-> Here(c)]}
      /\ myid' = [myid EXCEPT ![c] = nextID'] /\ pc' = [pc EXCEPT ![c] = "wait"]
  BY DEF Write
<1>2. /\ nextID \in Nat /\ myid \in [Calls -> Nat] /\ Here(c) \in Chans
      /\ \A d \in Calls : Here(d)' = Here(d) /\ Here(d)[1] = d
      /\ pc \in [Calls -> {"send", "wait", "reset", "dial", "install", "done"}]
  BY <1>1, Shapes DEF IInv, TypeOK, Here
<1>3. /\ pc'[c] = "wait" /\ myid'[c] = nextID'
      /\ \A d \in Calls \ {c} : pc'[d] = pc[d] /\ myid'[d] = myid[d]
  BY <1>1, <1>2
<1>4. NotBegun(Here(c))
  BY <1>1, Shapes DEF NotBegun, IInv
<1>5. \A p \in pending : p.ch[1] # c
  BY <1>1, NotPending
<1>6. IdsNameOneChannel'
  <2>1. /\ \A p \in pending : p.id <= nextID /\ p.id \in Nat
        /\ \A m \in wire : m.id <= nextID /\ m.id \in Nat
        /\ \A d \in Calls : pc[d] = "wait" => myid[d] <= nextID
    BY Shapes DEF IInv, IdsNameOneChannel
  <2>2. new.id = nextID + 1 /\ new.ch = Here(c)
    BY <1>1
  <2>3. /\ \A p \in pending' : p.id <= nextID'
        /\ \A m \in wire' : m.id <= nextID'
        /\ \A d \in Calls : pc'[d] = "wait" => myid'[d] <= nextID'
    BY <1>1, <1>2, <1>3, <2>1, <2>2
  <2>4. \A p, q \in pending' : p.id = q.id => p = q
    BY <1>1, <1>2, <2>1, <2>2 DEF IInv, IdsNameOneChannel
  <2>5. \A p \in pending', m \in wire' : p.id = m.id => p.ch = m.by
    BY <1>1, <1>2, <2>1, <2>2 DEF IInv, IdsNameOneChannel
  <2>6. \A d \in Calls : pc'[d] = "wait" =>
           \A p \in pending' : p.id = myid'[d] => p.ch = Here(d)
    BY <1>1, <1>2, <1>3, <2>1, <2>2 DEF IInv, IdsNameOneChannel
  <2>7. QED
    BY <1>2, <2>3, <2>4, <2>5, <2>6 DEF IdsNameOneChannel
<1>7. FreshChannels'
  <2>1. \A ch \in Chans : NotBegun(ch)' => NotBegun(ch)
    BY <1>1, <1>2, <1>3, Shapes DEF NotBegun, IInv
  <2>2. QED
    BY <1>1, <2>1 DEF FreshChannels, IInv
<1>8. PendingHasItsWaiter'
  BY <1>1, <1>2, <1>3, <1>5, Shapes DEF PendingHasItsWaiter, IInv
<1>9. RepliesReachTheirCommand'
  BY <1>1 DEF RepliesReachTheirCommand, IInv
<1>10. NoSenderBlocks'
  BY <1>1, <1>2, <1>4, <1>5 DEF NoSenderBlocks, FreshChannels, IInv
<1>11. NoWaiterForgotten'
  <2> SUFFICES ASSUME NEW d \in Calls, pc'[d] = "wait"
               PROVE  \/ \E p \in pending' : p.ch = Here(d)
                      \/ chan[Here(d)] # <<>>
                      \/ \E k \in Conns : reader[k].at = "deliver" /\ reader[k].msg.ch = Here(d)
    BY <1>1, <1>2 DEF NoWaiterForgotten
  <2>1. CASE d = c
    <3>1. new \in pending' /\ new.ch = Here(d)
      BY <1>1, <2>1
    <3>2. QED
      BY <3>1
  <2>2. CASE d # c
    <3>1. pc[d] = "wait" /\ pending \subseteq pending'
      BY <1>1, <1>3, <2>2
    <3>2. QED
      BY <3>1 DEF NoWaiterForgotten, IInv
  <2>3. QED
    BY <2>1, <2>2
<1>12. QED
  BY <1>6, <1>7, <1>8, <1>9, <1>10, <1>11 DEF IInv

\* Every pending channel is failed: by Reconnect, or by a reader whose
\* connection is gone.  No call moves, except one that was not waiting.
HandsKept ==
  \A k \in Conns : reader'[k].at = "deliver" \/ reader[k].at = "deliver"
                  => reader'[k] = reader[k]

\* A step of one reader that holds nothing before or after it.
LEMMA OneReader ==
  ASSUME reader \in [Conns -> Readers], NEW k \in Conns, NEW r,
         reader' = [reader EXCEPT ![k] = r], r.at # "deliver", reader[k].at # "deliver"
  PROVE  HandsKept
  BY DEF HandsKept

LEMMA FailAllInv ==
  ASSUME IInv, TypeOK', ReadersStartOnce', NEW kind \in FailKinds, FailAll(kind),
         nextID' = nextID, wire' \subseteq wire, try' = try, myid' = myid,
         \A c \in Calls : pc'[c] = "wait" <=> pc[c] = "wait",
         \A c \in Calls : pc'[c] = "done" <=> pc[c] = "done",
         HandsKept
  PROVE  IInv'
<1> USE DEF IInv, HandsKept
<1>1. pending' = {}
  BY DEF FailAll
<1>2. \A c \in Calls : Here(c)' = Here(c) /\ Here(c) \in Chans
  BY Shapes DEF Here
<1>3. ASSUME NEW ch \in Chans
      PROVE  \/ chan'[ch] = chan[ch] /\ \A p \in pending : p.ch # ch
             \/ /\ chan[ch] = <<>> /\ chan'[ch] = <<[kind |-> kind, by |-> ch]>>
                /\ \E p \in pending : p.ch = ch
  BY DEF FailAll
<1>4. \A ch \in Chans : NotBegun(ch)' => NotBegun(ch)
  BY Shapes DEF NotBegun
<1>5. IdsNameOneChannel'
  BY <1>1, <1>2 DEF IdsNameOneChannel
<1>6. FreshChannels'
  <2> SUFFICES ASSUME NEW ch \in Chans, NotBegun(ch)
               PROVE  /\ chan'[ch] = <<>>
                      /\ \A k \in Conns : reader'[k].at = "deliver" => reader'[k].msg.ch # ch
    BY <1>4 DEF FreshChannels
  <2>1. \A p \in pending : p.ch # ch
    BY Shapes DEF PendingHasItsWaiter, NotBegun
  <2>2. chan'[ch] = <<>>
    BY <1>3, <2>1 DEF FreshChannels
  <2>3. ASSUME NEW k \in Conns, reader'[k].at = "deliver" PROVE reader'[k].msg.ch # ch
    <3>1. reader'[k] = reader[k]
      BY <2>3
    <3>2. QED
      BY <2>3, <3>1 DEF FreshChannels
  <2>4. QED
    BY <2>2, <2>3
<1>7. PendingHasItsWaiter'
  BY <1>1 DEF PendingHasItsWaiter
<1>8. RepliesReachTheirCommand'
  <2>1. ASSUME NEW ch \in Chans, NEW i \in DOMAIN chan'[ch] PROVE chan'[ch][i].by = ch
    <3>1. CASE chan'[ch] = chan[ch]
      BY <2>1, <3>1 DEF RepliesReachTheirCommand
    <3>2. CASE chan'[ch] = <<[kind |-> kind, by |-> ch]>>
      BY <2>1, <3>2
    <3>3. QED
      BY <1>3, <3>1, <3>2
  <2>2. ASSUME NEW k \in Conns, reader'[k].at = "deliver"
        PROVE  reader'[k].msg.ans.by = reader'[k].msg.ch
    <3>1. reader'[k] = reader[k]
      BY <2>2
    <3>2. QED
      BY <2>2, <3>1 DEF RepliesReachTheirCommand
  <2>3. QED
    BY <2>1, <2>2 DEF RepliesReachTheirCommand
<1>9. NoSenderBlocks'
  <2>1. ASSUME NEW k \in Conns, reader'[k].at = "deliver"
        PROVE  chan'[reader'[k].msg.ch] = <<>>
    <3>1. reader[k] \in Readers /\ reader[k].at = "deliver" /\ reader'[k] = reader[k]
      BY <2>1 DEF TypeOK
    <3>2. reader[k].msg.ch \in Chans
      BY <3>1 DEF Readers
    <3>3. chan[reader[k].msg.ch] = <<>> /\ \A p \in pending : p.ch # reader[k].msg.ch
      BY <3>1 DEF NoSenderBlocks
    <3>4. QED
      BY <1>3, <3>1, <3>2, <3>3, ZenonT(30)
  <2>2. ASSUME NEW k \in Conns, NEW j \in Conns,
               reader'[k].at = "deliver", reader'[j].at = "deliver",
               reader'[j].msg.ch = reader'[k].msg.ch
        PROVE  j = k
    <3>1. reader'[k] = reader[k] /\ reader'[j] = reader[j]
      BY <2>2
    <3>2. QED
      BY <2>2, <3>1 DEF NoSenderBlocks
  <2>3. QED
    BY <1>1, <2>1, <2>2 DEF NoSenderBlocks
<1>10. NoWaiterForgotten'
  <2> SUFFICES ASSUME NEW c \in Calls, pc'[c] = "wait"
               PROVE  \/ chan'[Here(c)'] # <<>>
                      \/ \E k \in Conns : reader'[k].at = "deliver" /\ reader'[k].msg.ch = Here(c)'
    BY DEF NoWaiterForgotten
  <2>0. pc[c] = "wait" /\ Here(c)' = Here(c) /\ Here(c) \in Chans
    BY <1>2
  <2>1. CASE \E p \in pending : p.ch = Here(c)
    <3>1. chan'[Here(c)] = <<[kind |-> kind, by |-> Here(c)]>>
      BY <1>3, <2>0, <2>1
    <3>2. QED
      BY <2>0, <3>1
  <2>2. CASE chan[Here(c)] # <<>>
    BY <1>3, <2>0, <2>2
  <2>3. CASE \E k \in Conns : reader[k].at = "deliver" /\ reader[k].msg.ch = Here(c)
    <3>1. PICK k \in Conns : reader[k].at = "deliver" /\ reader[k].msg.ch = Here(c)
      BY <2>3
    <3>2. reader'[k] = reader[k]
      BY <3>1
    <3>3. QED
      BY <2>0, <3>1, <3>2
  <2>4. QED
    BY <2>0, <2>1, <2>2, <2>3 DEF NoWaiterForgotten
<1>11. QED
  BY <1>5, <1>6, <1>7, <1>8, <1>9, <1>10

\* Steps that touch no channel, no table and no call, and take nothing from a
\* reader's hands: the network's and most of the readers'.
LEMMA QuietInv ==
  ASSUME IInv, TypeOK', ReadersStartOnce', pending' = pending, chan' = chan, nextID' = nextID,
         try' = try, myid' = myid, wire' \subseteq wire,
         \A c \in Calls : pc'[c] = "wait" <=> pc[c] = "wait",
         \A c \in Calls : pc'[c] = "done" => pc[c] # "wait",
         \A c \in Calls : pc'[c] \notin {"wait", "done"} => pc[c] \notin {"wait", "done"},
         HandsKept
  PROVE  IInv'
<1> USE DEF IInv, HandsKept
<1>1. \A c \in Calls : Here(c)' = Here(c) /\ Here(c) \in Chans
  BY Shapes DEF Here
<1>2. \A k \in Conns : reader'[k].at = "deliver" <=> reader[k].at = "deliver"
  OBVIOUS
<1>3. \A ch \in Chans : NotBegun(ch)' => NotBegun(ch)
  BY Shapes DEF NotBegun
<1>4. IdsNameOneChannel'
  BY <1>1 DEF IdsNameOneChannel
<1>5. FreshChannels'
  BY <1>2, <1>3 DEF FreshChannels
<1>6. PendingHasItsWaiter'
  BY <1>1, Shapes DEF PendingHasItsWaiter
<1>7. RepliesReachTheirCommand'
  BY <1>2 DEF RepliesReachTheirCommand
<1>8. NoSenderBlocks'
  <2>1. ASSUME NEW k \in Conns, reader'[k].at = "deliver"
        PROVE  /\ chan'[reader'[k].msg.ch] = <<>>
               /\ \A p \in pending' : p.ch # reader'[k].msg.ch
               /\ \A j \in Conns :
                    reader'[j].at = "deliver" /\ reader'[j].msg.ch = reader'[k].msg.ch => j = k
    BY <1>2, <2>1 DEF NoSenderBlocks
  <2>2. QED
    BY <2>1 DEF NoSenderBlocks
<1>9. NoWaiterForgotten'
  BY <1>1, <1>2 DEF NoWaiterForgotten
<1>10. QED
  BY <1>4, <1>5, <1>6, <1>7, <1>8, <1>9

LEMMA ResetInv ==
  ASSUME IInv, TypeOK', ReadersStartOnce', NEW c \in Calls, Reset(c)
  PROVE  IInv'
<1>1. /\ FailAll("reconnecting") /\ nextID' = nextID /\ wire' \subseteq wire
      /\ try' = try /\ myid' = myid
  BY DEF Reset
<1>2. \A d \in Calls : pc'[d] = "wait" <=> pc[d] = "wait"
  BY DEF Reset, IInv, TypeOK
<1>3. \A d \in Calls : pc'[d] = "done" <=> pc[d] = "done"
  BY DEF Reset, IInv, TypeOK
<1>4. HandsKept
  BY DEF Reset, HandsKept
<1>5. PICK kind \in FailKinds : FailAll(kind)
  BY <1>1 DEF FailKinds
<1>6. QED
  BY <1>1, <1>2, <1>3, <1>4, <1>5, FailAllInv

LEMMA DialInv ==
  ASSUME IInv, TypeOK', ReadersStartOnce', NEW c \in Calls,
         DialFails(c) \/ Dial(c) \/ Install(c)
  PROVE  IInv'
<1>1. /\ pending' = pending /\ chan' = chan /\ nextID' = nextID
      /\ try' = try /\ myid' = myid /\ wire' \subseteq wire
  BY DEF DialFails, Dial, Install, net
<1>2. pc \in [Calls -> {"send", "wait", "reset", "dial", "install", "done"}]
      /\ reader \in [Conns -> Readers] /\ Calls \subseteq Conns
  BY DEF IInv, TypeOK, Conns
<1>3. \A d \in Calls : pc'[d] = "wait" <=> pc[d] = "wait"
  BY <1>2 DEF DialFails, Dial, Install
<1>4. \A d \in Calls : pc'[d] = "done" => pc[d] # "wait"
  BY <1>2 DEF DialFails, Dial, Install
<1>5. \A d \in Calls : pc'[d] \notin {"wait", "done"} => pc[d] \notin {"wait", "done"}
  BY <1>2 DEF DialFails, Dial, Install
<1>6. HandsKept
  <2>1. CASE DialFails(c) \/ Dial(c)
    BY <2>1 DEF DialFails, Dial, HandsKept
  <2>2. CASE Install(c)
    <3>1. reader[c].at = "off"
      BY <2>2 DEF Install, IInv, ReadersStartOnce
    <3>2. At("top").at # "deliver"
      BY DEF At
    <3>3. QED
      BY <1>2, <2>2, <3>1, <3>2, OneReader DEF Install
  <2>3. QED
    BY <2>1, <2>2
<1>7. QED
  BY <1>1, <1>3, <1>4, <1>5, <1>6, QuietInv

\* Back to the top of the loop, with nothing in hand.
LEMMA LoopInv ==
  ASSUME IInv, TypeOK', ReadersStartOnce', NEW k \in Conns, Loop(k) \/ ReadEvent(k)
  PROVE  IInv'
<1>1. /\ pending' = pending /\ chan' = chan /\ nextID' = nextID
      /\ pc' = pc /\ try' = try /\ myid' = myid /\ wire' \subseteq wire
  BY DEF Loop, ReadEvent, net, call
<1>2. HandsKept
  <2>1. PICK r \in {At("gone"), At("top"), Reading(conn)} : reader' = [reader EXCEPT ![k] = r]
    BY DEF Loop, ReadEvent
  <2>2. r.at # "deliver"
    BY DEF At, Reading
  <2>3. reader[k].at # "deliver" /\ reader \in [Conns -> Readers]
    BY DEF Loop, ReadEvent, Readable, IInv, TypeOK
  <2>4. QED
    BY <2>1, <2>2, <2>3, OneReader
<1>3. QED
  BY <1>1, <1>2, QuietInv

LEMMA FaultInv ==
  ASSUME IInv, TypeOK', ReadersStartOnce', Fault \/ UNCHANGED vars
  PROVE  IInv'
<1>1. /\ pending' = pending /\ chan' = chan /\ nextID' = nextID /\ reader' = reader
      /\ pc' = pc /\ try' = try /\ myid' = myid /\ wire' \subseteq wire
  BY DEF Fault, vars, call
<1>2. HandsKept
  BY <1>1 DEF HandsKept
<1>3. QED
  BY <1>1, <1>2, QuietInv

LEMMA ReadErrorInv ==
  ASSUME IInv, TypeOK', ReadersStartOnce', NEW k \in Conns, ReadError(k) \/ TornRead(k)
  PROVE  IInv'
<1>1. /\ nextID' = nextID /\ pc' = pc /\ try' = try /\ myid' = myid /\ wire' \subseteq wire
  BY DEF ReadError, TornRead, call, net
<1>2. HandsKept
  <2>1. PICK r : reader' = [reader EXCEPT ![k] = r] /\ r.at # "deliver"
    BY DEF ReadError, TornRead, At
  <2>2. reader[k].at # "deliver" /\ reader \in [Conns -> Readers]
    BY DEF ReadError, TornRead, Readable, IInv, TypeOK
  <2>3. QED
    BY <2>1, <2>2, OneReader
<1>3. CASE FailAll("read error")
  <2>1. PICK kind \in FailKinds : FailAll(kind)
    BY <1>3 DEF FailKinds
  <2>2. QED
    BY <1>1, <1>2, <2>1, FailAllInv
<1>4. CASE UNCHANGED <<pending, chan>>
  BY <1>1, <1>2, <1>4, QuietInv
<1>5. QED
  BY <1>3, <1>4 DEF ReadError, TornRead

\* A reply whose channel is in the table moves from the table into the reader's
\* hands; any other reply is dropped.
LEMMA ReadInv ==
  ASSUME IInv, TypeOK', ReadersStartOnce', NEW k \in Conns, Read(k)
  PROVE  IInv'
<1> USE DEF IInv
<1>1. /\ chan' = chan /\ nextID' = nextID /\ pc' = pc /\ try' = try /\ myid' = myid
      /\ reader[k].at = "read" /\ reader \in [Conns -> Readers]
  BY DEF Read, Readable, call, TypeOK
<1>2. PICK m \in wire :
        /\ wire' = wire \ {m} /\ pending' = Without(m.id)
        /\ \/ /\ \A p \in pending : p.id # m.id
              /\ reader' = [reader EXCEPT ![k] = At("top")]
           \/ \E p \in pending, kind \in ReplyKinds :
                /\ p.id = m.id
                /\ reader' = [reader EXCEPT ![k] = Delivering(p.ch, [kind |-> kind, by |-> m.by])]
  BY DEF Read
<1>3. CASE /\ \A p \in pending : p.id # m.id
           /\ reader' = [reader EXCEPT ![k] = At("top")]
  <2>1. pending' = pending
    BY <1>2, <1>3 DEF Without
  <2>2. At("top").at # "deliver"
    BY DEF At
  <2>3. HandsKept
    BY <1>1, <1>3, <2>2, OneReader
  <2>4. QED
    BY <1>1, <1>2, <2>1, <2>3, QuietInv
<1>4. ASSUME NEW p \in pending, NEW kind \in ReplyKinds, p.id = m.id,
             reader' = [reader EXCEPT ![k] = Delivering(p.ch, [kind |-> kind, by |-> m.by])]
      PROVE  IInv'
  <2>1. /\ reader'[k].at = "deliver" /\ reader'[k].msg.ch = p.ch
        /\ reader'[k].msg.ans.by = m.by
        /\ \A j \in Conns \ {k} : reader'[j] = reader[j]
    BY <1>1, <1>4 DEF Delivering
  <2>2. m.by = p.ch /\ p.ch \in Chans
    BY <1>4, Shapes DEF IdsNameOneChannel
  <2>3. \A q : q \in pending' <=> q \in pending /\ q # p
    BY <1>2, <1>4 DEF Without, IdsNameOneChannel
  <2>4. \A c \in Calls : Here(c)' = Here(c)
    BY <1>1 DEF Here
  <2>5. \A ch \in Chans : NotBegun(ch)' => NotBegun(ch)
    BY <1>1 DEF NotBegun
  <2>6. IdsNameOneChannel'
    BY <1>1, <1>2, <2>3, <2>4 DEF IdsNameOneChannel
  <2>7. FreshChannels'
    <3> SUFFICES ASSUME NEW ch \in Chans, NotBegun(ch), NEW j \in Conns, reader'[j].at = "deliver"
                 PROVE  reader'[j].msg.ch # ch
      BY <1>1, <2>5 DEF FreshChannels
    <3>1. p.ch # ch
      BY Shapes DEF PendingHasItsWaiter, NotBegun
    <3>2. QED
      BY <2>1, <3>1 DEF FreshChannels
  <2>8. PendingHasItsWaiter'
    BY <1>1, <2>3, Shapes, <2>4 DEF PendingHasItsWaiter
  <2>9. RepliesReachTheirCommand'
    BY <1>1, <2>1, <2>2 DEF RepliesReachTheirCommand
  <2>10. NoSenderBlocks'
    <3>1. chan[p.ch] = <<>> /\ \A q \in pending' : q.ch # p.ch
      BY <2>3 DEF NoSenderBlocks
    <3>2. \A j \in Conns \ {k} : reader[j].at = "deliver" => reader[j].msg.ch # p.ch
      BY DEF NoSenderBlocks
    <3>3. QED
      BY <1>1, <2>1, <2>3, <3>1, <3>2 DEF NoSenderBlocks
  <2>11. NoWaiterForgotten'
    <3> SUFFICES ASSUME NEW c \in Calls, pc[c] = "wait"
                 PROVE  \/ \E q \in pending' : q.ch = Here(c)
                        \/ chan[Here(c)] # <<>>
                        \/ \E j \in Conns : reader'[j].at = "deliver" /\ reader'[j].msg.ch = Here(c)
      BY <1>1, <2>4 DEF NoWaiterForgotten
    <3>1. CASE \E q \in pending : q.ch = Here(c)
      BY <2>1, <2>3, <3>1
    <3>2. CASE \E j \in Conns : reader[j].at = "deliver" /\ reader[j].msg.ch = Here(c)
      BY <1>1, <2>1, <3>2
    <3>3. QED
      BY <3>1, <3>2 DEF NoWaiterForgotten
  <2>12. QED
    BY <2>6, <2>7, <2>8, <2>9, <2>10, <2>11
<1>5. QED
  BY <1>2, <1>3, <1>4

\* The answer moves from the reader's hands into the channel, which is empty.
LEMMA DeliverInv ==
  ASSUME IInv, TypeOK', ReadersStartOnce', NEW k \in Conns, Deliver(k)
  PROVE  IInv'
<1> USE DEF IInv
<1> DEFINE to == reader[k].msg.ch
           ans == reader[k].msg.ans
<1>1. /\ nextID' = nextID /\ pc' = pc /\ try' = try /\ myid' = myid
      /\ pending' = pending /\ wire' = wire /\ reader[k].at = "deliver"
  BY DEF Deliver, call, net
<1>2. to \in Chans /\ ans.by = to
  <2>1. reader[k] \in Readers
    BY DEF TypeOK
  <2>2. QED
    BY <1>1, <2>1 DEF Readers, RepliesReachTheirCommand
<1>3. chan'[to] = <<ans>> /\ \A ch \in Chans \ {to} : chan'[ch] = chan[ch]
  BY <1>2 DEF Deliver, TypeOK
<1>4. reader'[k].at = "top" /\ \A j \in Conns \ {k} : reader'[j] = reader[j]
  BY DEF Deliver, TypeOK, At
<1>5. \A j \in Conns \ {k} : reader[j].at = "deliver" =>
         reader[j].msg.ch # to /\ reader[j].msg.ch \in Chans
  BY <1>1 DEF NoSenderBlocks, TypeOK, Readers
<1>6. \A p \in pending : p.ch # to /\ p.ch \in Chans
  BY <1>1, Shapes DEF NoSenderBlocks
<1>7. \A c \in Calls : Here(c)' = Here(c) /\ Here(c) \in Chans
  BY <1>1, Shapes DEF Here
<1> HIDE DEF to, ans
<1>8. IdsNameOneChannel'
  BY <1>1, <1>7 DEF IdsNameOneChannel
<1>9. FreshChannels'
  <2> SUFFICES ASSUME NEW ch \in Chans, NotBegun(ch)
               PROVE  /\ chan'[ch] = <<>>
                      /\ \A j \in Conns : reader'[j].at = "deliver" => reader'[j].msg.ch # ch
    BY <1>1 DEF FreshChannels, NotBegun
  <2>1. ch # to
    BY <1>1 DEF FreshChannels, to
  <2>2. QED
    BY <1>3, <1>4, <2>1 DEF FreshChannels
<1>10. PendingHasItsWaiter'
  BY <1>1, <1>7, Shapes DEF PendingHasItsWaiter
<1>11. RepliesReachTheirCommand'
  <2>1. ASSUME NEW ch \in Chans, NEW i \in DOMAIN chan'[ch] PROVE chan'[ch][i].by = ch
    <3>1. CASE ch = to
      BY <1>2, <1>3, <2>1, <3>1
    <3>2. CASE ch # to
      BY <1>3, <2>1, <3>2 DEF RepliesReachTheirCommand
    <3>3. QED
      BY <3>1, <3>2
  <2>2. QED
    BY <1>4, <2>1 DEF RepliesReachTheirCommand
<1>12. NoSenderBlocks'
  BY <1>1, <1>3, <1>4, <1>5, <1>6 DEF NoSenderBlocks
<1>13. NoWaiterForgotten'
  <2> SUFFICES ASSUME NEW c \in Calls, pc[c] = "wait"
               PROVE  \/ \E q \in pending : q.ch = Here(c)
                      \/ chan'[Here(c)] # <<>>
                      \/ \E j \in Conns : reader'[j].at = "deliver" /\ reader'[j].msg.ch = Here(c)
    BY <1>1, <1>7 DEF NoWaiterForgotten
  <2>1. CASE Here(c) = to
    BY <1>3, <2>1
  <2>2. CASE Here(c) # to
    <3>1. chan'[Here(c)] = chan[Here(c)]
      BY <1>3, <1>7, <2>2
    <3>2. \A j \in Conns : reader[j].at = "deliver" /\ reader[j].msg.ch = Here(c)
                          => reader'[j] = reader[j]
      BY <1>4, <2>2 DEF to
    <3>3. QED
      BY <3>1, <3>2 DEF NoWaiterForgotten
  <2>3. QED
    BY <2>1, <2>2
<1>14. QED
  BY <1>8, <1>9, <1>10, <1>11, <1>12, <1>13

\* The reader of a connection that is not installed yet has not been started.
LEMMA OnceInductive ==
  ASSUME TypeOK, ReadersStartOnce, [Next]_vars
  PROVE  ReadersStartOnce'
<1> USE DEF net, call, At
<1>1. Calls \subseteq Conns
  BY DEF Conns
<1>2. ASSUME NEW c \in Calls, CallStep(c) PROVE ReadersStartOnce'
  <2>1. CASE \E kind : Finish(c, kind) /\ reader' = reader /\ pc[c] \in {"send", "wait"}
    <3>1. PICK kind : Finish(c, kind)
      BY <2>1
    <3>2. \A d \in Calls \ {c} : pc'[d] = pc[d] /\ try'[d] = try[d]
      BY <3>1, FinishOthers
    <3>3. pc'[c] \in {"reset", "done"}
      BY <3>1, FinishOthers
    <3>4. /\ pc'[c] = "reset" => try[c] = 1 /\ try'[c] = 2
          /\ try'[c] = 1 => try[c] = 1
      BY <3>1, <3>3 DEF Finish, TypeOK
    <3>5. QED
      BY <2>1, <3>2, <3>3, <3>4 DEF ReadersStartOnce
  <2>2. CASE Write(c) \/ Reset(c) \/ DialFails(c) \/ Dial(c)
    BY <2>2 DEF Write, Reset, DialFails, Dial, ReadersStartOnce, TypeOK
  <2>3. CASE Install(c)
    BY <1>1, <2>3 DEF Install, ReadersStartOnce, TypeOK
  <2>4. CASE NotConnected(c) \/ WriteFails(c) \/ Timeout(c)
    <3>1. /\ Finish(c, "not connected") \/ Finish(c, "write") \/ Finish(c, "timeout")
          /\ reader' = reader /\ pc[c] \in {"send", "wait"}
      BY <2>4 DEF NotConnected, WriteFails, Timeout
    <3>2. QED
      BY <3>1, <2>1
  <2>5. CASE Receive(c)
    <3>1. Finish(c, Head(chan[Here(c)]).kind) /\ reader' = reader /\ pc[c] \in {"send", "wait"}
      BY <2>5 DEF Receive
    <3>2. QED
      BY <3>1, <2>1
  <2>6. QED
    BY <1>2, <2>2, <2>3, <2>4, <2>5 DEF CallStep
<1>3. ASSUME NEW k \in Conns, ReaderStep(k) PROVE ReadersStartOnce'
  <2>1. pc' = pc /\ try' = try
    BY <1>3 DEF ReaderStep, Loop, Read, Deliver, ReadEvent, ReadError, TornRead
  <2>2. reader[k].at # "off" /\ \A j \in Conns \ {k} : reader'[j] = reader[j]
    BY <1>3 DEF ReaderStep, Loop, Read, Deliver, ReadEvent, ReadError, TornRead, Readable, TypeOK
  <2>3. QED
    BY <1>1, <2>1, <2>2 DEF ReadersStartOnce
<1>4. CASE Fault \/ UNCHANGED vars
  BY <1>4 DEF Fault, vars, ReadersStartOnce
<1>5. QED
  BY <1>2, <1>3, <1>4 DEF Next

LEMMA InitIInv == ASSUME Init PROVE IInv
<1> USE DEF Init, At
<1>1. TypeOK
  BY TypeInductive
<1>2. ReadersStartOnce
  BY CallsAssumption DEF ReadersStartOnce, Conns
<1>3. IdsNameOneChannel /\ PendingHasItsWaiter /\ NoWaiterForgotten
  BY DEF IdsNameOneChannel, PendingHasItsWaiter, NoWaiterForgotten
<1>4. FreshChannels /\ RepliesReachTheirCommand /\ NoSenderBlocks
  <2>1. /\ \A ch \in Chans : chan[ch] = <<>>
        /\ \A k \in Conns : reader[k].at # "deliver"
        /\ pending = {}
    OBVIOUS
  <2> HIDE DEF Init
  <2>2. QED
    BY <2>1 DEF FreshChannels, RepliesReachTheirCommand, NoSenderBlocks
<1>5. QED
  BY <1>1, <1>2, <1>3, <1>4 DEF IInv

\* Every step preserves the inductive invariant.
LEMMA StepIInv == ASSUME IInv, [Next]_vars PROVE IInv'
<1>1. TypeOK'
  BY TypeInductive DEF IInv
<1>2. ReadersStartOnce'
  BY OnceInductive DEF IInv
<1>3. ASSUME NEW c \in Calls, CallStep(c) PROVE IInv'
  BY <1>1, <1>2, <1>3, NotConnectedInv, WriteInv, ReceiveInv, TimeoutInv, ResetInv, DialInv
  DEF CallStep
<1>4. ASSUME NEW k \in Conns, ReaderStep(k) PROVE IInv'
  BY <1>1, <1>2, <1>4, LoopInv, ReadInv, DeliverInv, ReadErrorInv DEF ReaderStep
<1>5. CASE Fault \/ UNCHANGED vars
  BY <1>1, <1>2, <1>5, FaultInv
<1>6. QED
  BY <1>3, <1>4, <1>5 DEF Next

\* The inductive invariant holds of every behaviour.
THEOREM Invariant == Spec => []IInv
  BY InitIInv, StepIInv, PTL DEF Spec

\* The mutex is never held by a goroutine that waits for room in a channel, and
\* no reader waits for it either.
THEOREM SendersNeverBlock == Spec => []NoSenderBlocks
<1>1. IInv => NoSenderBlocks
  BY DEF IInv
<1>2. QED
  BY <1>1, Invariant, PTL

\* Whatever reaches an invocation of sendNoRetry answers its own command.
THEOREM RepliesMatch == Spec => []RepliesReachTheirCommand
<1>1. IInv => RepliesReachTheirCommand
  BY DEF IInv
<1>2. QED
  BY <1>1, Invariant, PTL

\* No entry of the pending table is left behind by the call that made it.
THEOREM TableMatchesWaiters == Spec => []PendingHasItsWaiter
<1>1. IInv => PendingHasItsWaiter
  BY DEF IInv
<1>2. QED
  BY <1>1, Invariant, PTL

\* A call that waits is in the table, or has an answer on the way: whoever fails
\* the table or closes a connection wakes everybody who depends on it.
THEOREM NobodyForgotten == Spec => []NoWaiterForgotten
<1>1. IInv => NoWaiterForgotten
  BY DEF IInv
<1>2. QED
  BY <1>1, Invariant, PTL

\* A Client whose redial failed while no other call was on its way stays dead:
\* no step of any call or reader brings a connection back.
THEOREM DeadClientStaysDead == Spec => LostForGood
<1>1. TypeOK /\ Lost /\ [Next]_vars => Lost'
  <2> SUFFICES ASSUME TypeOK, Lost, [Next]_vars PROVE Lost'
    OBVIOUS
  <2>1. ASSUME NEW c \in Calls, CallStep(c) PROVE Lost'
    <3>1. NotConnected(c)
      BY <2>1 DEF CallStep, Lost, Write, WriteFails, Receive, Timeout, Reset, DialFails, Dial, Install
    <3>2. conn' = conn /\ pc'[c] = "done"
      BY <3>1 DEF NotConnected, Finish, Retried, TypeOK
    <3>3. \A d \in Calls \ {c} : pc'[d] = pc[d]
      BY <3>1, FinishOthers DEF NotConnected
    <3>4. QED
      BY <3>2, <3>3 DEF Lost
  <2>2. ASSUME NEW k \in Conns, ReaderStep(k) PROVE Lost'
    BY <2>2 DEF ReaderStep, Loop, Read, Deliver, ReadEvent, ReadError, TornRead, call, Lost
  <2>3. CASE Fault \/ UNCHANGED vars
    BY <2>3 DEF Fault, vars, call, Lost
  <2>4. QED
    BY <2>1, <2>2, <2>3 DEF Next
<1>2. QED
  BY <1>1, TypeCorrect, PTL DEF Spec, LostForGood

-----------------------------------------------------------------------------
(***************************************************************************)
(* The client implements its service.                                      *)
(***************************************************************************)

\* An attempt is written once, and only when it begins; and a channel never
\* holds two answers.
AttemptsOnce ==
  /\ \A m, n \in wire : m.by = n.by => m = n
  /\ \A m \in wire : ~NotBegun(m.by)
  /\ \A ch \in Chans : Len(chan[ch]) <= 1

Kept == IInv /\ AttemptsOnce

\* No step makes an attempt one that has not begun.
LEMMA BeginsOnce ==
  ASSUME IInv, [Next]_vars, NEW ch \in Chans, NotBegun(ch)'
  PROVE  NotBegun(ch)
<1> USE DEF net, call
<1>0. TypeOK /\ ch[1] \in Calls /\ ch[2] \in {1, 2}
  BY Shapes DEF IInv
<1>1. ASSUME NEW c \in Calls, CallStep(c) PROVE NotBegun(ch)
  <2>1. CASE NotConnected(c) \/ WriteFails(c) \/ Timeout(c)
    BY <1>0, <2>1, FinishBegins DEF NotConnected, WriteFails, Timeout
  <2>2. CASE Receive(c)
    BY <1>0, <2>2, FinishBegins DEF Receive
  <2>3. CASE Write(c) \/ Reset(c) \/ DialFails(c) \/ Dial(c) \/ Install(c)
    <3>1. try' = try /\ pc[c] \notin {"wait", "done"} /\ \A d \in Calls \ {c} : pc'[d] = pc[d]
      BY <1>0, <2>3 DEF Write, Reset, DialFails, Dial, Install, TypeOK
    <3>2. QED
      BY <1>0, <3>1 DEF NotBegun
  <2>4. QED
    BY <1>1, <2>1, <2>2, <2>3 DEF CallStep
<1>2. CASE \E k \in Conns : ReaderStep(k)
  BY <1>2 DEF ReaderStep, Loop, Read, Deliver, ReadEvent, ReadError, TornRead, NotBegun
<1>3. CASE Fault \/ UNCHANGED vars
  BY <1>3 DEF Fault, vars, NotBegun
<1>4. QED
  BY <1>1, <1>2, <1>3 DEF Next

\* What a step may do to a channel: nothing, take its answer, or fill it.
LEMMA OneAnswer ==
  ASSUME IInv, AttemptsOnce, [Next]_vars
  PROVE  \A ch \in Chans : Len(chan'[ch]) <= 1
<1> USE DEF net, call
<1>0. chan \in [Chans -> Seq(Answers)] /\ \A ch \in Chans : Len(chan[ch]) <= 1
  BY DEF IInv, TypeOK, AttemptsOnce
<1>1. ASSUME NEW c \in Calls, Receive(c) PROVE \A ch \in Chans : Len(chan'[ch]) <= 1
  <2>1. Here(c) \in Chans /\ chan[Here(c)] # <<>>
    BY <1>1, Shapes DEF IInv, Receive
  <2>2. Len(Tail(chan[Here(c)])) = Len(chan[Here(c)]) - 1
    BY <1>0, <2>1, HeadTailProperties
  <2>3. chan' = [chan EXCEPT ![Here(c)] = Tail(chan[Here(c)])]
    BY <1>1 DEF Receive
  <2>4. Len(chan[Here(c)]) \in Nat
    BY <1>0, <2>1
  <2>5. QED
    BY <1>0, <2>1, <2>2, <2>3, <2>4
<1>2. ASSUME NEW kind, FailAll(kind) PROVE \A ch \in Chans : Len(chan'[ch]) <= 1
  BY <1>0, <1>2 DEF FailAll
<1>3. ASSUME NEW k \in Conns, Deliver(k) PROVE \A ch \in Chans : Len(chan'[ch]) <= 1
  BY <1>0, <1>3 DEF Deliver
<1>4. \/ \E c \in Calls : Receive(c)
      \/ \E k \in Conns : Deliver(k)
      \/ FailAll("reconnecting") \/ FailAll("read error")
      \/ chan' = chan
  BY DEF Next, CallStep, NotConnected, Write, WriteFails, Timeout, Reset, DialFails, Dial, Install,
         ReaderStep, Loop, Read, ReadEvent, ReadError, TornRead, Fault, vars
<1>5. QED
  BY <1>0, <1>1, <1>2, <1>3, <1>4

LEMMA KeptStep == ASSUME Kept, [Next]_vars PROVE Kept'
<1> USE DEF Kept
<1>1. IInv' /\ \A ch \in Chans : Len(chan'[ch]) <= 1
  BY StepIInv, OneAnswer
<1>2. \A m \in wire : m.by \in Chans
  BY Shapes DEF IInv
<1>3. ASSUME NEW c \in Calls, Write(c), wire' # wire PROVE AttemptsOnce'
  <2>1. /\ Here(c) \in Chans /\ Here(c)' = Here(c)
        /\ NotBegun(Here(c)) /\ ~NotBegun(Here(c))'
    <3>1. Here(c) \in Chans /\ Here(c)[1] = c /\ Here(c)[2] = try[c] /\ try[c] \in {1, 2}
      BY Shapes DEF IInv, TypeOK
    <3>2. pc[c] = "send" /\ pc'[c] = "wait" /\ try' = try
      BY <1>3 DEF Write, IInv, TypeOK
    <3>3. Here(c)' = Here(c)
      BY <3>2 DEF Here
    <3>4. NotBegun(Here(c)) /\ ~NotBegun(Here(c))'
      BY <3>1, <3>2, <3>3 DEF NotBegun
    <3>5. QED
      BY <3>1, <3>3, <3>4
  <2>2. wire' = wire \cup {[conn |-> conn, id |-> nextID', by |-> Here(c)]}
    BY <1>3 DEF Write
  <2>3. \A m \in wire : m.by # Here(c) /\ ~NotBegun(m.by)'
    BY <1>2, <2>1, BeginsOnce DEF AttemptsOnce
  <2>4. \A m \in wire' :
          m \in wire \/ m = [conn |-> conn, id |-> nextID', by |-> Here(c)]
    BY <2>2
  <2>5. \A m \in wire' \ wire : m.by = Here(c)
    BY <2>4
  <2>6. \A m, n \in wire' : m.by = n.by => m = n
    BY <2>3, <2>4, <2>5 DEF AttemptsOnce
  <2>7. \A m \in wire' : ~NotBegun(m.by)'
    BY <2>1, <2>3, <2>5
  <2>8. QED
    BY <1>1, <2>6, <2>7 DEF AttemptsOnce
<1>4. CASE wire' \subseteq wire
  <2>1. \A m \in wire : ~NotBegun(m.by)'
    BY <1>2, BeginsOnce DEF AttemptsOnce
  <2>2. QED
    BY <1>1, <1>4, <2>1 DEF AttemptsOnce
<1>5. (\E c \in Calls : Write(c)) \/ wire' \subseteq wire
  BY DEF Next, CallStep, NotConnected, WriteFails, Receive, Timeout, Reset, DialFails, Dial, Install,
         ReaderStep, Loop, Read, Deliver, ReadEvent, ReadError, TornRead, Fault, vars, net
<1>6. QED
  BY <1>1, <1>3, <1>4, <1>5

\* The state of the service.
Callers    == [c \in Calls |-> Phase(c)]
Unanswered == {m.by : m \in wire}
Held       == {ans.by : ans \in {a \in InHands : a.kind \in ReplyKinds}}

\* A reply to this attempt is in its channel, or in the hands of a reader.
Carries(ch) ==
  \/ chan[ch] # <<>> /\ Head(chan[ch]).kind \in ReplyKinds
  \/ \E k \in Conns : /\ reader[k].at = "deliver" /\ reader[k].msg.ch = ch
                      /\ reader[k].msg.ans.kind \in ReplyKinds

LEMMA HeldIs == IInv => Held = {ch \in Chans : Carries(ch)}
<1> SUFFICES ASSUME IInv PROVE Held = {ch \in Chans : Carries(ch)}
  OBVIOUS
<1>1. \A ch \in Chans : chan[ch] # <<>> => Head(chan[ch]) = chan[ch][1] /\ Head(chan[ch]).by = ch
  <2> SUFFICES ASSUME NEW ch \in Chans, chan[ch] # <<>>
               PROVE  Head(chan[ch]) = chan[ch][1] /\ Head(chan[ch]).by = ch
    OBVIOUS
  <2>1. chan[ch] \in Seq(Answers)
    BY DEF IInv, TypeOK
  <2>2. 1 \in DOMAIN chan[ch] /\ Head(chan[ch]) = chan[ch][1]
    BY <2>1
  <2>3. QED
    BY <2>2 DEF IInv, RepliesReachTheirCommand
<1>2. \A k \in Conns : reader[k].at = "deliver" =>
        reader[k].msg.ch \in Chans /\ reader[k].msg.ans.by = reader[k].msg.ch
  BY DEF IInv, TypeOK, Readers, RepliesReachTheirCommand
<1>3. ASSUME NEW by \in Held PROVE by \in Chans /\ Carries(by)
  BY <1>1, <1>2, <1>3 DEF Held, InHands, Carries
<1>4. ASSUME NEW ch \in Chans, Carries(ch) PROVE ch \in Held
  BY <1>1, <1>2, <1>4 DEF Held, InHands, Carries
<1>5. QED
  BY <1>3, <1>4

LEMMA HeldNext == IInv' => (Held = {ch \in Chans : Carries(ch)})'
<1>1. (IInv => Held = {ch \in Chans : Carries(ch)})'
  BY HeldIs, PTL
<1>2. QED
  BY <1>1

\* When the same replies are carried as before.
LEMMA SameHeld ==
  ASSUME IInv, IInv', \A ch \in Chans : Carries(ch)' <=> Carries(ch)
  PROVE  Held' = Held
<1>1. (Held = {ch \in Chans : Carries(ch)})'
  BY HeldNext
<1>2. QED
  BY <1>1, HeldIs

\* Where a call is, for its caller, when it is the only one that moves.
LEMMA OneCaller ==
  ASSUME TypeOK, TypeOK', NEW c \in Calls,
         \A d \in Calls \ {c} : pc'[d] = pc[d] /\ try'[d] = try[d]
  PROVE  /\ Callers' = [Callers EXCEPT ![c] = Phase(c)']
         /\ Callers[c] = Phase(c)
<1>1. \A d \in Calls \ {c} : Phase(d)' = Phase(d)
  BY DEF Phase
<1>2. QED
  BY <1>1 DEF Callers

LEMMA SameCallers ==
  ASSUME \A c \in Calls : Phase(c)' = Phase(c)
  PROVE  Callers' = Callers
  BY DEF Callers

\* The end of an attempt is a retry of the first, or the end of the call.
LEMMA AttemptEnds ==
  ASSUME TypeOK, TypeOK', NEW c \in Calls, NEW kind, Finish(c, kind), pc[c] \in {"send", "wait"}
  PROVE  /\ Callers[c] = [at |-> IF pc[c] = "wait" THEN "out" ELSE "before", attempt |-> try[c]]
         /\ \/ /\ try[c] = 1 /\ kind \in Retried
               /\ Callers' = [Callers EXCEPT ![c] = [at |-> "before", attempt |-> 2]]
            \/ /\ ~(try[c] = 1 /\ kind \in Retried)
               /\ Callers' = [Callers EXCEPT ![c] = [at |-> "back", attempt |-> 0]]
<1>1. Callers' = [Callers EXCEPT ![c] = Phase(c)'] /\ Callers[c] = Phase(c)
  BY FinishOthers, OneCaller
<1>2. Phase(c) = [at |-> IF pc[c] = "wait" THEN "out" ELSE "before", attempt |-> try[c]]
  BY DEF Phase
<1>3. CASE try[c] = 1 /\ kind \in Retried
  <2>1. pc'[c] = "reset" /\ try'[c] = 2
    BY <1>3 DEF Finish, TypeOK
  <2>2. Phase(c)' = [at |-> "before", attempt |-> 2]
    BY <2>1 DEF Phase
  <2>3. QED
    BY <1>1, <1>2, <1>3, <2>2
<1>4. CASE ~(try[c] = 1 /\ kind \in Retried)
  <2>1. pc'[c] = "done"
    BY <1>4 DEF Finish, TypeOK
  <2>2. Phase(c)' = [at |-> "back", attempt |-> 0]
    BY <2>1 DEF Phase
  <2>3. QED
    BY <1>1, <1>2, <1>4, <2>2
<1>5. QED
  BY <1>3, <1>4

\* The same, for an attempt that ends with an error of this client.
LEMMA AttemptFails ==
  ASSUME TypeOK, TypeOK', NEW c \in Calls, NEW kind, Finish(c, kind), pc[c] \in {"send", "wait"},
         Unanswered' = Unanswered, Held' = Held
  PROVE  Service!Next
<1>1. try[c] \in {1, 2}
  BY DEF TypeOK
<1>2. CASE Callers' = [Callers EXCEPT ![c] = [at |-> "before", attempt |-> 2]]
           /\ try[c] = 1
  <2>1. Callers[c] \in {[at |-> "before", attempt |-> 1], [at |-> "out", attempt |-> 1]}
    BY <1>2, AttemptEnds
  <2>2. Service!Retries(c)
    BY <1>2, <2>1 DEF Service!Retries, Service!Before, Service!Out, Callers, Unanswered, Held
  <2>3. QED
    BY <2>2 DEF Service!Next
<1>3. CASE Callers' = [Callers EXCEPT ![c] = [at |-> "back", attempt |-> 0]]
  <2>1. Callers[c] # [at |-> "back", attempt |-> 0]
    <3>1. Callers[c] = [at |-> IF pc[c] = "wait" THEN "out" ELSE "before", attempt |-> try[c]]
      BY AttemptEnds
    <3>2. Callers[c].at # "back"
      BY <3>1
    <3>3. QED
      BY <3>2
  <2>2. Service!ReturnsError(c)
    BY <1>3, <2>1 DEF Service!ReturnsError, Service!Back, Callers, Unanswered, Held
  <2>3. QED
    BY <2>2 DEF Service!Next
<1>4. QED
  BY <1>2, <1>3, AttemptEnds

\* The attempt ends without an answer: it is retried, or the call returns.
LEMMA FailsServes ==
  ASSUME Kept, Kept', NEW c \in Calls, NotConnected(c) \/ WriteFails(c) \/ Timeout(c)
  PROVE  Service!Next
<1>0. TypeOK /\ TypeOK' /\ IInv /\ IInv'
  BY DEF Kept, IInv
<1>1. PICK kind : Finish(c, kind)
  BY DEF NotConnected, WriteFails, Timeout
<1>2. pc[c] \in {"send", "wait"} /\ UNCHANGED <<chan, reader, wire>>
  BY DEF NotConnected, WriteFails, Timeout, net
<1>3. Held' = Held
  BY <1>2 DEF Held, InHands
<1>4. QED
  BY <1>0, <1>1, <1>2, <1>3, AttemptFails DEF Unanswered

\* The command is written, or was to a peer that is gone.
LEMMA WriteServes ==
  ASSUME Kept, Kept', NEW c \in Calls, Write(c)
  PROVE  Service!Next
<1>0. TypeOK /\ TypeOK'
  BY DEF Kept, IInv
<1>1. /\ pc[c] = "send" /\ pc'[c] = "wait" /\ try' = try /\ UNCHANGED <<chan, reader>>
      /\ \A d \in Calls \ {c} : pc'[d] = pc[d]
  BY <1>0 DEF Write, TypeOK
<1>2. Held' = Held
  BY <1>1 DEF Held, InHands
<1>3. /\ Callers' = [Callers EXCEPT ![c] = Phase(c)'] /\ Callers[c] = Phase(c)
      /\ Phase(c) = [at |-> "before", attempt |-> try[c]]
      /\ Phase(c)' = [at |-> "out", attempt |-> try[c]]
  BY <1>0, <1>1, OneCaller DEF Phase
<1>4. Callers[c].at = "before" /\ Callers' = [Callers EXCEPT ![c].at = "out"]
  <2>1. Callers[c].at = "before" /\ [Callers[c] EXCEPT !.at = "out"] = Phase(c)'
    BY <1>3
  <2>2. QED
    BY <1>3, <2>1
<1>5. Unanswered' \in {Unanswered, Unanswered \cup {<<c, Callers[c].attempt>>}}
  <2>1. wire' = wire \/ wire' = wire \cup {[conn |-> conn, id |-> nextID', by |-> Here(c)]}
    BY DEF Write
  <2>2. Here(c) = <<c, Callers[c].attempt>>
    BY <1>3 DEF Here
  <2>3. QED
    BY <2>1, <2>2 DEF Unanswered
<1>6. Service!Writes(c)
  BY <1>2, <1>3, <1>4, <1>5 DEF Service!Writes, Service!Attempt, Callers, Unanswered, Held
<1>7. QED
  BY <1>6 DEF Service!Next

\* The waiting call takes what is in its channel: the reply to its attempt, an
\* error of the browser that is retried, or the word that the connection is gone.
LEMMA ReceiveServes ==
  ASSUME Kept, Kept', NEW c \in Calls, Receive(c)
  PROVE  Service!Next
<1> DEFINE q == chan[Here(c)]
           kind == Head(q).kind
<1>0. TypeOK /\ TypeOK' /\ IInv /\ IInv' /\ AttemptsOnce
  BY DEF Kept, IInv
<1>1. pc[c] = "wait" /\ q # <<>> /\ Finish(c, kind) /\ wire' = wire /\ reader' = reader
  BY DEF Receive, net
<1>2. /\ Here(c) \in Chans /\ Here(c) = <<c, try[c]>> /\ q \in Seq(Answers) /\ Len(q) <= 1
  BY <1>0, Shapes DEF AttemptsOnce, TypeOK, Here
<1>3. kind \in ReplyKinds \cup FailKinds
  <2>1. q[1] \in Answers /\ Head(q) = q[1]
    BY <1>1, <1>2
  <2>2. QED
    BY <2>1 DEF Answers
<1>4. chan'[Here(c)] = <<>> /\ \A ch \in Chans \ {Here(c)} : chan'[ch] = chan[ch]
  <2>1. Tail(q) = <<>>
    BY <1>1, <1>2
  <2>2. QED
    BY <1>0, <1>2, <2>1 DEF Receive, TypeOK
<1>5. \A k \in Conns : reader[k].at = "deliver" => reader[k].msg.ch # Here(c)
  BY <1>0, <1>1 DEF IInv, NoSenderBlocks
<1>6. \A ch \in Chans : Carries(ch)' <=> Carries(ch) /\ ch # Here(c)
  BY <1>1, <1>4, <1>5 DEF Carries
<1>7. Carries(Here(c)) <=> kind \in ReplyKinds
  BY <1>1, <1>5 DEF Carries
<1>8. Held = {ch \in Chans : Carries(ch)} /\ (Held = {ch \in Chans : Carries(ch)})'
  BY <1>0, HeldIs, HeldNext
<1>9. Held' = Held \ {Here(c)} /\ (Here(c) \in Held <=> kind \in ReplyKinds)
  BY <1>2, <1>6, <1>7, <1>8
<1>10. Callers[c] = [at |-> "out", attempt |-> try[c]] /\ try[c] \in {1, 2}
  BY <1>0, <1>1, AttemptEnds DEF TypeOK
<1> HIDE DEF q, kind
<1>11. CASE kind \notin ReplyKinds
  <2>1. Held' = Held
    BY <1>9, <1>11
  <2>2. QED
    BY <1>0, <1>1, <2>1, AttemptFails DEF Unanswered
<1>12. CASE kind \in ReplyKinds /\ try[c] = 1 /\ kind \in Retried
  <2>1. Callers' = [Callers EXCEPT ![c] = [at |-> "before", attempt |-> 2]]
    BY <1>0, <1>1, <1>12, AttemptEnds
  <2>2. Service!Retries(c)
    BY <1>1, <1>2, <1>9, <1>10, <1>12, <2>1
    DEF Service!Retries, Service!Before, Service!Out, Service!Attempt, Callers, Unanswered, Held
  <2>3. QED
    BY <2>2 DEF Service!Next
<1>13. CASE kind \in ReplyKinds /\ ~(try[c] = 1 /\ kind \in Retried)
  <2>1. Callers' = [Callers EXCEPT ![c] = [at |-> "back", attempt |-> 0]]
    BY <1>0, <1>1, <1>13, AttemptEnds
  <2>2. Service!ReturnsReply(c)
    BY <1>1, <1>2, <1>9, <1>10, <1>13, <2>1
    DEF Service!ReturnsReply, Service!Back, Service!Attempt, Callers, Unanswered, Held
  <2>3. QED
    BY <2>2 DEF Service!Next
<1>14. QED
  BY <1>11, <1>12, <1>13

\* Nothing changes for the callers, and no reply is taken: at most some are lost.
LEMMA Loses ==
  ASSUME \A c \in Calls : Phase(c)' = Phase(c), wire' \subseteq wire, Held' = Held
  PROVE  Service!Next
<1>1. Callers' = Callers /\ Unanswered' \subseteq Unanswered
  BY SameCallers DEF Unanswered
<1>2. Service!Loses
  BY <1>1 DEF Service!Loses, Callers, Unanswered, Held
<1>3. QED
  BY <1>2 DEF Service!Next

\* Failing the table puts no reply of the browser into a channel, and takes none.
LEMMA FailAllHeld ==
  ASSUME IInv, IInv', NEW kind \in FailKinds, FailAll(kind), HandsKept
  PROVE  Held' = Held
<1>1. kind \notin ReplyKinds
  BY CallsAssumption DEF FailKinds
<1>2. ASSUME NEW ch \in Chans
      PROVE  \/ chan'[ch] = chan[ch]
             \/ chan[ch] = <<>> /\ chan'[ch] = <<[kind |-> kind, by |-> ch]>>
  BY DEF FailAll
<1>3. ASSUME NEW ch \in Chans PROVE Carries(ch)' <=> Carries(ch)
  <2>1. /\ chan'[ch] # <<>> /\ Head(chan'[ch]).kind \in ReplyKinds
        <=> chan[ch] # <<>> /\ Head(chan[ch]).kind \in ReplyKinds
    <3>1. CASE chan'[ch] = chan[ch]
      BY <3>1
    <3>2. CASE chan[ch] = <<>> /\ chan'[ch] = <<[kind |-> kind, by |-> ch]>>
      <4>1. Head(chan'[ch]).kind = kind
        BY <3>2
      <4>2. QED
        BY <1>1, <3>2, <4>1
    <3>3. QED
      BY <1>2, <3>1, <3>2
  <2>2. \A k \in Conns : reader'[k].at = "deliver" \/ reader[k].at = "deliver"
                         => reader'[k] = reader[k]
    BY DEF HandsKept
  <2>3. QED
    BY <2>1, <2>2 DEF Carries
<1>4. QED
  BY <1>3, SameHeld

LEMMA QuietHeld ==
  ASSUME IInv, IInv', chan' = chan, HandsKept
  PROVE  Held' = Held
<1>1. \A k \in Conns : reader'[k].at = "deliver" \/ reader[k].at = "deliver"
                       => reader'[k] = reader[k]
  BY DEF HandsKept
<1>2. \A ch \in Chans : Carries(ch)' <=> Carries(ch)
  BY <1>1 DEF Carries
<1>3. QED
  BY <1>2, SameHeld

\* Reconnect: the callers see it only when the dial fails.
LEMMA ReconnectServes ==
  ASSUME Kept, Kept', NEW c \in Calls, Reset(c) \/ DialFails(c) \/ Dial(c) \/ Install(c)
  PROVE  Service!Next
<1>0. TypeOK /\ TypeOK' /\ IInv /\ IInv' /\ Calls \subseteq Conns
  BY DEF Kept, IInv, Conns
<1>1. /\ pc[c] \in {"reset", "dial", "install"} /\ try' = try /\ wire' \subseteq wire
      /\ \A d \in Calls \ {c} : pc'[d] = pc[d]
  BY <1>0 DEF Reset, DialFails, Dial, Install, net, TypeOK
<1>2. HandsKept
  <2>1. CASE reader' = reader
    BY <2>1 DEF HandsKept
  <2>2. CASE Install(c)
    <3>1. reader[c].at = "off" /\ At("top").at # "deliver"
      BY <1>0, <1>1 DEF IInv, ReadersStartOnce, At
    <3>2. QED
      BY <1>0, <2>2, <3>1, OneReader DEF Install, TypeOK
  <2>3. QED
    BY <2>1, <2>2 DEF Reset, DialFails, Dial
<1>3. Held' = Held
  <2>1. CASE Reset(c)
    BY <1>0, <1>2, <2>1, FailAllHeld DEF Reset, FailKinds
  <2>2. CASE DialFails(c) \/ Dial(c) \/ Install(c)
    BY <1>0, <1>2, <2>2, QuietHeld DEF DialFails, Dial, Install
  <2>3. QED
    BY <2>1, <2>2
<1>4. CASE pc'[c] # "done"
  <2>1. pc'[c] \in {"dial", "install", "send"}
    BY <1>0, <1>4 DEF Reset, DialFails, Dial, Install, TypeOK
  <2>2. \A d \in Calls : Phase(d)' = Phase(d)
    BY <1>1, <2>1 DEF Phase
  <2>3. QED
    BY <1>1, <1>3, <2>2, Loses
<1>5. CASE pc'[c] = "done"
  <2>1. wire' = wire
    BY <1>0, <1>5 DEF Reset, DialFails, Dial, Install, net, TypeOK
  <2>2. Callers' = [Callers EXCEPT ![c] = Phase(c)'] /\ Callers[c] = Phase(c)
    BY <1>0, <1>1, OneCaller
  <2>3. /\ Phase(c) = [at |-> "before", attempt |-> try[c]]
        /\ Phase(c)' = [at |-> "back", attempt |-> 0]
    BY <1>1, <1>5 DEF Phase
  <2>4. Callers[c] # [at |-> "back", attempt |-> 0]
    BY <2>2, <2>3
  <2>5. Service!ReturnsError(c)
    BY <1>3, <2>1, <2>2, <2>3, <2>4
    DEF Service!ReturnsError, Service!Back, Callers, Unanswered, Held
  <2>6. QED
    BY <2>5 DEF Service!Next
<1>6. QED
  BY <1>4, <1>5

\* The loop of a reader that reads nothing for a call, a lost connection, a torn
\* frame, the network.
LEMMA QuietServes ==
  ASSUME Kept, Kept', \/ \E k \in Conns : Loop(k) \/ ReadEvent(k) \/ ReadError(k) \/ TornRead(k)
                      \/ Fault \/ UNCHANGED vars
  PROVE  Service!Next
<1>0. IInv /\ IInv' /\ reader \in [Conns -> Readers]
  BY DEF Kept, IInv, TypeOK
<1>1. pc' = pc /\ try' = try /\ wire' \subseteq wire
  BY DEF Loop, ReadEvent, ReadError, TornRead, Fault, vars, call, net
<1>2. \A d \in Calls : Phase(d)' = Phase(d)
  BY <1>1 DEF Phase
<1>3. HandsKept
  <2>1. CASE reader' = reader
    BY <2>1 DEF HandsKept
  <2>2. ASSUME NEW k \in Conns, Loop(k) \/ ReadEvent(k) \/ ReadError(k) \/ TornRead(k)
        PROVE  HandsKept
    <3>1. PICK r \in {At("gone"), At("top"), Reading(conn)} : reader' = [reader EXCEPT ![k] = r]
      BY <2>2 DEF Loop, ReadEvent, ReadError, TornRead
    <3>2. r.at # "deliver"
      BY DEF At, Reading
    <3>3. reader[k].at # "deliver"
      BY <2>2 DEF Loop, ReadEvent, ReadError, TornRead, Readable
    <3>4. QED
      BY <1>0, <3>1, <3>2, <3>3, OneReader
  <2>3. QED
    BY <2>1, <2>2 DEF Fault, vars
<1>4. Held' = Held
  <2>1. chan' = chan \/ FailAll("read error")
    BY DEF Loop, ReadEvent, ReadError, TornRead, Fault, vars
  <2>2. QED
    BY <1>0, <1>3, <2>1, FailAllHeld, QuietHeld DEF FailKinds
<1>5. QED
  BY <1>1, <1>2, <1>4, Loses

\* A reply moves from the reader's hands into the channel of its attempt.
LEMMA DeliverServes ==
  ASSUME Kept, Kept', NEW k \in Conns, Deliver(k)
  PROVE  Service!Next
<1>0. IInv /\ IInv' /\ TypeOK
  BY DEF Kept, IInv
<1>1. pc' = pc /\ try' = try /\ wire' = wire /\ reader[k].at = "deliver"
  BY DEF Deliver, call, net
<1>2. PICK to \in Chans, ans \in Answers :
        to = reader[k].msg.ch /\ ans = reader[k].msg.ans /\ chan[to] = <<>>
  BY <1>0, <1>1 DEF TypeOK, Readers, Deliver
<1>3. chan'[to] = <<ans>> /\ \A ch \in Chans \ {to} : chan'[ch] = chan[ch]
  BY <1>0, <1>2 DEF Deliver, TypeOK
<1>4. reader'[k].at = "top" /\ \A j \in Conns \ {k} : reader'[j] = reader[j]
  BY <1>0 DEF Deliver, TypeOK, At
<1>5. \A j \in Conns \ {k} : reader[j].at = "deliver" => reader[j].msg.ch # to
  BY <1>0, <1>1, <1>2 DEF IInv, NoSenderBlocks
<1>6. Carries(to)' <=> Carries(to)
  <2>1. Carries(to) <=> ans.kind \in ReplyKinds
    BY <1>1, <1>2, <1>5 DEF Carries
  <2>2. /\ \A j \in Conns : reader'[j].at = "deliver" => reader'[j].msg.ch # to
        /\ chan'[to] # <<>> /\ Head(chan'[to]) = ans
    BY <1>3, <1>4, <1>5
  <2>3. QED
    BY <2>1, <2>2 DEF Carries
<1>7. \A ch \in Chans \ {to} : Carries(ch)' <=> Carries(ch)
  BY <1>1, <1>2, <1>3, <1>4 DEF Carries
<1>8. Held' = Held
  BY <1>0, <1>6, <1>7, SameHeld
<1>9. \A d \in Calls : Phase(d)' = Phase(d)
  BY <1>1 DEF Phase
<1>10. QED
  BY <1>1, <1>8, <1>9, Loses

\* A reply that is read is that to the attempt its call waits with, or is lost.
LEMMA ReadServes ==
  ASSUME Kept, Kept', NEW k \in Conns, Read(k)
  PROVE  Service!Next
<1>0. IInv /\ IInv' /\ TypeOK /\ AttemptsOnce
  BY DEF Kept, IInv
<1>1. /\ pc' = pc /\ try' = try /\ chan' = chan
      /\ reader[k].at = "read" /\ reader \in [Conns -> Readers]
  BY <1>0 DEF Read, Readable, call, TypeOK
<1>2. \A d \in Calls : Phase(d)' = Phase(d)
  BY <1>1 DEF Phase
<1>3. PICK m \in wire :
        /\ wire' = wire \ {m}
        /\ \/ reader' = [reader EXCEPT ![k] = At("top")]
           \/ \E p \in pending, kind \in ReplyKinds :
                /\ p.id = m.id
                /\ reader' = [reader EXCEPT ![k] = Delivering(p.ch, [kind |-> kind, by |-> m.by])]
  BY DEF Read
<1>4. CASE reader' = [reader EXCEPT ![k] = At("top")]
  <2>1. At("top").at # "deliver"
    BY DEF At
  <2>2. HandsKept
    BY <1>1, <1>4, <2>1, OneReader
  <2>3. QED
    BY <1>0, <1>1, <1>2, <1>3, <2>2, QuietHeld, Loses
<1>5. ASSUME NEW p \in pending, NEW kind \in ReplyKinds, p.id = m.id,
             reader' = [reader EXCEPT ![k] = Delivering(p.ch, [kind |-> kind, by |-> m.by])]
      PROVE  Service!Next
  <2> DEFINE c == p.ch[1]
  <2>1. /\ reader'[k].at = "deliver" /\ reader'[k].msg.ch = p.ch
        /\ reader'[k].msg.ans.kind \in ReplyKinds
        /\ \A j \in Conns \ {k} : reader'[j] = reader[j]
    BY <1>1, <1>5 DEF Delivering
  <2>2. m.by = p.ch /\ p.ch \in Chans /\ c \in Calls
    BY <1>0, <1>5, Shapes DEF IInv, IdsNameOneChannel
  <2>3. pc[c] = "wait" /\ p.ch = <<c, try[c]>>
    BY <1>0 DEF IInv, PendingHasItsWaiter, Here
  <2> HIDE DEF c
  <2>4. \A ch \in Chans : Carries(ch)' <=> Carries(ch) \/ ch = p.ch
    <3>1. ASSUME NEW ch \in Chans, ch # p.ch PROVE Carries(ch)' <=> Carries(ch)
      BY <1>1, <2>1, <3>1 DEF Carries
    <3>2. Carries(p.ch)'
      BY <2>1 DEF Carries
    <3>3. QED
      BY <3>1, <3>2
  <2>5. Held' = Held \cup {p.ch}
    <3>1. Held = {ch \in Chans : Carries(ch)} /\ (Held = {ch \in Chans : Carries(ch)})'
      BY <1>0, HeldIs, HeldNext
    <3>2. QED
      BY <2>2, <2>4, <3>1
  <2>6. p.ch \in Unanswered /\ Unanswered' = Unanswered \ {p.ch}
    BY <1>0, <1>3, <2>2 DEF Unanswered, AttemptsOnce
  <2>7. Callers' = Callers /\ Callers[c].at = "out" /\ p.ch = <<c, Callers[c].attempt>>
    <3>1. Phase(c) = [at |-> "out", attempt |-> try[c]] /\ Callers[c] = Phase(c)
      BY <2>2, <2>3 DEF Phase, Callers
    <3>2. QED
      BY <1>2, <2>3, <3>1, SameCallers
  <2>8. Service!Reads(c)
    BY <2>5, <2>6, <2>7 DEF Service!Reads, Service!Attempt, Callers, Unanswered, Held
  <2>9. QED
    BY <2>2, <2>8 DEF Service!Next
<1>6. QED
  BY <1>3, <1>4, <1>5

LEMMA StepServes == ASSUME Kept, Kept', [Next]_vars PROVE Service!Next
<1>1. ASSUME NEW c \in Calls, CallStep(c) PROVE Service!Next
  BY <1>1, FailsServes, WriteServes, ReceiveServes, ReconnectServes DEF CallStep
<1>2. ASSUME NEW k \in Conns, ReaderStep(k) PROVE Service!Next
  BY <1>2, QuietServes, DeliverServes, ReadServes DEF ReaderStep
<1>3. CASE Fault \/ UNCHANGED vars
  BY <1>3, QuietServes
<1>4. QED
  BY <1>1, <1>2, <1>3 DEF Next

LEMMA InitServes == ASSUME Init PROVE Kept /\ Service!Init
<1>1. IInv
  BY InitIInv
<1>2. wire = {} /\ \A ch \in Chans : chan[ch] = <<>> /\ Len(chan[ch]) = 0
  BY DEF Init
<1>3. AttemptsOnce
  BY <1>2 DEF AttemptsOnce
<1>4. \A c \in Calls : Phase(c) = [at |-> "before", attempt |-> 1]
  BY DEF Init, Phase
<1>5. Callers = [c \in Calls |-> [at |-> "before", attempt |-> 1]]
  BY <1>4 DEF Callers
<1>6. Unanswered = {}
  BY <1>2 DEF Unanswered
<1>7. \A k \in Conns : reader[k].at # "deliver"
  BY DEF Init, At
<1>8. Held = {}
  BY <1>2, <1>7 DEF Held, InHands
<1>9. QED
  BY <1>1, <1>3, <1>5, <1>6, <1>8 DEF Kept, Service!Init, Service!Before, Callers, Unanswered, Held

\* Whatever happens to the connections, the readers and the replies, and however
\* many goroutines call and reconnect at once, the client does for each call what
\* its service says.
THEOREM Refinement == Spec => ServesCalls
<1>1. Init => Kept /\ Service!Init
  BY InitServes
<1>2. Kept /\ [Next]_vars => Kept'
  BY KeptStep
<1>3. Kept /\ Kept' /\ [Next]_vars => [Service!Next]_Service!rpc
  BY StepServes
<1>4. QED
  BY <1>1, <1>2, <1>3, PTL DEF Spec, ServesCalls, Service!Spec

(***************************************************************************)
(* SingleSocket fails: two calls inside Reconnect at once dial twice and   *)
(* the second Install forgets the first one's socket.  It fails in no      *)
(* other way: while no two are there at once, whatever else is interleaved *)
(* and however often the peer fails, the client owns one socket.           *)
(***************************************************************************)

\* No two calls are between the two sections of Reconnect.
OneReconnect == \A c, d \in Calls : pc[c] \in {"dial", "install"} /\ pc[d] \in {"dial", "install"} => c = d

\* What SingleSocket needs: between the two sections there is no connection.
SocketInv ==
  /\ TypeOK
  /\ SingleSocket
  /\ \A c \in Calls : pc[c] \in {"dial", "install"} => conn = None

LEMMA SocketInvInit == Init => SocketInv
<1>1. Init => TypeOK
  BY TypeInductive
<1>2. QED
  BY <1>1, CallsAssumption DEF Init, SocketInv, SingleSocket, Conns

\* The steps that leave sockets and the connection alone, and Reconnect to others.
LEMMA SocketsQuiet ==
  ASSUME SocketInv, TypeOK', UNCHANGED <<conn, sock>>, NEW c \in Calls,
         pc[c] # "install",
         \A d \in Calls : d # c => pc'[d] = pc[d],
         pc'[c] \notin {"dial", "install"}
  PROVE  SocketInv'
  BY DEF SocketInv, SingleSocket

LEMMA SocketInvCall ==
  ASSUME SocketInv, OneReconnect, TypeOK', NEW c \in Calls, CallStep(c)
  PROVE  SocketInv'
<1> USE DEF net, call
<1>1. CASE NotConnected(c) \/ WriteFails(c) \/ Receive(c) \/ Timeout(c)
  <2>1. \E kind : Finish(c, kind)
    BY <1>1, Zenon DEF NotConnected, WriteFails, Receive, Timeout
  <2>2. /\ \A d \in Calls : d # c => pc'[d] = pc[d]
        /\ pc'[c] \in {"reset", "done"}
    BY <2>1 DEF Finish, SocketInv, TypeOK
  <2>3. pc[c] # "install" /\ UNCHANGED <<conn, sock>>
    BY <1>1 DEF NotConnected, WriteFails, Receive, Timeout
  <2>4. QED
    BY <2>2, <2>3, SocketsQuiet
<1>2. CASE Write(c)
  <2>1. /\ \A d \in Calls : d # c => pc'[d] = pc[d]
        /\ pc'[c] = "wait"
    BY <1>2 DEF Write, SocketInv, TypeOK
  <2>2. QED
    BY <1>2, <2>1, SocketsQuiet DEF Write
<1>3. CASE DialFails(c)
  <2>1. /\ \A d \in Calls : d # c => pc'[d] = pc[d]
        /\ pc'[c] = "done"
    BY <1>3 DEF DialFails, SocketInv, TypeOK
  <2>2. QED
    BY <1>3, <2>1, SocketsQuiet DEF DialFails
<1>4. CASE Reset(c)
  <2>1. conn' = None /\ \A d \in Calls : pc'[d] = "install" <=> pc[d] = "install"
    BY <1>4 DEF Reset, SocketInv, TypeOK
  <2>2. ASSUME NEW k \in Conns, sock'[k] \in {"open", "stalled"}
        PROVE  sock[k] \in {"open", "stalled"} /\ k # conn
    <3>1. CASE conn = None
      BY <1>4, <2>2, <3>1, CallsAssumption DEF Reset, Conns
    <3>2. CASE conn # None
      <4>1. conn \in Conns /\ sock' = [sock EXCEPT ![conn] = "closed"]
        BY <1>4, <3>2 DEF Reset, SocketInv, TypeOK
      <4>2. sock' = [j \in Conns |-> IF j = conn THEN "closed" ELSE sock[j]]
        BY <4>1 DEF SocketInv, TypeOK
      <4>3. QED
        BY <2>2, <4>2
    <3>3. QED
      BY <3>1, <3>2
  <2>3. QED
    BY <2>1, <2>2 DEF SocketInv, SingleSocket
<1>5. CASE Dial(c)
  <2>1. /\ conn' = conn /\ pc[c] = "dial"
        /\ \A d \in Calls : pc'[d] = IF d = c THEN "install" ELSE pc[d]
        /\ \A k \in Conns : k # c => sock'[k] = sock[k]
    BY <1>5 DEF Dial, SocketInv, TypeOK
  <2>2. QED
    BY <2>1 DEF SocketInv, SingleSocket
<1>6. CASE Install(c)
  <2>1. /\ conn' = c /\ pc[c] = "install" /\ sock' = sock
        /\ \A d \in Calls : pc'[d] = IF d = c THEN "send" ELSE pc[d]
    BY <1>6 DEF Install, SocketInv, TypeOK
  <2>2. \A d \in Calls : pc'[d] \notin {"dial", "install"}
    BY <2>1 DEF OneReconnect
  <2>3. \A k \in Conns : sock[k] \in {"open", "stalled"} => k = c
    BY <2>1, CallsAssumption DEF OneReconnect, SocketInv, SingleSocket, Conns
  <2>4. QED
    BY <2>1, <2>2, <2>3 DEF SocketInv, SingleSocket
<1>7. QED
  BY <1>1, <1>2, <1>3, <1>4, <1>5, <1>6 DEF CallStep

LEMMA SocketInvStep == SocketInv /\ OneReconnect /\ [Next]_vars => SocketInv'
<1> SUFFICES ASSUME SocketInv, OneReconnect, [Next]_vars PROVE SocketInv'
  OBVIOUS
<1>1. TypeOK'
  BY TypeInductive DEF SocketInv
<1>2. CASE \E k \in Conns : ReaderStep(k)
  <2>1. UNCHANGED <<conn, sock, pc>>
    BY <1>2 DEF ReaderStep, Loop, Read, Deliver, ReadEvent, ReadError, TornRead, net, call
  <2>2. QED
    BY <1>1, <2>1 DEF SocketInv, SingleSocket
<1>3. CASE Fault
  <2>1. UNCHANGED <<conn, pc>>
    BY <1>3 DEF Fault, call
  <2>2. \A k \in Conns : sock'[k] \in {"open", "stalled"} => sock[k] \in {"open", "stalled"}
    BY <1>3 DEF Fault, Stall, PeerDies, SocketInv, TypeOK
  <2>3. QED
    BY <1>1, <2>1, <2>2 DEF SocketInv, SingleSocket
<1>4. CASE UNCHANGED vars
  BY <1>1, <1>4 DEF vars, SocketInv, SingleSocket
<1>5. QED
  BY <1>1, <1>2, <1>3, <1>4, SocketInvCall DEF Next

\* The Client owns one socket (client.go:25) in every behaviour in which Reconnect
\* is never entered by one call between the two sections of another's.
THEOREM OneSocketUnlessReconnectsOverlap == Spec /\ []OneReconnect => []SingleSocket
<1>1. SocketInv => SingleSocket
  BY DEF SocketInv
<1>2. QED
  BY <1>1, SocketInvInit, SocketInvStep, PTL DEF Spec

=============================================================================
