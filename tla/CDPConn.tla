------------------------------ MODULE CDPConn ------------------------------
(***************************************************************************)
(* The command path of cdp.Client (internal/cdp/client.go): every          *)
(* goroutine of a SamWeb process that drives its WebView2 shares one       *)
(* Client.  A command is registered in the pending table and written under *)
(* the client's mutex, its answer is carried by a channel of capacity 1,   *)
(* and send retries once, over a fresh connection, what timed out or could *)
(* not be written.                                                         *)
(*                                                                         *)
(* Every section under c.mu is one step: no two of them overlap in the     *)
(* code, and the write in one of them has a deadline.                      *)
(*                                                                         *)
(* A member of Calls is ONE invocation of send, by any goroutine.  A       *)
(* connection is named after the call that dialled it.                     *)
(***************************************************************************)
EXTENDS Integers, Sequences

CONSTANTS Calls,         \* invocations of Client.send
          First,         \* the connection dialled by Connect
          None,          \* the nil of c.conn, and nobody
          ReplyKinds,    \* the kinds of reply a browser gives, of the three below
          MaxFaults      \* bound: how often a connection or its peer fails

ASSUME CallsAssumption ==
  /\ First \notin Calls
  /\ None \notin Calls \cup {First}
  /\ ReplyKinds \subseteq {"result", "error", "retryable error"}
  /\ MaxFaults \in Nat

Conns == Calls \cup {First}
\* One invocation of sendNoRetry, and the channel it makes: attempt 1 or 2 of a call.
Chans == Calls \X {1, 2}

\* What else can be sent into a channel, and what a call can return with.  A CDP
\* error whose text contains "timeout" or "write" is retried like a timeout
\* of this client (strings.Contains).
FailKinds  == {"reconnecting", "read error"}
Errors     == {"not connected", "write", "timeout", "redial"}
Answers    == [kind : ReplyKinds \cup FailKinds, by : Chans]

VARIABLES
  conn,      \* c.conn
  sock,      \* the state of each connection's socket, seen from this process
  nextID,    \* c.nextID
  pending,   \* c.pending, as pairs of an id and a channel
  chan,      \* the buffer (capacity 1) of each invocation's channel
  pc,        \* where each call is
  try,       \* the attempt a call is at: 1, or 2 once it retries
  myid,      \* the id local to the running sendNoRetry
  reader,    \* the readLoop goroutine started for each connection
  wire,      \* commands written whose reply has not been read: executed or not
  faults     \* how often the connection or its peer failed, for the bound

net  == <<sock, wire, faults>>
call == <<pc, try, myid>>
vars == <<conn, sock, nextID, pending, chan, pc, try, myid, reader, wire, faults>>

Here(c) == <<c, try[c]>>

\* The three things a readLoop goroutine can hold: nothing, the connection it
\* reads, or a channel it has taken out of the table and the answer for it.
At(place)           == [at |-> place, on |-> None, msg |-> <<>>]
Reading(k)          == [at |-> "read", on |-> k, msg |-> <<>>]
Delivering(ch, ans) == [at |-> "deliver", on |-> None, msg |-> [ch |-> ch, ans |-> ans]]
Readers == [at : {"off", "top", "gone"}, on : {None}, msg : {<<>>}]
      \cup [at : {"read"}, on : Conns, msg : {<<>>}]
      \cup [at : {"deliver"}, on : {None}, msg : [ch : Chans, ans : Answers]]

TypeOK ==
  /\ conn \in Conns \cup {None}
  /\ sock \in [Conns -> {"none", "open", "stalled", "dead", "closed"}]
  /\ nextID \in Nat
  /\ pending \subseteq [id : Nat, ch : Chans]
  /\ chan \in [Chans -> Seq(Answers)]
  /\ pc \in [Calls -> {"send", "wait", "reset", "dial", "install", "done"}]
  /\ try \in [Calls -> {1, 2}]
  /\ myid \in [Calls -> Nat]
  /\ reader \in [Conns -> Readers]
  /\ wire \subseteq [conn : Conns, id : Nat, by : Chans]
  /\ faults \in 0..MaxFaults

\* Connect: one open connection, and its reader about to enter the loop.
Init ==
  /\ conn = First
  /\ sock = [k \in Conns |-> IF k = First THEN "open" ELSE "none"]
  /\ nextID = 0
  /\ pending = {}
  /\ chan = [ch \in Chans |-> <<>>]
  /\ pc = [c \in Calls |-> "send"]
  /\ try = [c \in Calls |-> 1]
  /\ myid = [c \in Calls |-> 0]
  /\ reader = [k \in Conns |-> At(IF k = First THEN "top" ELSE "off")]
  /\ wire = {}
  /\ faults = 0

-----------------------------------------------------------------------------
(* Helpers: what several handlers do with the table and the channels. *)

\* Mutant of Retried: an error that means there is no connection is retried too.
RetriedWide == {"retryable error", "write", "timeout", "not connected"}
Retried     == {"retryable error", "write", "timeout"}

\* Mutant of Finish: the retry is not limited to one.
FinishRetries(c, kind) ==
  /\ myid' = [myid EXCEPT ![c] = 0]
  /\ IF kind \in Retried
     THEN /\ pc' = [pc EXCEPT ![c] = "reset"]
          /\ try' = [try EXCEPT ![c] = @ + 1]
     ELSE /\ pc' = [pc EXCEPT ![c] = "done"]
          /\ UNCHANGED try

\* send's treatment of the result of sendNoRetry: the first failure that
\* looks like a timeout or a write error goes to Reconnect, the rest returns.
Finish(c, kind) ==
  /\ myid' = [myid EXCEPT ![c] = 0]
  /\ IF try[c] = 1 /\ kind \in Retried
     THEN /\ pc' = [pc EXCEPT ![c] = "reset"]
          /\ try' = [try EXCEPT ![c] = 2]
     ELSE /\ pc' = [pc EXCEPT ![c] = "done"]
          /\ UNCHANGED try

\* Mutant of Without: the entry stays in the table.
WithoutNothing(id) == pending

\* delete(c.pending, id)
Without(id) == {p \in pending : p.id # id}

\* Mutant of FailAll: the table is cleared and nobody is told.
FailAllSilently(kind) == pending' = {} /\ UNCHANGED chan

\* Every pending channel gets the error and leaves the table.  A send into a
\* channel that is full would block, inside the mutex.
FailAll(kind) ==
  /\ \A p \in pending : chan[p.ch] = <<>>
  /\ chan' = [ch \in Chans |-> IF \E p \in pending : p.ch = ch
                               THEN <<[kind |-> kind, by |-> ch]>> ELSE chan[ch]]
  /\ pending' = {}

-----------------------------------------------------------------------------
(* A call: send, sendNoRetry and Reconnect. *)

NotConnected(c) ==
  /\ pc[c] = "send"
  /\ conn = None
  /\ nextID' = nextID + 1
  /\ Finish(c, "not connected")
  /\ UNCHANGED <<conn, pending, chan, reader, net>>

\* The id is taken, the channel registered and the command written.  A write
\* to a connection whose peer is gone may succeed too: nobody will answer it.
Write(c) ==
  /\ pc[c] = "send"
  /\ conn # None /\ sock[conn] \in {"open", "dead"}
  /\ nextID' = nextID + 1
  /\ myid' = [myid EXCEPT ![c] = nextID']
  /\ pending' = pending \cup {[id |-> nextID', ch |-> Here(c)]}
  /\ wire' = IF sock[conn] = "dead" THEN wire
             ELSE wire \cup {[conn |-> conn, id |-> nextID', by |-> Here(c)]}
  /\ pc' = [pc EXCEPT ![c] = "wait"]
  /\ UNCHANGED <<conn, sock, chan, try, reader, faults>>

\* The write fails: the peer is gone, or does not read and the deadline of
\* 5 s passes, after which the websocket refuses every later write.
WriteFails(c) ==
  /\ pc[c] = "send"
  /\ conn # None
  /\ sock[conn] \in {"dead", "stalled"}
  /\ nextID' = nextID + 1
  /\ Finish(c, "write")
  /\ UNCHANGED <<conn, pending, chan, reader, net>>

\* case r := <-ch
Receive(c) ==
  /\ pc[c] = "wait"
  /\ chan[Here(c)] # <<>>
  /\ chan' = [chan EXCEPT ![Here(c)] = Tail(@)]
  /\ Finish(c, Head(chan[Here(c)]).kind)
  /\ UNCHANGED <<conn, nextID, pending, reader, net>>

\* Mutant of Timeout: the entry of the abandoned invocation is left behind.
TimeoutLeaks(c) ==
  /\ pc[c] = "wait"
  /\ Finish(c, "timeout")
  /\ UNCHANGED <<conn, nextID, pending, chan, reader, net>>

\* Mutant of Timeout: the timer is armed only while the connection is there.
TimeoutNever(c) ==
  /\ pc[c] = "wait"
  /\ conn = None
  /\ pending' = Without(myid[c])
  /\ Finish(c, "timeout")
  /\ UNCHANGED <<conn, nextID, chan, reader, net>>

\* case <-time.After(10 * time.Second)
Timeout(c) ==
  /\ pc[c] = "wait"
  /\ pending' = Without(myid[c])
  /\ Finish(c, "timeout")
  /\ UNCHANGED <<conn, nextID, chan, reader, net>>

\* Reconnect, first section: close, forget, fail whoever waits.
Reset(c) ==
  /\ pc[c] = "reset"
  /\ sock' = IF conn = None THEN sock ELSE [sock EXCEPT ![conn] = "closed"]
  /\ wire' = {m \in wire : m.conn # conn}
  /\ conn' = None
  /\ FailAll("reconnecting")
  /\ pc' = [pc EXCEPT ![c] = "dial"]
  /\ UNCHANGED <<nextID, try, myid, reader, faults>>

DialFails(c) ==
  /\ pc[c] = "dial"
  /\ pc' = [pc EXCEPT ![c] = "done"]
  /\ UNCHANGED <<conn, nextID, pending, chan, try, myid, reader, net>>

Dial(c) ==
  /\ pc[c] = "dial"
  /\ sock' = [sock EXCEPT ![c] = "open"]
  /\ pc' = [pc EXCEPT ![c] = "install"]
  /\ UNCHANGED <<conn, nextID, pending, chan, try, myid, reader, wire, faults>>

\* Reconnect, second section, and go c.readLoop().  Nothing looks at what
\* another Reconnect may have installed meanwhile.
Install(c) ==
  /\ pc[c] = "install"
  /\ conn' = c
  /\ reader' = [reader EXCEPT ![c] = At("top")]
  /\ pc' = [pc EXCEPT ![c] = "send"]
  /\ UNCHANGED <<nextID, pending, chan, try, myid, net>>

CallStep(c) ==
  \/ NotConnected(c) \/ Write(c) \/ WriteFails(c)
  \/ Receive(c) \/ Timeout(c)
  \/ Reset(c) \/ DialFails(c) \/ Dial(c) \/ Install(c)

-----------------------------------------------------------------------------
(* readLoop. *)

\* The top of the loop picks up whatever connection is current now.
Loop(k) ==
  /\ reader[k].at = "top"
  /\ reader' = IF conn = None THEN [reader EXCEPT ![k] = At("gone")]
               ELSE [reader EXCEPT ![k] = Reading(conn)]
  /\ UNCHANGED <<conn, nextID, pending, chan, call, net>>

Readable(k) == reader[k].at = "read" /\ sock[reader[k].on] # "closed"

\* Mutant of Read: a reply goes to whoever is pending, not to its id.
ReadForAnyone(k) ==
  /\ Readable(k)
  /\ \E m \in wire, p \in pending, kind \in ReplyKinds :
       /\ m.conn = reader[k].on
       /\ wire' = wire \ {m}
       /\ pending' = pending \ {p}
       /\ reader' = [reader EXCEPT ![k] = Delivering(p.ch, [kind |-> kind, by |-> m.by])]
  /\ UNCHANGED <<conn, sock, nextID, chan, call, faults>>

\* A reply, to any command written on this connection: its channel is taken
\* out of the table, or it is nobody's any more.
Read(k) ==
  /\ Readable(k)
  /\ \E m \in wire :
       /\ m.conn = reader[k].on
       /\ wire' = wire \ {m}
       /\ pending' = Without(m.id)
       /\ \/ /\ \A p \in pending : p.id # m.id
             /\ reader' = [reader EXCEPT ![k] = At("top")]
          \/ \E p \in pending, kind \in ReplyKinds :
               /\ p.id = m.id
               /\ reader' = [reader EXCEPT ![k] =
                    Delivering(p.ch, [kind |-> kind, by |-> m.by])]
  /\ UNCHANGED <<conn, sock, nextID, chan, call, faults>>

\* ch <- cdpResponse{...}, outside the mutex.
Deliver(k) ==
  /\ reader[k].at = "deliver"
  /\ chan[reader[k].msg.ch] = <<>>
  /\ chan' = [chan EXCEPT ![reader[k].msg.ch] = <<reader[k].msg.ans>>]
  /\ reader' = [reader EXCEPT ![k] = At("top")]
  /\ UNCHANGED <<conn, nextID, pending, call, net>>

\* An event (ID 0), or a frame that is not JSON: back to the top.
ReadEvent(k) ==
  /\ Readable(k)
  /\ reader' = [reader EXCEPT ![k] = At("top")]
  /\ UNCHANGED <<conn, nextID, pending, chan, call, net>>

\* The read fails: the whole table fails with it, and this reader ends.
ReadError(k) ==
  /\ reader[k].at = "read"
  /\ sock[reader[k].on] \in {"dead", "closed"}
  /\ FailAll("read error")
  /\ reader' = [reader EXCEPT ![k] = At("gone")]
  /\ UNCHANGED <<conn, nextID, call, net>>

\* Two readers in ReadMessage of one connection: the websocket allows one, so
\* a frame can be torn between them.  Torn bytes are not JSON, or no frame.
TornRead(k) ==
  /\ Readable(k)
  /\ \E j \in Conns \ {k} : reader[j].at = "read" /\ reader[j].on = reader[k].on
  /\ \E m \in wire : m.conn = reader[k].on /\ wire' = wire \ {m}
  /\ \/ /\ reader' = [reader EXCEPT ![k] = At("top")]
        /\ UNCHANGED <<pending, chan>>
     \/ /\ reader' = [reader EXCEPT ![k] = At("gone")]
        /\ FailAll("read error")
  /\ UNCHANGED <<conn, nextID, call, sock, faults>>

ReaderStep(k) ==
  \/ Loop(k) \/ Read(k) \/ Deliver(k) \/ ReadEvent(k) \/ ReadError(k) \/ TornRead(k)

-----------------------------------------------------------------------------
(* The connection and the browser at its other end, which may fail at most *)
(* MaxFaults times.                                                        *)

\* The peer stops reading: the socket's buffers are full.
Stall(k) ==
  /\ sock[k] = "open"
  /\ sock' = [sock EXCEPT ![k] = "stalled"]

\* The peer process ends or resets the connection.
PeerDies(k) ==
  /\ sock[k] \in {"open", "stalled"}
  /\ sock' = [sock EXCEPT ![k] = "dead"]

Fault ==
  /\ faults < MaxFaults
  /\ faults' = faults + 1
  /\ \E k \in Conns : Stall(k) \/ PeerDies(k)
  /\ UNCHANGED <<conn, nextID, pending, chan, call, reader, wire>>

Next == (\E c \in Calls : CallStep(c)) \/ (\E k \in Conns : ReaderStep(k)) \/ Fault

Spec == Init /\ [][Next]_vars

\* The Go scheduler runs every goroutine that can run and every timer fires
\* (the handshake and write deadlines too).  Nothing is assumed of the browser
\* or of the network.  (Every step of a call changes its pc.)
Fairness == \A c \in Calls : WF_pc(CallStep(c))

FairSpec == Spec /\ Fairness

-----------------------------------------------------------------------------
(* Properties. *)

\* The mutex is never held by a goroutine that waits for room in a channel,
\* and no reader ever waits for room: every channel that is in the table, or
\* that a reader has just taken out of it, is empty, and no two of these are
\* the same channel (client.go:1267, 1303, 1607 send into a channel of
\* capacity 1, two of them inside c.mu).
NoSenderBlocks ==
  /\ \A p \in pending : chan[p.ch] = <<>>
  /\ \A p, q \in pending : p.ch = q.ch => p = q
  /\ \A k \in Conns : reader[k].at = "deliver" =>
       /\ chan[reader[k].msg.ch] = <<>>
       /\ \A p \in pending : p.ch # reader[k].msg.ch
       /\ \A j \in Conns : reader[j].at = "deliver" /\ reader[j].msg.ch = reader[k].msg.ch
                           => j = k

\* A reply that reaches an invocation, in its channel or on the way to it, is
\* the browser's reply to the command of that same invocation, however many
\* readers, connections and late replies there are.
RepliesReachTheirCommand ==
  /\ \A ch \in Chans : \A i \in DOMAIN chan[ch] : chan[ch][i].by = ch
  /\ \A k \in Conns : reader[k].at = "deliver" => reader[k].msg.ans.by = reader[k].msg.ch

\* The pending table holds no entry that nobody waits for: a timeout, a failed
\* write and every way to fail the table remove what they should, so it does
\* not grow over the life of the process.
PendingHasItsWaiter ==
  \A p \in pending : LET c == p.ch[1] IN
    pc[c] = "wait" /\ p.ch = Here(c) /\ p.id = myid[c]

\* What keeps the properties above true, step after step.  Ids are never used
\* twice, so an id names one channel in the table and on the wire...
IdsNameOneChannel ==
  /\ \A p \in pending : p.id <= nextID
  /\ \A m \in wire : m.id <= nextID
  /\ \A p, q \in pending : p.id = q.id => p = q
  /\ \A p \in pending, m \in wire : p.id = m.id => p.ch = m.by
  /\ \A c \in Calls : pc[c] = "wait" =>
       myid[c] <= nextID /\ \A p \in pending : p.id = myid[c] => p.ch = Here(c)

\* ... and the channel of an invocation that has not begun is untouched.
NotBegun(ch) ==
  \/ ch[2] > try[ch[1]]
  \/ ch[2] = try[ch[1]] /\ pc[ch[1]] \notin {"wait", "done"}

FreshChannels ==
  \A ch \in Chans : NotBegun(ch) =>
    /\ chan[ch] = <<>>
    /\ \A k \in Conns : reader[k].at = "deliver" => reader[k].msg.ch # ch

\* The reader of a connection is started once, by the call that dialled it.
ReadersStartOnce ==
  \A c \in Calls :
    /\ pc[c] \in {"reset", "dial", "install"} => try[c] = 2 /\ reader[c].at = "off"
    /\ try[c] = 1 => reader[c].at = "off"

\* A call that waits is in the table, or its answer is in its channel or in a
\* reader's hands: only then does the end of the connection, or a Reconnect by
\* another goroutine, wake it before its 10 s are over.
NoWaiterForgotten ==
  \A c \in Calls : pc[c] = "wait" =>
    \/ \E p \in pending : p.ch = Here(c)
    \/ chan[Here(c)] # <<>>
    \/ \E k \in Conns : reader[k].at = "deliver" /\ reader[k].msg.ch = Here(c)

\* The inductive invariant.
IInv ==
  /\ TypeOK
  /\ ReadersStartOnce
  /\ IdsNameOneChannel
  /\ FreshChannels
  /\ PendingHasItsWaiter
  /\ RepliesReachTheirCommand
  /\ NoSenderBlocks
  /\ NoWaiterForgotten

\* Once the connection is nil and no call waits or is inside Reconnect, the
\* Client is dead for good: "not connected" is an error that send does not
\* retry (client.go:1536, 1553), so after one failed redial no later call ever
\* dials again, although the tab worker may be back.
Lost == conn = None /\ \A c \in Calls : pc[c] \in {"send", "done"}
LostForGood == [][Lost => Lost']_vars

\* What a caller sees: where its call is, what the browser may still answer,
\* and the browser's replies that were read and are in a channel or on the way.
Phase(c) ==
  CASE pc[c] = "done" -> [at |-> "back", attempt |-> 0]
    [] pc[c] = "wait" -> [at |-> "out", attempt |-> try[c]]
    [] OTHER          -> [at |-> "before", attempt |-> try[c]]

InHands ==
  {Head(chan[ch]) : ch \in {x \in Chans : chan[x] # <<>>}}
    \cup {reader[k].msg.ans : k \in {j \in Conns : reader[j].at = "deliver"}}

Service == INSTANCE Rpc WITH
  phase <- [c \in Calls |-> Phase(c)],
  sent  <- {m.by : m \in wire},
  held  <- {ans.by : ans \in {a \in InHands : a.kind \in ReplyKinds}}

(* The client implements its service: whatever happens to connections,     *)
(* readers and replies, a command is written at most twice, the second     *)
(* time only after its first attempt was given up, and what a call takes   *)
(* for the browser's answer is the reply to the attempt it is at (the      *)
(* retry at client.go:1536).                                               *)
ServesCalls == Service!Spec

\* The Client owns one socket: whatever is still open is the current
\* connection, or one a Reconnect has just dialled and is about to install
\* (client.go:25, "a single underlying WebSocket guarded by a mutex").
SingleSocket ==
  \A k \in Conns : sock[k] \in {"open", "stalled"} =>
    \/ k = conn
    \/ k \in Calls /\ pc[k] = "install"

\* Every call returns, whatever the browser and the network do: the timer of
\* each attempt and the deadlines of the write and of the dial bound it, and no
\* goroutine is stuck on the mutex (client.go:1575-1584).  A call that is done
\* stays so, so there comes a time when all are.
EveryCallReturns == <>(\A c \in Calls : pc[c] = "done")

=============================================================================
