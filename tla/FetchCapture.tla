---------------------------- MODULE FetchCapture ----------------------------
(***************************************************************************)
(* The Fetch-domain capture of cdp.Client (internal/cdp/client.go, served  *)
(* as /agent/fetch-* by internal/agent/server.go): the browser pauses a    *)
(* response, a goroutine of its own snapshots the body and lets it go,     *)
(* and the bridge's HTTP requests poll, finish, enable and disable.        *)
(*                                                                         *)
(* What a section under c.fetchMu does is one step; every command sent to  *)
(* the browser is another, since nothing is locked while it is on its way. *)
(* A command either runs in the browser before its caller goes on, or      *)
(* fails (CDPConn has the reasons).                                        *)
(***************************************************************************)
EXTENDS Integers, Sequences

CONSTANTS Requests,   \* responses the browser may pause, each once
          Handlers,   \* HTTP requests served at the same time
          MaxBody,    \* bound: length of the longest body
          MaxChunks   \* bound: no handler starts once a session has as many

ASSUME FetchAssumption ==
  /\ Requests \cap Handlers = {} /\ "other" \notin Requests
  /\ MaxBody \in Nat /\ MaxChunks \in Nat

\* Who runs snapshotFetchBody and continueFetchRequest: the goroutine that
\* handleFetchPaused starts for a request, or a handler for many.
Threads == Requests \cup Handlers
Ops     == {"poll", "finish", "enable", "disable"}

\* A piece of a body: the bytes from+1..to.  body[prev:] is only evaluated
\* when it is not empty (it would panic with prev beyond the end).
Chunk == {k \in [req : Requests, from : 0..MaxBody, to : 0..MaxBody] : k.from < k.to}

VARIABLES
  enabled,    \* c.fetchEnabled
  offset,     \* c.fetchPaused: the bytes recorded, by request
  chunks,     \* c.fetchChunks
  given,      \* history: the chunks handed out since capture was last enabled
  at,         \* where each thread is
  op,         \* what a handler is serving
  todo,       \* the requests a thread has yet to go through
  got,        \* what the last getResponseBody told: the request and how much
  intercept,  \* browser: the Fetch domain is enabled on this connection
  stage,      \* browser: the state of each response
  body,       \* browser: how much of each body has arrived
  failed      \* history: the requests whose own goroutine could not continue them,
              \* and "other" if any other command to the browser failed

client  == <<enabled, offset, chunks, given>>
threads == <<at, op, todo, got>>
browser == <<intercept, stage, body>>
vars    == <<enabled, offset, chunks, given, at, op, todo, got,
             intercept, stage, body, failed>>

\* History: what the session recorded, in order.
Recorded == given \o chunks

Nothing == [req |-> "none", len |-> 0]

TypeOK ==
  /\ enabled \in BOOLEAN
  /\ DOMAIN offset \subseteq Requests
  /\ \A r \in DOMAIN offset : offset[r] \in 0..MaxBody
  /\ chunks \in Seq(Chunk)
  /\ given \in Seq(Chunk)
  /\ at \in [Threads -> {"idle", "event", "record", "ask", "store", "resume", "forget",
                         "reset", "fetch enable", "fetch disable", "dropped", "done"}]
  /\ op \in [Handlers -> Ops]
  /\ todo \in [Threads -> SUBSET Requests]
  /\ got \in [Threads -> [req : Requests, len : 0..MaxBody] \cup {Nothing}]
  /\ intercept \in BOOLEAN
  /\ stage \in [Requests -> {"new", "paused", "continued"}]
  /\ body \in [Requests -> 0..MaxBody]
  /\ failed \subseteq Requests \cup {"other"}

Init ==
  /\ enabled = FALSE
  /\ offset = <<>>
  /\ chunks = <<>>
  /\ given = <<>>
  /\ at = [t \in Threads |-> "idle"]
  /\ op = [h \in Handlers |-> "poll"]
  /\ todo = [t \in Threads |-> IF t \in Requests THEN {t} ELSE {}]
  /\ got = [t \in Threads |-> Nothing]
  /\ intercept = FALSE
  /\ stage = [r \in Requests |-> "new"]
  /\ body = [r \in Requests |-> 0]
  /\ failed = {}

Goto(t, place) == at' = [at EXCEPT ![t] = place]

\* The map lookup: 0 when the request is not there.
Offset(r) == IF r \in DOMAIN offset THEN offset[r] ELSE 0

SetOffset(r, n) ==
  offset' = [q \in DOMAIN offset \cup {r} |-> IF q = r THEN n ELSE offset[q]]

-----------------------------------------------------------------------------
(* The browser. *)

\* It pauses a response, and the event is on its way to the client.
Pause(r) ==
  /\ intercept
  /\ stage[r] = "new"
  /\ stage' = [stage EXCEPT ![r] = "paused"]
  /\ Goto(r, "event")
  /\ UNCHANGED <<client, op, todo, got, intercept, body, failed>>

Grow(r) ==
  /\ stage[r] = "paused"
  /\ body[r] < MaxBody
  /\ body' = [body EXCEPT ![r] = @ + 1]
  /\ UNCHANGED <<client, threads, intercept, stage, failed>>

\* What it held is let go when its Fetch domain ends.
LetGo == stage' = [r \in Requests |-> IF stage[r] = "paused" THEN "continued" ELSE stage[r]]

\* The connection ends: so does the Fetch domain.  Reconnect does not ask for
\* it again, and the capture state of the client stays as it is.
ConnectionLost ==
  /\ intercept
  /\ intercept' = FALSE
  /\ LetGo
  /\ UNCHANGED <<client, threads, body, failed>>

-----------------------------------------------------------------------------
(* handleFetchPaused, in readLoop and then in the request's goroutine. *)

\* The first section: an event that finds capture off is dropped.
Event(r) ==
  /\ at[r] = "event"
  /\ \A q \in Requests : at[q] # "record"
  /\ Goto(r, IF enabled THEN "record" ELSE "dropped")
  /\ UNCHANGED <<client, op, todo, got, browser, failed>>

\* The second section, taken for a streaming response only; then the goroutine.
Record(r) ==
  /\ at[r] = "record"
  /\ SetOffset(r, 0) \/ UNCHANGED offset
  /\ Goto(r, "ask")
  /\ UNCHANGED <<enabled, chunks, given, op, todo, got, browser, failed>>

-----------------------------------------------------------------------------
(* snapshotFetchBody and continueFetchRequest, by any thread. *)

\* Fetch.getResponseBody of a request that is paused tells what has arrived;
\* of another it is an error.
Ask(t) ==
  /\ at[t] = "ask"
  /\ \E r \in todo[t] :
       \/ /\ got' = [got EXCEPT ![t] =
                       [req |-> r, len |-> IF stage[r] = "paused" THEN body[r] ELSE 0]]
          /\ UNCHANGED failed
       \/ /\ got' = [got EXCEPT ![t] = [req |-> r, len |-> 0]]
          /\ failed' = failed \cup {"other"}
  /\ Goto(t, "store")
  /\ UNCHANGED <<client, op, todo, browser>>

\* What follows a snapshot: a goroutine continues its request, a poll goes on.
Snapped(t) ==
  /\ got' = [got EXCEPT ![t] = Nothing]
  /\ IF t \in Requests THEN Goto(t, "resume") /\ UNCHANGED todo
     ELSE Goto(t, "ask") /\ todo' = [todo EXCEPT ![t] = @ \ {got[t].req}]

\* Mutant of Store: a body that has not grown is stored as well.
StoreUnchecked(t) ==
  /\ at[t] = "store"
  /\ LET r == got[t].req  IN
     IF enabled
     THEN /\ chunks' = Append(chunks, [req |-> r, from |-> Offset(r), to |-> got[t].len])
          /\ SetOffset(r, got[t].len)
     ELSE UNCHANGED <<chunks, offset>>
  /\ Snapped(t)
  /\ UNCHANGED <<enabled, given, op, browser, failed>>

\* Mutant of Store: a goroutine that has nothing to store ends there.
StoreOrQuit(t) ==
  /\ at[t] = "store"
  /\ LET r == got[t].req  IN
     IF enabled /\ got[t].len > Offset(r)
     THEN /\ chunks' = Append(chunks, [req |-> r, from |-> Offset(r), to |-> got[t].len])
          /\ SetOffset(r, got[t].len)
          /\ Snapped(t)
     ELSE /\ UNCHANGED <<chunks, offset>>
          /\ IF t \in Requests THEN Goto(t, "done") /\ UNCHANGED <<todo, got>> ELSE Snapped(t)
  /\ UNCHANGED <<enabled, given, op, browser, failed>>

\* The section that records what is new since the offset in the map.
Store(t) ==
  /\ at[t] = "store"
  /\ LET r == got[t].req  IN
     IF enabled /\ got[t].len > Offset(r)
     THEN /\ chunks' = Append(chunks, [req |-> r, from |-> Offset(r), to |-> got[t].len])
          /\ SetOffset(r, got[t].len)
     ELSE UNCHANGED <<chunks, offset>>
  /\ Snapped(t)
  /\ UNCHANGED <<enabled, given, op, browser, failed>>

\* Fetch.continueResponse, whose error nobody looks at.
Resume(t) ==
  /\ at[t] = "resume"
  /\ \E r \in todo[t] :
       /\ \/ /\ stage' = [stage EXCEPT ![r] = IF @ = "paused" THEN "continued" ELSE @]
             /\ UNCHANGED failed
          \/ UNCHANGED stage /\ failed' = failed \cup {IF t \in Requests THEN t ELSE "other"}
       /\ IF t \in Handlers /\ op[t] = "disable"
          THEN /\ todo' = [todo EXCEPT ![t] = @ \ {r}]
               /\ UNCHANGED <<at, got>>
          ELSE /\ Goto(t, "forget")
               /\ got' = [got EXCEPT ![t] = [req |-> r, len |-> 0]]
               /\ UNCHANGED todo
  /\ UNCHANGED <<client, op, intercept, body>>

\* The request leaves the map.
Forget(t) ==
  /\ at[t] = "forget"
  /\ LET r == got[t].req IN
     /\ offset' = [q \in DOMAIN offset \ {r} |-> offset[q]]
     /\ IF t \in Requests THEN Goto(t, "done") /\ UNCHANGED todo
        ELSE Goto(t, "resume") /\ todo' = [todo EXCEPT ![t] = @ \ {r}]
  /\ got' = [got EXCEPT ![t] = Nothing]
  /\ UNCHANGED <<enabled, chunks, given, op, browser, failed>>

-----------------------------------------------------------------------------
(* The handlers: PollFetchBodies, FinishAllFetchRequests, EnableFetchCapture, *)
(* DisableFetchCapture and GetFetchChunks.                                    *)

\* The first section of each collects the keys of the map.
Begin(h) ==
  /\ at[h] = "idle"
  /\ Len(Recorded) < MaxChunks
  /\ \E o \in Ops :
       /\ o = "poll" => enabled
       /\ op' = [op EXCEPT ![h] = o]
       /\ enabled' = (enabled /\ o # "disable")
       /\ Goto(h, IF o = "poll" THEN "ask" ELSE "resume")
  /\ todo' = [todo EXCEPT ![h] = DOMAIN offset]
  /\ UNCHANGED <<offset, chunks, given, got, browser, failed>>

\* The loop is over.
LoopEnds(h) ==
  /\ at[h] \in {"ask", "resume"}
  /\ todo[h] = {}
  /\ Goto(h, CASE op[h] = "enable"  -> "reset"
               [] op[h] = "disable" -> "fetch disable"
               [] OTHER             -> "idle")
  /\ UNCHANGED <<client, op, todo, got, browser, failed>>

\* Mutant of Reset: the offsets of the last session stay.
ResetKeepsOffsets(h) ==
  /\ at[h] = "reset"
  /\ enabled' = TRUE
  /\ chunks' = <<>> /\ given' = <<>>
  /\ Goto(h, "fetch enable")
  /\ UNCHANGED <<offset, op, todo, got, browser, failed>>

\* EnableFetchCapture's own section: a new capture session begins.
Reset(h) ==
  /\ at[h] = "reset"
  /\ enabled' = TRUE
  /\ offset' = <<>>
  /\ chunks' = <<>> /\ given' = <<>>
  /\ Goto(h, "fetch enable")
  /\ UNCHANGED <<op, todo, got, browser, failed>>

FetchEnable(h) ==
  /\ at[h] = "fetch enable"
  /\ \/ intercept' = TRUE /\ UNCHANGED failed
     \/ failed' = failed \cup {"other"} /\ UNCHANGED intercept
  /\ Goto(h, "idle")
  /\ UNCHANGED <<client, op, todo, got, stage, body>>

FetchDisable(h) ==
  /\ at[h] = "fetch disable"
  /\ \/ intercept' = FALSE /\ LetGo /\ UNCHANGED failed
     \/ failed' = failed \cup {"other"} /\ UNCHANGED <<intercept, stage>>
  /\ Goto(h, "idle")
  /\ UNCHANGED <<client, op, todo, got, body>>

GetFetchChunks ==
  /\ chunks # <<>>
  /\ given' = given \o chunks
  /\ chunks' = <<>>
  /\ UNCHANGED <<enabled, offset, threads, browser, failed>>

Snapshots(t)  == Ask(t) \/ Store(t) \/ Resume(t) \/ Forget(t)
Goroutine(r)  == Event(r) \/ Record(r) \/ Snapshots(r)
Handler(h)    == Snapshots(h) \/ LoopEnds(h) \/ Reset(h) \/ FetchEnable(h) \/ FetchDisable(h)

Next ==
  \/ \E r \in Requests : Pause(r) \/ Grow(r) \/ Goroutine(r)
  \/ \E h \in Handlers : Begin(h) \/ Handler(h)
  \/ GetFetchChunks
  \/ ConnectionLost

Spec == Init /\ [][Next]_vars

\* Goroutines run and every command returns or fails (CDPConn's
\* EveryCallReturns).  Nobody has to send a request, and nothing is assumed of
\* the browser.
Fairness ==
  /\ \A r \in Requests : WF_vars(Goroutine(r))
  /\ \A h \in Handlers : WF_vars(Handler(h))

FairSpec == Spec /\ Fairness

-----------------------------------------------------------------------------
(* Properties. *)

\* Nothing is skipped: in the order in which a session records them, a chunk
\* of a request starts at its beginning or where an earlier chunk of it ended,
\* whichever goroutines and handlers recorded the two.
NoBytesSkipped ==
  \A j \in DOMAIN Recorded :
    \/ Recorded[j].from = 0
    \/ \E i \in 1..(j - 1) : /\ Recorded[i].req = Recorded[j].req
                             /\ Recorded[i].to = Recorded[j].from

\* What makes it so: an offset in the map is where some chunk of the session ended.
OffsetsAreEnds ==
  \A r \in DOMAIN offset :
    \/ offset[r] = 0
    \/ \E i \in DOMAIN Recorded : Recorded[i].req = r /\ Recorded[i].to = offset[r]

\* "Each call returns only NEW chunks" (client.go:1171), of which only the new
\* bytes are stored (client.go:1045): no byte is handed out twice in a session.
OnlyNewBytes ==
  \A i, j \in DOMAIN given :
    i < j /\ given[i].req = given[j].req => given[i].to <= given[j].from

\* A response whose event found capture on is let go some day, though nobody finishes
\* it, capture is disabled meanwhile or getResponseBody and the commands of the
\* handlers fail: only its own Fetch.continueResponse must not fail, since nobody
\* looks at the error (client.go:1064).  The comments of client.go:906-908 and
\* 1106-1108 have it kept until the bridge calls FinishFetchRequest.
HeldResponsesContinue ==
  \A r \in Requests : at[r] = "record" ~> (stage[r] # "paused" \/ r \in failed)

=============================================================================
