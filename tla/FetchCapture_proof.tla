------------------------- MODULE FetchCapture_proof -------------------------
(***************************************************************************)
(* Proofs about FetchCapture, for any number of responses and of handlers, *)
(* bodies of any length and sessions of any length.                        *)
(***************************************************************************)
EXTENDS FetchCapture, TLAPS

Asked == [req : Requests, len : 0..MaxBody]

\* What the proof needs to know of the state; a part of TypeOK.
Types ==
  /\ DOMAIN offset \subseteq Requests
  /\ \A r \in DOMAIN offset : offset[r] \in 0..MaxBody
  /\ chunks \in Seq(Chunk)
  /\ given \in Seq(Chunk)
  /\ todo \in [Threads -> SUBSET Requests]
  /\ got \in [Threads -> Asked \cup {Nothing}]
  /\ body \in [Requests -> 0..MaxBody]
  /\ at \in [Threads -> {"idle", "event", "record", "ask", "store", "resume", "forget",
                         "reset", "fetch enable", "fetch disable", "dropped", "done"}]
  /\ \A t \in Threads : at[t] \in {"store", "forget"} => got[t] \in Asked

LEMMA Bounds == MaxBody \in Nat
  BY FetchAssumption

LEMMA TypesInit == ASSUME Init PROVE Types
<1>1. todo \in [Threads -> SUBSET Requests]
  BY DEF Init, Threads
<1>2. body \in [Requests -> 0..MaxBody]
  BY Bounds DEF Init
<1>3. QED
  BY <1>1, <1>2 DEF Init, Types

\* The section of Store that appends.
StoreNew(t) ==
  LET r == got[t].req IN
  /\ got[t].len > Offset(r)
  /\ chunks' = Append(chunks, [req |-> r, from |-> Offset(r), to |-> got[t].len])
  /\ SetOffset(r, got[t].len)

LEMMA GotTypes ==
  ASSUME Types, NEW t \in Threads, at[t] \in {"store", "forget"}
  PROVE  /\ got[t].req \in Requests /\ got[t].len \in 0..MaxBody
         /\ Offset(got[t].req) \in 0..MaxBody
<1>1. got[t] \in Asked
  BY DEF Types
<1>2. got[t].req \in Requests /\ got[t].len \in 0..MaxBody
  BY <1>1 DEF Asked
<1>3. CASE got[t].req \in DOMAIN offset
  BY <1>2, <1>3 DEF Types, Offset
<1>4. CASE got[t].req \notin DOMAIN offset
  <2>1. Offset(got[t].req) = 0 /\ 0 \in 0..MaxBody
    BY <1>4, Bounds DEF Offset
  <2>2. QED
    BY <1>2, <2>1
<1>5. QED
  BY <1>3, <1>4

LEMMA NewChunk ==
  ASSUME Types, NEW t \in Threads, at[t] = "store", StoreNew(t)
  PROVE  [req |-> got[t].req, from |-> Offset(got[t].req), to |-> got[t].len] \in Chunk
<1>1. /\ got[t].req \in Requests /\ got[t].len \in 0..MaxBody
      /\ Offset(got[t].req) \in 0..MaxBody
  BY GotTypes
<1>2. Offset(got[t].req) < got[t].len
  BY <1>1, Bounds DEF StoreNew
<1>3. QED
  BY <1>1, <1>2 DEF Chunk

LEMMA OffsetType ==
  ASSUME Types, NEW r \in Requests, NEW n \in 0..MaxBody, SetOffset(r, n)
  PROVE  DOMAIN offset' \subseteq Requests /\ \A q \in DOMAIN offset' : offset'[q] \in 0..MaxBody
<1>1. offset' = [q \in DOMAIN offset \cup {r} |-> IF q = r THEN n ELSE offset[q]]
  BY DEF SetOffset
<1>2. DOMAIN offset \subseteq Requests /\ \A q \in DOMAIN offset : offset[q] \in 0..MaxBody
  BY DEF Types
<1>3. QED
  BY <1>1, <1>2

LEMMA TypesStep == ASSUME Types, [Next]_vars PROVE Types'
<1> USE DEF client, threads, browser
<1>1. ASSUME NEW r \in Requests, Pause(r) PROVE Types'
  BY <1>1 DEF Pause, Goto, Types, Threads
<1>2. ASSUME NEW r \in Requests, Grow(r) PROVE Types'
  <2>1. body' \in [Requests -> 0..MaxBody]
    <3>1. body[r] \in 0..MaxBody /\ body[r] < MaxBody
      BY <1>2 DEF Grow, Types
    <3>2. body[r] + 1 \in 0..MaxBody
      BY <3>1, Bounds
    <3>3. QED
      BY <1>2, <3>2 DEF Grow, Types
  <2>2. QED
    BY <1>2, <2>1 DEF Grow, Types
<1>3. ASSUME NEW r \in Requests, Event(r) PROVE Types'
  BY <1>3 DEF Event, Goto, Types, Threads
<1>4. ASSUME NEW r \in Requests, Record(r) PROVE Types'
  <2>1. DOMAIN offset' \subseteq Requests /\ \A q \in DOMAIN offset' : offset'[q] \in 0..MaxBody
    <3>1. CASE SetOffset(r, 0)
      <4>1. 0 \in 0..MaxBody
        BY Bounds
      <4>2. QED
        BY <3>1, <4>1, OffsetType
    <3>2. CASE UNCHANGED offset
      BY <3>2 DEF Types
    <3>3. QED
      BY <1>4, <3>1, <3>2 DEF Record
  <2>2. QED
    BY <1>4, <2>1 DEF Record, Goto, Types, Threads
<1>5. ASSUME NEW t \in Threads, Ask(t) PROVE Types'
  <2>0. PICK r \in todo[t] : \E n \in {0, body[r]} : got' = [got EXCEPT ![t] = [req |-> r, len |-> n]]
    BY <1>5 DEF Ask
  <2>1. PICK n \in {0, body[r]} : got' = [got EXCEPT ![t] = [req |-> r, len |-> n]]
    BY <2>0
  <2>2. r \in Requests /\ body[r] \in 0..MaxBody /\ 0 \in 0..MaxBody
    <3>1. r \in Requests
      BY <2>0 DEF Types
    <3>2. body[r] \in 0..MaxBody
      BY <3>1 DEF Types
    <3>3. 0 \in 0..MaxBody
      BY Bounds
    <3>4. QED
      BY <3>1, <3>2, <3>3
  <2>3. [req |-> r, len |-> n] \in Asked
    BY <2>2 DEF Asked
  <2>4. got' \in [Threads -> Asked \cup {Nothing}]
    BY <2>1, <2>3 DEF Types
  <2>5. Goto(t, "store") /\ UNCHANGED <<client, todo, body>>
    BY <1>5 DEF Ask
  <2>6. at' \in [Threads -> {"idle", "event", "record", "ask", "store", "resume", "forget",
                         "reset", "fetch enable", "fetch disable", "dropped", "done"}]
    BY <2>5 DEF Goto, Types
  <2>7. \A u \in Threads : at'[u] \in {"store", "forget"} => got'[u] \in Asked
    BY <2>1, <2>3, <2>5 DEF Goto, Types
  <2>8. QED
    BY <2>4, <2>5, <2>6, <2>7 DEF Types
<1>6. ASSUME NEW t \in Threads, Store(t) PROVE Types'
  <2>1. at[t] = "store"
    BY <1>6 DEF Store
  <2>2. chunks' \in Seq(Chunk)
    <3>1. CASE StoreNew(t)
      <4>1. PICK k \in Chunk : chunks' = Append(chunks, k)
        BY <2>1, <3>1, NewChunk DEF StoreNew
      <4>2. chunks \in Seq(Chunk)
        BY DEF Types
      <4>3. QED
        BY <4>1, <4>2
    <3>2. CASE UNCHANGED chunks
      BY <3>2 DEF Types
    <3>3. QED
      BY <1>6, <3>1, <3>2 DEF Store, StoreNew
  <2>3. DOMAIN offset' \subseteq Requests /\ \A q \in DOMAIN offset' : offset'[q] \in 0..MaxBody
    <3>1. CASE StoreNew(t)
      BY <2>1, <3>1, GotTypes, OffsetType DEF StoreNew
    <3>2. CASE UNCHANGED offset
      BY <3>2 DEF Types
    <3>3. QED
      BY <1>6, <3>1, <3>2 DEF Store, StoreNew
  <2>4. todo' \in [Threads -> SUBSET Requests]
        /\ got' \in [Threads -> Asked \cup {Nothing}]
    BY <1>6 DEF Store, Snapped, Types
  <2>5. at' \in [Threads -> {"idle", "event", "record", "ask", "store", "resume", "forget",
                         "reset", "fetch enable", "fetch disable", "dropped", "done"}]
    BY <1>6 DEF Store, Snapped, Goto, Types
  <2>6. \A u \in Threads : at'[u] \in {"store", "forget"} => got'[u] \in Asked
    BY <1>6 DEF Store, Snapped, Goto, Types
  <2>7. QED
    BY <1>6, <2>2, <2>3, <2>4, <2>5, <2>6 DEF Store, Types
<1>7. ASSUME NEW t \in Threads, Resume(t) PROVE Types'
  <2>1. PICK r \in todo[t] :
          \/ UNCHANGED <<at, got>> /\ todo' = [todo EXCEPT ![t] = @ \ {r}]
          \/ /\ Goto(t, "forget") /\ UNCHANGED todo
             /\ got' = [got EXCEPT ![t] = [req |-> r, len |-> 0]]
    BY <1>7 DEF Resume
  <2>2. [req |-> r, len |-> 0] \in Asked
    <3>1. r \in Requests
      BY <2>1 DEF Types
    <3>2. QED
      BY <3>1, Bounds DEF Asked
  <2>3. UNCHANGED <<client, body>>
    BY <1>7 DEF Resume
  <2>4. at' \in [Threads -> {"idle", "event", "record", "ask", "store", "resume", "forget",
                         "reset", "fetch enable", "fetch disable", "dropped", "done"}]
    BY <2>1 DEF Goto, Types
  <2>5. todo' \in [Threads -> SUBSET Requests] /\ got' \in [Threads -> Asked \cup {Nothing}]
    BY <2>1, <2>2 DEF Types
  <2>6. \A u \in Threads : at'[u] \in {"store", "forget"} => got'[u] \in Asked
    BY <2>1, <2>2 DEF Goto, Types
  <2>7. QED
    BY <2>3, <2>4, <2>5, <2>6 DEF Types
<1>8. ASSUME NEW t \in Threads, Forget(t) PROVE Types'
  <2>1. DOMAIN offset' \subseteq Requests /\ \A q \in DOMAIN offset' : offset'[q] \in 0..MaxBody
    BY <1>8 DEF Forget, Types
  <2>2. at' \in [Threads -> {"idle", "event", "record", "ask", "store", "resume", "forget",
                         "reset", "fetch enable", "fetch disable", "dropped", "done"}]
    BY <1>8 DEF Forget, Goto, Types
  <2>3. todo' \in [Threads -> SUBSET Requests] /\ got' \in [Threads -> Asked \cup {Nothing}]
    BY <1>8 DEF Forget, Types
  <2>4. \A u \in Threads : at'[u] \in {"store", "forget"} => got'[u] \in Asked
    BY <1>8 DEF Forget, Goto, Types
  <2>5. QED
    BY <1>8, <2>1, <2>2, <2>3, <2>4 DEF Forget, Types
<1>9. ASSUME NEW h \in Handlers, Begin(h) \/ LoopEnds(h) \/ FetchEnable(h) \/ FetchDisable(h)
      PROVE  Types'
  <2>1. UNCHANGED <<offset, chunks, given, got, body>>
    BY <1>9 DEF Begin, LoopEnds, FetchEnable, FetchDisable
  <2>2. todo' \in [Threads -> SUBSET Requests]
    BY <1>9 DEF Begin, LoopEnds, FetchEnable, FetchDisable, Types, Threads
  <2>3. PICK place \in {"idle", "ask", "resume", "reset", "fetch enable", "fetch disable"} : Goto(h, place)
    BY <1>9 DEF Begin, LoopEnds, FetchEnable, FetchDisable
  <2>4. QED
    BY <2>1, <2>2, <2>3 DEF Goto, Types, Threads
<1>10. ASSUME NEW h \in Handlers, Reset(h) PROVE Types'
  <2>1. offset' = <<>> /\ chunks' = <<>> /\ given' = <<>> /\ UNCHANGED <<todo, got, body>>
    BY <1>10 DEF Reset
  <2>2. DOMAIN offset' = {} /\ chunks' \in Seq(Chunk) /\ given' \in Seq(Chunk)
    BY <2>1
  <2>3. Goto(h, "fetch enable")
    BY <1>10 DEF Reset
  <2>4. QED
    BY <2>1, <2>2, <2>3 DEF Goto, Types
<1>11. ASSUME GetFetchChunks PROVE Types'
  <2>1. given' = given \o chunks /\ chunks' = <<>> /\ UNCHANGED <<offset, todo, got, body, at>>
    BY <1>11 DEF GetFetchChunks
  <2>2. chunks \in Seq(Chunk) /\ given \in Seq(Chunk)
    BY DEF Types
  <2>3. chunks' \in Seq(Chunk) /\ given' \in Seq(Chunk)
    BY <2>1, <2>2
  <2>4. QED
    BY <2>1, <2>3 DEF Types
<1>12. CASE ConnectionLost \/ UNCHANGED vars
  BY <1>12 DEF ConnectionLost, vars, Types
<1>13. QED
  BY <1>1, <1>2, <1>3, <1>4, <1>5, <1>6, <1>7, <1>8, <1>9, <1>10, <1>11, <1>12
  DEF Next, Goroutine, Handler, Snapshots, Threads

\* The rest of TypeOK, which nothing else depends on.
Rest ==
  /\ enabled \in BOOLEAN
  /\ op \in [Handlers -> Ops]
  /\ intercept \in BOOLEAN
  /\ stage \in [Requests -> {"new", "paused", "continued"}]
  /\ failed \subseteq Requests \cup {"other"}

LEMMA RestInit == ASSUME Init PROVE Rest
  BY DEF Init, Rest, Ops

LEMMA RestStep == ASSUME Types, Rest, [Next]_vars PROVE Rest'
<1> USE DEF client, threads, browser
<1>1. ASSUME UNCHANGED <<enabled, op, intercept, stage>>,
             failed' \subseteq Requests \cup {"other"}
      PROVE  Rest'
  BY <1>1 DEF Rest
<1>2. ASSUME UNCHANGED <<enabled, op, intercept>>, failed' \subseteq Requests \cup {"other"},
             stage' \in [Requests -> {"new", "paused", "continued"}]
      PROVE  Rest'
  BY <1>2 DEF Rest
<1>3. LetGo => stage' \in [Requests -> {"new", "paused", "continued"}]
  BY DEF LetGo, Rest
<1>4. ASSUME NEW r \in Requests, Pause(r) PROVE Rest'
  BY <1>4 DEF Pause, Rest
<1>5. ASSUME NEW r \in Requests, Grow(r) \/ Event(r) \/ Record(r) PROVE Rest'
  BY <1>5 DEF Grow, Event, Record, Rest
<1>6. ASSUME NEW t \in Threads, Ask(t) \/ Store(t) \/ Forget(t) PROVE Rest'
  <2>1. UNCHANGED <<enabled, op, intercept, stage>>
    BY <1>6 DEF Ask, Store, Forget
  <2>2. failed' = failed \/ failed' = failed \cup {"other"}
    BY <1>6 DEF Ask, Store, Forget
  <2>3. QED
    BY <1>1, <2>1, <2>2 DEF Rest
<1>7. ASSUME NEW t \in Threads, Resume(t) PROVE Rest'
  <2>1. PICK r \in todo[t] :
          \/ /\ stage' = [stage EXCEPT ![r] = IF @ = "paused" THEN "continued" ELSE @]
             /\ failed' = failed
          \/ stage' = stage /\ \E x \in Requests \cup {"other"} : failed' = failed \cup {x}
    BY <1>7 DEF Resume
  <2>2. UNCHANGED <<enabled, op, intercept>>
    BY <1>7 DEF Resume
  <2>3. stage' \in [Requests -> {"new", "paused", "continued"}]
        /\ failed' \subseteq Requests \cup {"other"}
    BY <2>1 DEF Rest
  <2>4. QED
    BY <1>2, <2>2, <2>3
<1>8. ASSUME NEW h \in Handlers, Begin(h) PROVE Rest'
  <2>1. PICK o \in Ops : op' = [op EXCEPT ![h] = o] /\ enabled' = (enabled /\ o # "disable")
    BY <1>8 DEF Begin
  <2>2. UNCHANGED <<intercept, stage, failed>>
    BY <1>8 DEF Begin
  <2>3. op' \in [Handlers -> Ops] /\ enabled' \in BOOLEAN
    BY <2>1 DEF Rest
  <2>4. QED
    BY <2>2, <2>3 DEF Rest
<1>9. ASSUME NEW h \in Handlers, LoopEnds(h) \/ Reset(h) PROVE Rest'
  BY <1>9 DEF LoopEnds, Reset, Rest
<1>10. ASSUME NEW h \in Handlers, FetchEnable(h) PROVE Rest'
  BY <1>10 DEF FetchEnable, Rest
<1>11. ASSUME NEW h \in Handlers, FetchDisable(h) PROVE Rest'
  <2>1. UNCHANGED <<enabled, op>>
    BY <1>11 DEF FetchDisable
  <2>2. \/ intercept' = FALSE /\ LetGo /\ failed' = failed
        \/ failed' = failed \cup {"other"} /\ intercept' = intercept /\ stage' = stage
    BY <1>11 DEF FetchDisable
  <2>3. QED
    BY <1>3, <2>1, <2>2 DEF Rest
<1>12. CASE GetFetchChunks \/ UNCHANGED vars
  BY <1>12 DEF GetFetchChunks, vars, Rest
<1>13. CASE ConnectionLost
  BY <1>3, <1>13 DEF ConnectionLost, Rest
<1>14. QED
  BY <1>4, <1>5, <1>6, <1>7, <1>8, <1>9, <1>10, <1>11, <1>12, <1>13
  DEF Next, Goroutine, Handler, Snapshots, Threads

\* The state stays well formed; above all, every chunk that is recorded is a
\* real piece of a body, never empty or reversed, although its length was
\* asked before the offset it is cut at is read.
THEOREM TypeCorrect == Spec => []TypeOK
<1>1. Init => Types /\ Rest
  BY TypesInit, RestInit
<1>2. Types /\ Rest /\ [Next]_vars => (Types /\ Rest)'
  BY TypesStep, RestStep
<1>3. Types /\ Rest => TypeOK
  BY DEF Types, Rest, TypeOK, Asked
<1>4. QED
  BY <1>1, <1>2, <1>3, PTL DEF Spec

-----------------------------------------------------------------------------
(* Nothing is skipped.  The invariant: an offset in the map is the end of a  *)
(* chunk that the session has, so the chunk that Store appends starts where  *)
(* an earlier one ended.                                                     *)

Ends == OffsetsAreEnds /\ NoBytesSkipped

\* How the session's record grows when a chunk is stored.
LEMMA RecordedGrows ==
  ASSUME Types, NEW k \in Chunk, chunks' = Append(chunks, k), given' = given
  PROVE  /\ Recorded \in Seq(Chunk)
         /\ DOMAIN Recorded = 1..Len(Recorded)
         /\ DOMAIN Recorded' = 1..(Len(Recorded) + 1)
         /\ \A i \in 1..Len(Recorded) : Recorded'[i] = Recorded[i]
         /\ Recorded'[Len(Recorded) + 1] = k
<1>1. chunks \in Seq(Chunk) /\ given \in Seq(Chunk)
  BY DEF Types
<1>2. Recorded \in Seq(Chunk)
  BY <1>1 DEF Recorded
<1>3. Recorded' = Append(Recorded, k)
  BY <1>1 DEF Recorded
<1>4. QED
  BY <1>2, <1>3

\* A step that neither records nor moves an offset, but may drop some.
LEMMA NothingRecorded ==
  ASSUME Ends, Recorded' = Recorded, DOMAIN offset' \subseteq DOMAIN offset,
         \A r \in DOMAIN offset' : offset'[r] = offset[r] \/ offset'[r] = 0
  PROVE  Ends'
  BY DEF Ends, OffsetsAreEnds, NoBytesSkipped

\* The offset of a request is where the session's record of it ends, or 0.
LEMMA OffsetIsEnd ==
  ASSUME Ends, NEW r \in Requests
  PROVE  \/ Offset(r) = 0
         \/ \E i \in DOMAIN Recorded : Recorded[i].req = r /\ Recorded[i].to = Offset(r)
  BY DEF Ends, OffsetsAreEnds, Offset

LEMMA StoreEnds ==
  ASSUME Types, Ends, NEW t \in Threads, at[t] = "store", StoreNew(t), given' = given
  PROVE  Ends'
<1> DEFINE r == got[t].req
           n == Len(Recorded)
           k == [req |-> r, from |-> Offset(r), to |-> got[t].len]
<1>1. k \in Chunk /\ r \in Requests
  BY NewChunk, GotTypes
<1>2. chunks' = Append(chunks, k) /\ SetOffset(r, got[t].len)
  BY DEF StoreNew
<1>3. /\ Recorded \in Seq(Chunk)
      /\ DOMAIN Recorded = 1..n
      /\ DOMAIN Recorded' = 1..(n + 1)
      /\ \A i \in 1..n : Recorded'[i] = Recorded[i]
      /\ Recorded'[n + 1] = k
  BY <1>1, <1>2, RecordedGrows
<1>4. n \in Nat /\ n + 1 \in DOMAIN Recorded'
  BY <1>3
<1>5. k.req = r /\ k.from = Offset(r) /\ k.to = got[t].len
  OBVIOUS
<1> HIDE DEF k, r, n
<1>6. OffsetsAreEnds'
  <2>1. SUFFICES ASSUME NEW q \in DOMAIN offset'
                 PROVE  \/ offset'[q] = 0
                        \/ \E i \in DOMAIN Recorded' : /\ Recorded'[i].req = q
                                                      /\ Recorded'[i].to = offset'[q]
    BY DEF OffsetsAreEnds
  <2>2. CASE q = r
    <3>1. offset'[q] = got[t].len
      BY <1>2, <2>2 DEF SetOffset
    <3>2. QED
      BY <1>3, <1>4, <1>5, <2>2, <3>1
  <2>3. CASE q # r
    <3>1. q \in DOMAIN offset /\ offset'[q] = offset[q]
      BY <1>2, <2>1, <2>3 DEF SetOffset
    <3>2. CASE offset[q] = 0
      BY <3>1, <3>2
    <3>3. ASSUME NEW i \in DOMAIN Recorded, Recorded[i].req = q, Recorded[i].to = offset[q]
          PROVE  \E j \in DOMAIN Recorded' : /\ Recorded'[j].req = q
                                            /\ Recorded'[j].to = offset'[q]
      <4>1. i \in DOMAIN Recorded' /\ Recorded'[i] = Recorded[i]
        BY <1>3, <1>4
      <4>2. QED
        BY <3>1, <3>3, <4>1
    <3>4. QED
      BY <3>1, <3>2, <3>3 DEF Ends, OffsetsAreEnds
  <2>4. QED
    BY <2>2, <2>3
<1>7. NoBytesSkipped'
  <2>1. SUFFICES ASSUME NEW j \in DOMAIN Recorded'
                 PROVE  \/ Recorded'[j].from = 0
                        \/ \E i \in 1..(j - 1) : /\ Recorded'[i].req = Recorded'[j].req
                                                 /\ Recorded'[i].to = Recorded'[j].from
    BY DEF NoBytesSkipped
  <2>2. CASE j \in 1..n
    <3>1. Recorded'[j] = Recorded[j] /\ j \in DOMAIN Recorded
      BY <1>3, <2>2
    <3>2. \A i \in 1..(j - 1) : Recorded'[i] = Recorded[i]
      BY <1>3, <1>4, <2>2
    <3>3. QED
      BY <3>1, <3>2 DEF Ends, NoBytesSkipped
  <2>3. CASE j = n + 1
    <3>1. Recorded'[j].req = r /\ Recorded'[j].from = Offset(r)
      BY <1>3, <1>5, <2>3
    <3>2. CASE Offset(r) = 0
      BY <3>1, <3>2
    <3>3. ASSUME NEW i \in DOMAIN Recorded, Recorded[i].req = r, Recorded[i].to = Offset(r)
          PROVE  \E m \in 1..(j - 1) : /\ Recorded'[m].req = Recorded'[j].req
                                       /\ Recorded'[m].to = Recorded'[j].from
      <4>1. i \in 1..(j - 1) /\ Recorded'[i] = Recorded[i]
        BY <1>3, <1>4, <2>3
      <4>2. QED
        BY <3>1, <3>3, <4>1
    <3>4. QED
      BY <1>1, <3>2, <3>3, OffsetIsEnd
  <2>4. QED
    BY <1>3, <1>4, <2>2, <2>3
<1>8. QED
  BY <1>6, <1>7 DEF Ends

LEMMA EndsInit == ASSUME Init PROVE Ends
<1>1. Recorded = <<>> /\ DOMAIN offset = {}
  BY DEF Init, Recorded
<1>2. QED
  BY <1>1 DEF Ends, OffsetsAreEnds, NoBytesSkipped

LEMMA EndsStep == ASSUME Types, Ends, [Next]_vars PROVE Ends'
<1> USE DEF client, threads, browser
<1>1. ASSUME UNCHANGED <<offset, chunks, given>> PROVE Ends'
  BY <1>1, NothingRecorded DEF Recorded
<1>2. ASSUME NEW r \in Requests, Pause(r) \/ Grow(r) \/ Event(r) PROVE Ends'
  BY <1>1, <1>2 DEF Pause, Grow, Event
<1>3. ASSUME NEW r \in Requests, Record(r) PROVE Ends'
  <2>1. Recorded' = Recorded
    BY <1>3 DEF Record, Recorded
  <2>2. CASE UNCHANGED offset
    BY <1>1, <1>3, <2>2 DEF Record
  <2>3. CASE SetOffset(r, 0)
    <3>1. DOMAIN offset' = DOMAIN offset \cup {r}
          /\ \A q \in DOMAIN offset' : offset'[q] = IF q = r THEN 0 ELSE offset[q]
      BY <2>3 DEF SetOffset
    <3>2. QED
      BY <2>1, <3>1 DEF Ends, OffsetsAreEnds, NoBytesSkipped
  <2>4. QED
    BY <1>3, <2>2, <2>3 DEF Record
<1>4. ASSUME NEW t \in Threads, Ask(t) \/ Resume(t) PROVE Ends'
  BY <1>1, <1>4 DEF Ask, Resume
<1>5. ASSUME NEW t \in Threads, Store(t) PROVE Ends'
  <2>1. at[t] = "store" /\ given' = given
    BY <1>5 DEF Store
  <2>2. CASE StoreNew(t)
    BY <2>1, <2>2, StoreEnds
  <2>3. CASE UNCHANGED <<chunks, offset>>
    BY <1>1, <2>1, <2>3
  <2>4. QED
    BY <1>5, <2>2, <2>3 DEF Store, StoreNew
<1>6. ASSUME NEW t \in Threads, Forget(t) PROVE Ends'
  <2>1. Recorded' = Recorded /\ DOMAIN offset' \subseteq DOMAIN offset
        /\ \A q \in DOMAIN offset' : offset'[q] = offset[q]
    BY <1>6 DEF Forget, Recorded
  <2>2. QED
    BY <2>1, NothingRecorded
<1>7. ASSUME NEW h \in Handlers, Begin(h) \/ LoopEnds(h) \/ FetchEnable(h) \/ FetchDisable(h)
      PROVE  Ends'
  BY <1>1, <1>7 DEF Begin, LoopEnds, FetchEnable, FetchDisable
<1>8. ASSUME NEW h \in Handlers, Reset(h) PROVE Ends'
  <2>1. offset' = <<>> /\ Recorded' = <<>> \o <<>>
    BY <1>8 DEF Reset, Recorded
  <2>2. DOMAIN offset' = {} /\ DOMAIN Recorded' = {}
    BY <2>1
  <2>3. QED
    BY <2>2 DEF Ends, OffsetsAreEnds, NoBytesSkipped
<1>9. ASSUME GetFetchChunks PROVE Ends'
  <2>1. chunks \in Seq(Chunk) /\ given \in Seq(Chunk)
    BY DEF Types
  <2>2. given' = given \o chunks /\ chunks' = <<>> /\ offset' = offset
    BY <1>9 DEF GetFetchChunks
  <2>3. Recorded' = Recorded
    BY <2>1, <2>2 DEF Recorded
  <2>4. QED
    BY <2>2, <2>3, NothingRecorded
<1>10. CASE ConnectionLost \/ UNCHANGED vars
  BY <1>1, <1>10 DEF ConnectionLost, vars
<1>11. QED
  BY <1>2, <1>3, <1>4, <1>5, <1>6, <1>7, <1>8, <1>9, <1>10
  DEF Next, Goroutine, Handler, Snapshots, Threads

\* Whoever records a piece of a body, goroutine or handler, and however their
\* sections and the commands between them interleave, the record of a session
\* has no gap: each chunk starts at 0 or where an earlier one of its response
\* ended.
THEOREM NothingSkipped == Spec => []NoBytesSkipped
<1>1. Init => Types /\ Ends
  BY TypesInit, EndsInit
<1>2. Types /\ Ends /\ [Next]_vars => (Types /\ Ends)'
  BY TypesStep, EndsStep
<1>3. Ends => NoBytesSkipped
  BY DEF Ends
<1>4. QED
  BY <1>1, <1>2, <1>3, PTL DEF Spec

-----------------------------------------------------------------------------
(* What keeps a response held: nothing but its own command.                *)

\* Its goroutine has sent Fetch.continueResponse for it, and for no other.
LetGoOrFailed ==
  \A r \in Requests :
    /\ todo[r] = {r}
    /\ at[r] \in {"forget", "done"} => stage[r] # "paused" \/ r \in failed

LEMMA LetGoInit == ASSUME Init PROVE LetGoOrFailed
  BY DEF Init, Threads, LetGoOrFailed

LEMMA LetGoStep == ASSUME Types, Rest, LetGoOrFailed, [Next]_vars PROVE LetGoOrFailed'
<1> USE DEF client, threads, browser
<1>0. /\ \A r \in Requests : r \in Threads /\ r \notin Handlers
      /\ DOMAIN at = Threads /\ DOMAIN todo = Threads /\ DOMAIN stage = Requests
  BY FetchAssumption DEF Threads, Types, Rest
<1>1. ASSUME NEW r \in Requests, Pause(r) PROVE LetGoOrFailed'
  BY <1>0, <1>1 DEF Pause, Goto, LetGoOrFailed
<1>2. ASSUME NEW r \in Requests, Grow(r) \/ Event(r) \/ Record(r) PROVE LetGoOrFailed'
  BY <1>0, <1>2 DEF Grow, Event, Record, Goto, LetGoOrFailed
<1>3. ASSUME NEW t \in Threads, Ask(t) PROVE LetGoOrFailed'
  <2>1. /\ \A q \in Threads : at'[q] = IF q = t THEN "store" ELSE at[q]
        /\ UNCHANGED <<todo, stage>> /\ failed \subseteq failed'
    BY <1>0, <1>3 DEF Ask, Goto
  <2>2. QED
    BY <1>0, <2>1 DEF LetGoOrFailed
<1>4. ASSUME NEW t \in Threads, Store(t) PROVE LetGoOrFailed'
  <2>1. /\ \A q \in Threads : at'[q] = at[q] \/ at'[q] \in {"ask", "resume"}
        /\ \A q \in Requests : todo'[q] = todo[q]
        /\ UNCHANGED <<stage, failed>>
    BY <1>0, <1>4 DEF Store, Snapped, Goto
  <2>2. QED
    BY <1>0, <2>1 DEF LetGoOrFailed
<1>5. ASSUME NEW t \in Threads, Resume(t) PROVE LetGoOrFailed'
  <2>1. PICK r \in todo[t] :
          /\ \/ /\ stage' = [stage EXCEPT ![r] = IF @ = "paused" THEN "continued" ELSE @]
                /\ failed' = failed
             \/ /\ stage' = stage
                /\ failed' = failed \cup {IF t \in Requests THEN t ELSE "other"}
          /\ \/ t \in Handlers /\ todo' = [todo EXCEPT ![t] = @ \ {r}] /\ at' = at
             \/ Goto(t, "forget") /\ todo' = todo
    BY <1>5 DEF Resume
  <2>2. r \in Requests
    BY <2>1 DEF Types
  <2>3. /\ \A q \in Requests : todo'[q] = todo[q]
        /\ \A q \in Requests : q # t => at'[q] = at[q]
        /\ \A q \in Requests : stage'[q] = "paused" => stage[q] = "paused"
        /\ failed \subseteq failed'
    BY <1>0, <2>1, <2>2 DEF Goto
  <2>4. t \in Requests => stage'[t] # "paused" \/ t \in failed'
    <3>1. t \in Requests => r = t
      BY <2>1 DEF LetGoOrFailed
    <3>2. QED
      BY <1>0, <2>1, <2>2, <3>1
  <2>5. QED
    BY <2>3, <2>4 DEF LetGoOrFailed
<1>6. ASSUME NEW t \in Threads, Forget(t) PROVE LetGoOrFailed'
  <2>1. /\ at[t] = "forget"
        /\ \A q \in Threads : at'[q] = at[q] \/ (q = t /\ at'[q] \in {"done", "resume"})
        /\ \A q \in Requests : todo'[q] = todo[q]
        /\ UNCHANGED <<stage, failed>>
    BY <1>0, <1>6 DEF Forget, Goto
  <2>2. QED
    BY <1>0, <2>1 DEF LetGoOrFailed
<1>7. ASSUME NEW h \in Handlers,
             Begin(h) \/ LoopEnds(h) \/ Reset(h) \/ FetchEnable(h) \/ FetchDisable(h)
      PROVE  LetGoOrFailed'
  <2>1. /\ \A q \in Requests : at'[q] = at[q] /\ todo'[q] = todo[q]
        /\ \A q \in Requests : stage'[q] = "paused" => stage[q] = "paused"
        /\ failed \subseteq failed'
    BY <1>0, <1>7 DEF Begin, LoopEnds, Reset, FetchEnable, FetchDisable, LetGo, Goto
  <2>2. QED
    BY <2>1 DEF LetGoOrFailed
<1>8. CASE GetFetchChunks \/ ConnectionLost \/ UNCHANGED vars
  BY <1>8 DEF GetFetchChunks, ConnectionLost, LetGo, vars, LetGoOrFailed
<1>9. QED
  BY <1>1, <1>2, <1>3, <1>4, <1>5, <1>6, <1>7, <1>8
  DEF Next, Goroutine, Handler, Snapshots, Threads

\* When the goroutine of a response has ended, the response is held only if its own
\* Fetch.continueResponse failed (client.go:1064 drops the error): what the polls,
\* the other handlers and a lost connection do meanwhile never keeps it.
THEOREM HeldOnlyByFailure ==
  Spec => [](\A r \in Requests : at[r] = "done" => stage[r] # "paused" \/ r \in failed)
<1>1. Init => Types /\ Rest /\ LetGoOrFailed
  BY TypesInit, RestInit, LetGoInit
<1>2. Types /\ Rest /\ LetGoOrFailed /\ [Next]_vars => (Types /\ Rest /\ LetGoOrFailed)'
  BY TypesStep, RestStep, LetGoStep
<1>3. LetGoOrFailed
      => \A r \in Requests : at[r] = "done" => stage[r] # "paused" \/ r \in failed
  BY DEF LetGoOrFailed
<1>4. QED
  BY <1>1, <1>2, <1>3, PTL DEF Spec

-----------------------------------------------------------------------------
(* OnlyNewBytes fails when an answer that was asked for before a response   *)
(* was let go is stored after the response left the map, or when letting it *)
(* go failed.  It fails in no other way.                                    *)

\* No command failed, and no request leaves the map while what a thread was told
\* of its body is still to be stored.
Calm ==
  /\ failed = {}
  /\ \A t, u \in Threads : at[t] = "store" /\ at[u] = "forget" /\ got[t].len > 0
                           => got[t].req # got[u].req

Noted(r) == \E i \in DOMAIN Recorded : Recorded[i].req = r

\* The property, of all that was recorded.
AllNew ==
  \A i, j \in DOMAIN Recorded :
    i < j /\ Recorded[i].req = Recorded[j].req => Recorded[i].to <= Recorded[j].from

\* The offset in the map is behind everything recorded of the request.
BelowOffset ==
  \A i \in DOMAIN Recorded : LET r == Recorded[i].req IN
    r \in DOMAIN offset => Recorded[i].to <= offset[r]

\* A request that was recorded and has left the map will not be recorded again.
LeftForGood ==
  \A r \in Requests : Noted(r) /\ r \notin DOMAIN offset =>
    /\ stage[r] = "continued"
    /\ \A t \in Threads : at[t] = "store" /\ got[t].req = r => got[t].len = 0

ForgetsContinued ==
  \A t \in Threads : at[t] = "forget" => stage[got[t].req] = "continued"

\* Before its own section of handleFetchPaused nobody knows of a request.
Early == {"idle", "event", "record"}
KnownLater ==
  /\ \A r \in Requests : at[r] \in Early =>
       /\ r \notin DOMAIN offset /\ ~Noted(r)
       /\ \A h \in Handlers : r \notin todo[h]
       /\ \A t \in Threads : at[t] \in {"store", "forget"} => got[t].req # r
  /\ \A r \in Requests : stage[r] = "new" => at[r] = "idle"
  /\ \A r \in Requests : todo[r] \subseteq {r}

NewInv == AllNew /\ BelowOffset /\ LeftForGood /\ ForgetsContinued /\ KnownLater

\* Steps that record nothing, leave the map alone and ask nothing: a response
\* moves on at most, and so does a thread.
LEMMA NewInvQuiet ==
  ASSUME NewInv, UNCHANGED offset, Recorded' = Recorded,
         \A r \in Requests : stage'[r] = stage[r] \/ (stage[r] # "continued" /\ stage'[r] # "new"),
         \A t \in Threads : todo'[t] \subseteq todo[t],
         \A t \in Threads : at'[t] \in {"store", "forget"} => at[t] = at'[t] /\ got'[t] = got[t],
         \A r \in Requests : at'[r] \in Early => at[r] \in Early,
         \A r \in Requests : stage'[r] = "new" => at'[r] = "idle",
         Types
  PROVE  NewInv'
<1>1. \A r \in Requests : Noted(r)' <=> Noted(r)
  BY DEF Noted
<1>2. AllNew' /\ BelowOffset'
  BY DEF NewInv, AllNew, BelowOffset
<1>3. \A r \in Requests : stage[r] = "continued" => stage'[r] = "continued"
  OBVIOUS
<1>4. LeftForGood'
  BY <1>1, <1>3 DEF NewInv, LeftForGood
<1>5. ForgetsContinued'
  <2>1. \A t \in Threads : at[t] = "forget" => got[t].req \in Requests
    BY GotTypes
  <2>2. QED
    BY <1>3, <2>1 DEF NewInv, ForgetsContinued
<1>6. KnownLater'
  BY <1>1 DEF NewInv, KnownLater, Threads
<1>7. QED
  BY <1>2, <1>4, <1>5, <1>6 DEF NewInv

\* What a goroutine or a handler is to go through is known by then.
LEMMA AreKnown ==
  ASSUME Types, NewInv, NEW t \in Threads, at[t] \in {"ask", "resume"}, NEW r \in todo[t]
  PROVE  r \in Requests /\ at[r] \notin Early /\ stage[r] # "new"
<1>1. r \in Requests
  BY DEF Types
<1>2. at[r] \notin Early
  <2>1. CASE t \in Handlers
    BY <1>1, <2>1 DEF NewInv, KnownLater
  <2>2. CASE t \in Requests
    BY <2>2 DEF NewInv, KnownLater, Early
  <2>3. QED
    BY <2>1, <2>2 DEF Threads
<1>3. QED
  BY <1>1, <1>2 DEF NewInv, KnownLater, Early

LEMMA NewInvAsk ==
  ASSUME Types, NewInv, NEW t \in Threads, Ask(t)
  PROVE  NewInv'
<1> USE DEF client, browser
<1>1. PICK r \in todo[t] : \E n \in {0, body[r]} :
        /\ got' = [got EXCEPT ![t] = [req |-> r, len |-> n]]
        /\ (n = 0 \/ stage[r] = "paused")
  BY DEF Ask
<1>2. PICK n \in {0, body[r]} : /\ got' = [got EXCEPT ![t] = [req |-> r, len |-> n]]
                               /\ (n = 0 \/ stage[r] = "paused")
  BY <1>1
<1>3. /\ \A u \in Threads : at'[u] = IF u = t THEN "store" ELSE at[u]
      /\ \A u \in Threads : u # t => got'[u] = got[u]
      /\ got'[t].req = r /\ got'[t].len = n
  BY <1>2 DEF Ask, Goto, Types
<1>4. at[t] = "ask" /\ UNCHANGED <<offset, chunks, given, stage, todo>>
  BY DEF Ask
<1>5. r \in Requests /\ at[r] \notin Early /\ stage[r] # "new"
  BY <1>4, AreKnown
<1>6. Recorded' = Recorded /\ \A q \in Requests : Noted(q)' <=> Noted(q)
  BY <1>4 DEF Recorded, Noted
<1>7. AllNew' /\ BelowOffset'
  BY <1>4, <1>6 DEF NewInv, AllNew, BelowOffset
<1>8. LeftForGood'
  BY <1>2, <1>3, <1>4, <1>6 DEF NewInv, LeftForGood
<1>9. ForgetsContinued'
  BY <1>3, <1>4 DEF NewInv, ForgetsContinued
<1>10. KnownLater'
  BY <1>3, <1>4, <1>5, <1>6 DEF NewInv, KnownLater, Threads, Early
<1>11. QED
  BY <1>7, <1>8, <1>9, <1>10 DEF NewInv

\* A chunk that is stored begins behind all others of its request.
LEMMA NewInvStore ==
  ASSUME Types, NewInv, NEW t \in Threads, at[t] = "store", StoreNew(t), Snapped(t),
         UNCHANGED <<given, stage>>
  PROVE  NewInv'
<1> DEFINE r == got[t].req
           n == Len(Recorded)
           k == [req |-> r, from |-> Offset(r), to |-> got[t].len]
<1>1. /\ k \in Chunk /\ r \in Requests /\ got[t].len \in 0..MaxBody
      /\ Offset(r) \in 0..MaxBody /\ got[t].len > Offset(r)
  BY NewChunk, GotTypes DEF StoreNew
<1>2. chunks' = Append(chunks, k) /\ SetOffset(r, got[t].len)
  BY DEF StoreNew
<1>3. /\ Recorded \in Seq(Chunk)
      /\ DOMAIN Recorded = 1..n
      /\ DOMAIN Recorded' = 1..(n + 1)
      /\ \A i \in 1..n : Recorded'[i] = Recorded[i]
      /\ Recorded'[n + 1] = k
  BY <1>1, <1>2, RecordedGrows
<1>4. n \in Nat
  BY <1>3
<1>5. k.req = r /\ k.from = Offset(r) /\ k.to = got[t].len
  OBVIOUS
<1>6. ASSUME NEW i \in 1..n, Recorded[i].req = r PROVE Recorded[i].to <= Offset(r)
  <2>1. CASE r \in DOMAIN offset
    BY <1>3, <1>6, <2>1 DEF NewInv, BelowOffset, Offset
  <2>2. CASE r \notin DOMAIN offset
    <3>1. got[t].len = 0
      BY <1>1, <1>3, <1>6, <2>2 DEF NewInv, LeftForGood, Noted
    <3>2. QED
      BY <1>1, <2>2, <3>1 DEF Offset
  <2>3. QED
    BY <2>1, <2>2
<1>7. /\ DOMAIN offset' = DOMAIN offset \cup {r}
      /\ \A q \in DOMAIN offset' : offset'[q] = IF q = r THEN got[t].len ELSE offset[q]
  BY <1>2 DEF SetOffset
<1>8. /\ \A u \in Threads : u # t => at'[u] = at[u] /\ got'[u] = got[u]
      /\ at'[t] \in {"ask", "resume"}
      /\ \A u \in Threads : todo'[u] \subseteq todo[u]
  BY DEF Snapped, Goto, Types
<1>9. \A q \in Requests : Noted(q)' <=> Noted(q) \/ q = r
  <2>1. \A i \in 1..(n + 1) : i \in 1..n \/ i = n + 1
    BY <1>4
  <2>2. n + 1 \in 1..(n + 1) /\ \A i \in 1..n : i \in 1..(n + 1)
    BY <1>4
  <2>3. QED
    BY <1>3, <1>5, <2>1, <2>2 DEF Noted
<1>10. \A i \in 1..n : Recorded[i].to \in 0..MaxBody
  BY <1>3 DEF Chunk
<1> HIDE DEF k, r, n
<1>11. AllNew'
  <2>1. SUFFICES ASSUME NEW i \in 1..(n + 1), NEW j \in 1..(n + 1), i < j,
                        Recorded'[i].req = Recorded'[j].req
                 PROVE  Recorded'[i].to <= Recorded'[j].from
    BY <1>3 DEF AllNew
  <2>2. i \in 1..n
    BY <1>4, <2>1
  <2>3. CASE j \in 1..n
    BY <1>3, <2>1, <2>2, <2>3 DEF NewInv, AllNew
  <2>4. CASE j = n + 1
    BY <1>3, <1>5, <1>6, <2>1, <2>2, <2>4
  <2>5. QED
    BY <1>4, <2>3, <2>4
<1>12. BelowOffset'
  <2>1. SUFFICES ASSUME NEW i \in 1..(n + 1), Recorded'[i].req \in DOMAIN offset'
                 PROVE  Recorded'[i].to <= offset'[Recorded'[i].req]
    BY <1>3 DEF BelowOffset
  <2>2. CASE i = n + 1
    BY <1>1, <1>3, <1>5, <1>7, <2>1, <2>2
  <2>3. CASE i \in 1..n
    <3>1. Recorded'[i] = Recorded[i] /\ i \in DOMAIN Recorded
      BY <1>3, <2>3
    <3>2. CASE Recorded[i].req = r
      <4>1. Recorded[i].to <= Offset(r) /\ Recorded[i].to \in 0..MaxBody
        BY <1>6, <1>10, <2>3, <3>2
      <4>2. Recorded[i].to <= got[t].len
        BY <1>1, <4>1, Bounds
      <4>3. QED
        BY <1>7, <2>1, <3>1, <3>2, <4>2
    <3>3. CASE Recorded[i].req # r
      BY <1>7, <2>1, <3>1, <3>3 DEF NewInv, BelowOffset
    <3>4. QED
      BY <3>2, <3>3
  <2>4. QED
    BY <1>4, <2>2, <2>3
<1>13. LeftForGood'
  BY <1>7, <1>8, <1>9 DEF NewInv, LeftForGood
<1>14. ForgetsContinued'
  BY <1>8 DEF NewInv, ForgetsContinued
<1>15. KnownLater'
  <2>1. at[r] \notin Early
    BY <1>1 DEF NewInv, KnownLater, r
  <2>2. \A q \in Requests : at'[q] \in Early => at[q] \in Early
    BY <1>8 DEF Threads, Early
  <2>3. \A q \in Requests : stage'[q] = "new" => at'[q] = "idle"
    BY <1>8 DEF NewInv, KnownLater, Threads
  <2>4. QED
    BY <1>7, <1>8, <1>9, <2>1, <2>2, <2>3 DEF NewInv, KnownLater, Threads
<1>16. QED
  BY <1>11, <1>12, <1>13, <1>14, <1>15 DEF NewInv

\* A request leaves the map only when nothing of it is still to be stored.
LEMMA NewInvForget ==
  ASSUME Types, NewInv, Calm, NEW t \in Threads, Forget(t)
  PROVE  NewInv'
<1> USE DEF client, browser
<1> DEFINE r == got[t].req
<1>1. at[t] = "forget" /\ r \in Requests /\ stage[r] = "continued"
  BY GotTypes DEF Forget, NewInv, ForgetsContinued
<1>2. /\ DOMAIN offset' = DOMAIN offset \ {r}
      /\ \A q \in DOMAIN offset' : offset'[q] = offset[q]
      /\ UNCHANGED <<chunks, given, stage>>
  BY DEF Forget
<1>3. /\ \A u \in Threads : u # t => at'[u] = at[u] /\ got'[u] = got[u]
      /\ at'[t] \in {"done", "resume"}
      /\ \A u \in Threads : todo'[u] \subseteq todo[u]
  BY DEF Forget, Goto, Types
<1>4. Recorded' = Recorded /\ \A q \in Requests : Noted(q)' <=> Noted(q)
  BY <1>2 DEF Recorded, Noted
<1>5. \A u \in Threads : at[u] = "store" /\ got[u].req = r => got[u].len = 0
  <2>1. \A u \in Threads : at[u] = "store" => got[u].len \in 0..MaxBody
    BY GotTypes
  <2>2. QED
    BY <1>1, <2>1, Bounds DEF Calm
<1> HIDE DEF r
<1>6. AllNew' /\ BelowOffset'
  BY <1>2, <1>4 DEF NewInv, AllNew, BelowOffset
<1>7. LeftForGood'
  BY <1>1, <1>2, <1>3, <1>4, <1>5 DEF NewInv, LeftForGood
<1>8. ForgetsContinued'
  BY <1>2, <1>3 DEF NewInv, ForgetsContinued
<1>9. KnownLater'
  <2>1. \A q \in Requests : at'[q] \in Early => at[q] \in Early
    BY <1>3 DEF Threads, Early
  <2>2. \A q \in Requests : stage'[q] = "new" => at'[q] = "idle"
    BY <1>1, <1>2, <1>3 DEF NewInv, KnownLater, Threads
  <2>3. QED
    BY <1>2, <1>3, <1>4, <2>1, <2>2 DEF NewInv, KnownLater, Threads
<1>10. QED
  BY <1>6, <1>7, <1>8, <1>9 DEF NewInv

LEMMA NewInvResume ==
  ASSUME Types, Rest, NewInv, Calm', NEW t \in Threads, Resume(t)
  PROVE  NewInv'
<1> USE DEF client
<1>1. PICK r \in todo[t] :
        /\ \/ stage' = [stage EXCEPT ![r] = IF @ = "paused" THEN "continued" ELSE @]
           \/ UNCHANGED stage /\ failed' # {}
        /\ \/ todo' = [todo EXCEPT ![t] = @ \ {r}] /\ UNCHANGED <<at, got>>
           \/ /\ Goto(t, "forget")
              /\ got' = [got EXCEPT ![t] = [req |-> r, len |-> 0]]
              /\ UNCHANGED todo
  BY DEF Resume
<1>2. at[t] = "resume" /\ UNCHANGED <<offset, chunks, given>>
  BY DEF Resume
<1>3. r \in Requests /\ at[r] \notin Early /\ stage[r] # "new"
  BY <1>2, AreKnown
<1>4. stage' = [stage EXCEPT ![r] = IF @ = "paused" THEN "continued" ELSE @]
  BY <1>1 DEF Calm
<1>5. stage'[r] = "continued" /\ \A q \in Requests : q # r => stage'[q] = stage[q]
  BY <1>3, <1>4 DEF Rest
<1>6. Recorded' = Recorded /\ \A q \in Requests : Noted(q)' <=> Noted(q)
  BY <1>2 DEF Recorded, Noted
<1>7. CASE todo' = [todo EXCEPT ![t] = @ \ {r}] /\ UNCHANGED <<at, got>>
  <2>1. \A u \in Threads : todo'[u] \subseteq todo[u]
    BY <1>7 DEF Types
  <2>2. \A q \in Requests : stage'[q] = "new" => at'[q] = "idle"
    BY <1>5, <1>7 DEF NewInv, KnownLater
  <2>3. \A q \in Requests : stage'[q] = stage[q] \/ (stage[q] # "continued" /\ stage'[q] # "new")
    BY <1>5
  <2>4. QED
    BY <1>2, <1>6, <1>7, <2>1, <2>2, <2>3, NewInvQuiet
<1>8. CASE Goto(t, "forget") /\ got' = [got EXCEPT ![t] = [req |-> r, len |-> 0]] /\ UNCHANGED todo
  <2>1. /\ \A u \in Threads : u # t => at'[u] = at[u] /\ got'[u] = got[u]
        /\ at'[t] = "forget" /\ got'[t].req = r
    BY <1>8 DEF Goto, Types
  <2>2. AllNew' /\ BelowOffset'
    BY <1>2, <1>6 DEF NewInv, AllNew, BelowOffset
  <2>3. LeftForGood'
    BY <1>2, <1>5, <1>6, <2>1 DEF NewInv, LeftForGood
  <2>4. ForgetsContinued'
    <3>1. \A u \in Threads : at[u] = "forget" => stage'[got[u].req] = "continued"
      <4>1. \A u \in Threads : at[u] = "forget" => got[u].req \in Requests
        BY GotTypes
      <4>2. QED
        BY <1>5, <4>1 DEF NewInv, ForgetsContinued
    <3>2. QED
      BY <1>5, <2>1, <3>1 DEF ForgetsContinued
  <2>5. KnownLater'
    BY <1>2, <1>3, <1>5, <1>6, <1>8, <2>1 DEF NewInv, KnownLater, Threads, Early
  <2>6. QED
    BY <2>2, <2>3, <2>4, <2>5 DEF NewInv
<1>9. QED
  BY <1>1, <1>7, <1>8

LEMMA ResetEmpties ==
  ASSUME NEW h \in Handlers, Reset(h)
  PROVE  DOMAIN offset' = {} /\ DOMAIN Recorded' = {}
<1>1. offset' = <<>> /\ Recorded' = <<>> \o <<>>
  BY DEF Reset, Recorded
<1>2. QED
  BY <1>1

\* A handler's sections, and the end of a connection.
LEMMA NewInvHandler ==
  ASSUME Types, Rest, NewInv, NEW h \in Handlers,
         Begin(h) \/ LoopEnds(h) \/ Reset(h) \/ FetchEnable(h) \/ FetchDisable(h)
  PROVE  NewInv'
<1> USE DEF client, browser
<1>1. h \in Threads /\ h \notin Requests /\ at[h] \notin {"store", "forget"}
  BY FetchAssumption DEF Threads, Begin, LoopEnds, Reset, FetchEnable, FetchDisable
<1>2. PICK place \in {"idle", "ask", "resume", "reset", "fetch enable", "fetch disable"} : Goto(h, place)
  BY DEF Begin, LoopEnds, Reset, FetchEnable, FetchDisable
<1>3. /\ \A u \in Threads : u # h => at'[u] = at[u]
      /\ at'[h] \notin {"store", "forget"}
      /\ \A q \in Requests : at'[q] = at[q]
  BY <1>1, <1>2 DEF Goto, Types, Threads
<1>4. UNCHANGED got
  BY DEF Begin, LoopEnds, Reset, FetchEnable, FetchDisable
<1>5. CASE LoopEnds(h) \/ FetchEnable(h) \/ FetchDisable(h)
  <2>1. UNCHANGED <<offset, todo>> /\ Recorded' = Recorded
    BY <1>5 DEF LoopEnds, FetchEnable, FetchDisable, Recorded
  <2>2. \A q \in Requests : \/ stage'[q] = stage[q]
                            \/ stage[q] # "continued" /\ stage'[q] # "new"
    BY <1>5 DEF LoopEnds, FetchEnable, FetchDisable, LetGo
  <2>3. \A q \in Requests : stage'[q] = "new" => stage[q] = "new"
    BY <1>5 DEF LoopEnds, FetchEnable, FetchDisable, LetGo
  <2>4. \A q \in Requests : stage'[q] = "new" => at'[q] = "idle"
    BY <1>3, <2>3 DEF NewInv, KnownLater
  <2>5. QED
    BY <1>3, <1>4, <2>1, <2>2, <2>4, NewInvQuiet
<1>6. CASE Begin(h)
  <2>1. /\ UNCHANGED <<offset, chunks, given, stage>>
        /\ todo' = [todo EXCEPT ![h] = DOMAIN offset]
    BY <1>6 DEF Begin
  <2>2. Recorded' = Recorded /\ \A q \in Requests : Noted(q)' <=> Noted(q)
    BY <2>1 DEF Recorded, Noted
  <2>3. \A u \in Threads : todo'[u] = IF u = h THEN DOMAIN offset ELSE todo[u]
    BY <2>1 DEF Types
  <2>4. AllNew' /\ BelowOffset'
    BY <2>1, <2>2 DEF NewInv, AllNew, BelowOffset
  <2>5. LeftForGood' /\ ForgetsContinued'
    BY <1>3, <1>4, <2>1, <2>2 DEF NewInv, LeftForGood, ForgetsContinued
  <2>6. KnownLater'
    <3>1. /\ \A q \in Requests : at'[q] \in Early => q \notin DOMAIN offset
          /\ \A q \in Requests, u \in Handlers : at'[q] \in Early => q \notin todo'[u]
      BY <1>3, <2>3 DEF NewInv, KnownLater, Threads
    <3>2. \A q \in Requests : todo'[q] = todo[q]
      BY <1>1, <2>3 DEF Threads
    <3>3. QED
      BY <1>3, <1>4, <2>1, <2>2, <3>1, <3>2 DEF NewInv, KnownLater
  <2>7. QED
    BY <2>4, <2>5, <2>6 DEF NewInv
<1>7. CASE Reset(h)
  <2>1. UNCHANGED <<todo, stage>>
    BY <1>7 DEF Reset
  <2>2. DOMAIN offset' = {} /\ DOMAIN Recorded' = {}
    BY <1>7, ResetEmpties
  <2>3. AllNew' /\ BelowOffset' /\ \A q \in Requests : ~Noted(q)'
    BY <2>2 DEF AllNew, BelowOffset, Noted
  <2>4. LeftForGood' /\ ForgetsContinued'
    BY <1>3, <1>4, <2>1, <2>3 DEF NewInv, LeftForGood, ForgetsContinued
  <2>5. KnownLater'
    BY <1>1, <1>3, <1>4, <2>1, <2>2, <2>3 DEF NewInv, KnownLater, Threads
  <2>6. QED
    BY <2>3, <2>4, <2>5 DEF NewInv
<1>8. QED
  BY <1>5, <1>6, <1>7

\* A response on its way to the map, and the browser's own steps.
LEMMA NewInvResponse ==
  ASSUME Types, Rest, NewInv, NEW r \in Requests, Pause(r) \/ Grow(r) \/ Event(r) \/ Record(r)
  PROVE  NewInv'
<1> USE DEF client, threads, browser
<1>1. r \in Threads
  BY DEF Threads
<1>2. CASE Grow(r)
  <2>1. UNCHANGED <<offset, stage, todo, at, got>> /\ Recorded' = Recorded
    BY <1>2 DEF Grow, Recorded
  <2>2. QED
    BY <2>1, NewInvQuiet DEF NewInv, KnownLater
<1>3. CASE Pause(r) \/ Event(r)
  <2>1. UNCHANGED <<offset, todo, got>> /\ Recorded' = Recorded /\ at[r] \in Early
    BY <1>3 DEF Pause, Event, Recorded, Early, NewInv, KnownLater
  <2>2. /\ \A u \in Threads : u # r => at'[u] = at[u]
        /\ at'[r] \in {"event", "record", "dropped"}
    BY <1>1, <1>3 DEF Pause, Event, Goto, Types
  <2>3. \A q \in Requests : /\ q # r => stage'[q] = stage[q]
                            /\ stage'[r] = stage[r] \/ (stage[r] = "new" /\ stage'[r] = "paused")
    BY <1>3 DEF Pause, Event, Rest
  <2>4. stage'[r] # "new"
    <3>1. CASE Pause(r)
      BY <3>1 DEF Pause, Rest
    <3>2. CASE Event(r)
      BY <3>2 DEF Event, NewInv, KnownLater
    <3>3. QED
      BY <1>3, <3>1, <3>2
  <2>5. \A q \in Requests : stage'[q] = "new" => at'[q] = "idle"
    BY <2>2, <2>3, <2>4 DEF NewInv, KnownLater, Threads
  <2>6. \A q \in Requests : at'[q] \in Early => at[q] \in Early
    BY <2>1, <2>2 DEF Threads
  <2>7. \A u \in Threads : at'[u] \in {"store", "forget"} => at[u] = at'[u] /\ got'[u] = got[u]
    BY <2>1, <2>2
  <2>8. QED
    BY <2>1, <2>3, <2>5, <2>6, <2>7, NewInvQuiet
<1>4. CASE Record(r)
  <2>1. UNCHANGED <<stage, todo, got>> /\ Recorded' = Recorded /\ at[r] = "record" /\ at[r] \in Early
    BY <1>4 DEF Record, Recorded, Early
  <2>2. ~Noted(r) /\ r \notin DOMAIN offset
    BY <2>1 DEF NewInv, KnownLater
  <2>3. /\ \A u \in Threads : u # r => at'[u] = at[u]
        /\ at'[r] = "ask"
    BY <1>1, <1>4 DEF Record, Goto, Types
  <2>4. \/ UNCHANGED offset
        \/ /\ DOMAIN offset' = DOMAIN offset \cup {r}
           /\ \A q \in DOMAIN offset : q # r => offset'[q] = offset[q]
    BY <1>4 DEF Record, SetOffset
  <2>5. \A q \in Requests : Noted(q)' <=> Noted(q)
    BY <2>1 DEF Noted
  <2>6. AllNew' /\ BelowOffset'
    BY <2>1, <2>2, <2>4 DEF NewInv, AllNew, BelowOffset, Noted
  <2>7. LeftForGood' /\ ForgetsContinued'
    BY <1>1, <2>1, <2>3, <2>4, <2>5 DEF NewInv, LeftForGood, ForgetsContinued
  <2>8. KnownLater'
    BY <1>1, <2>1, <2>3, <2>4, <2>5 DEF NewInv, KnownLater, Threads, Early
  <2>9. QED
    BY <2>6, <2>7, <2>8 DEF NewInv
<1>5. QED
  BY <1>2, <1>3, <1>4

LEMMA NewInvInit == ASSUME Init PROVE NewInv
<1>1. Recorded = <<>> /\ DOMAIN offset = {}
  BY DEF Init, Recorded
<1>2. AllNew /\ BelowOffset /\ \A r \in Requests : ~Noted(r)
  BY <1>1 DEF AllNew, BelowOffset, Noted
<1>3. LeftForGood /\ ForgetsContinued
  BY <1>2 DEF Init, LeftForGood, ForgetsContinued
<1>4. KnownLater
  BY <1>1, <1>2, FetchAssumption DEF Init, KnownLater, Threads
<1>5. QED
  BY <1>2, <1>3, <1>4 DEF NewInv

LEMMA NewInvStep == ASSUME Types, Rest, NewInv, Calm, Calm', [Next]_vars PROVE NewInv'
<1> USE DEF client, threads, browser
<1>1. ASSUME NEW t \in Threads, Store(t) PROVE NewInv'
  <2>1. at[t] = "store" /\ Snapped(t) /\ UNCHANGED <<given, stage>>
    BY <1>1 DEF Store
  <2>2. CASE StoreNew(t)
    BY <2>1, <2>2, NewInvStore
  <2>3. CASE UNCHANGED <<chunks, offset>>
    <3>1. /\ \A u \in Threads : u # t => at'[u] = at[u] /\ got'[u] = got[u]
          /\ at'[t] \in {"ask", "resume"}
          /\ \A u \in Threads : todo'[u] \subseteq todo[u]
      BY <2>1 DEF Snapped, Goto, Types
    <3>2. Recorded' = Recorded
      BY <2>1, <2>3 DEF Recorded
    <3>3. \A q \in Requests : at'[q] \in Early => at[q] \in Early
      BY <3>1 DEF Threads, Early
    <3>4. \A q \in Requests : stage'[q] = "new" => at'[q] = "idle"
      BY <2>1, <3>1 DEF NewInv, KnownLater, Threads
    <3>5. QED
      BY <2>1, <2>3, <3>1, <3>2, <3>3, <3>4, NewInvQuiet
  <2>4. QED
    BY <1>1, <2>2, <2>3 DEF Store, StoreNew
<1>2. CASE GetFetchChunks \/ ConnectionLost \/ UNCHANGED vars
  <2>1. UNCHANGED <<offset, todo, at, got>>
    BY <1>2 DEF GetFetchChunks, ConnectionLost, vars
  <2>2. Recorded' = Recorded
    <3>1. chunks \in Seq(Chunk) /\ given \in Seq(Chunk)
      BY DEF Types
    <3>2. CASE GetFetchChunks
      BY <3>1, <3>2 DEF GetFetchChunks, Recorded
    <3>3. QED
      BY <1>2, <3>2 DEF ConnectionLost, vars, Recorded
  <2>3. \A q \in Requests : \/ stage'[q] = stage[q]
                            \/ stage[q] # "continued" /\ stage'[q] # "new"
    BY <1>2 DEF GetFetchChunks, ConnectionLost, LetGo, vars
  <2>4. \A q \in Requests : stage'[q] = "new" => at'[q] = "idle"
    <3>1. \A q \in Requests : stage'[q] = "new" => stage[q] = "new"
      BY <1>2 DEF GetFetchChunks, ConnectionLost, LetGo, vars
    <3>2. QED
      BY <2>1, <3>1 DEF NewInv, KnownLater
  <2>5. QED
    BY <2>1, <2>2, <2>3, <2>4, NewInvQuiet
<1>3. QED
  BY <1>1, <1>2, NewInvAsk, NewInvForget, NewInvResume, NewInvHandler, NewInvResponse
  DEF Next, Goroutine, Handler, Snapshots, Threads

\* The chunks handed out are those recorded first.
LEMMA GivenIsRecorded ==
  ASSUME Types
  PROVE  \A i \in DOMAIN given : i \in DOMAIN Recorded /\ Recorded[i] = given[i]
<1>1. chunks \in Seq(Chunk) /\ given \in Seq(Chunk)
  BY DEF Types
<1>2. QED
  BY <1>1 DEF Recorded

\* "Only NEW chunks" (client.go:1171): no byte is handed out twice in a session, in
\* every behaviour in which no command fails and no answer outlives its request in
\* the map, for any number of responses, handlers, sessions and polls.
THEOREM OnlyNewWhileCalm == Spec /\ []Calm => []OnlyNewBytes
<1>1. Init => Types /\ Rest /\ NewInv
  BY TypesInit, RestInit, NewInvInit
<1>2. Types /\ Rest /\ NewInv /\ Calm /\ Calm' /\ [Next]_vars => (Types /\ Rest /\ NewInv)'
  BY TypesStep, RestStep, NewInvStep
<1>3. Types /\ Rest /\ NewInv => OnlyNewBytes
  BY GivenIsRecorded DEF NewInv, AllNew, OnlyNewBytes
<1>4. QED
  BY <1>1, <1>2, <1>3, PTL DEF Spec

=============================================================================
