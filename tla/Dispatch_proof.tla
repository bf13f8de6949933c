---------------------------- MODULE Dispatch_proof ----------------------------
(***************************************************************************)
(* Dispatch for any number of calls and any routes: types, the answers go  *)
(* to the calls they are for, no call is forgotten or answered twice, and  *)
(* nothing but early calls stays in the map of pending channels; and which *)
(* calls are never called back.                                            *)
(*                                                                         *)
(* The argument is about ids: an id belongs to one call, the map has a     *)
(* call under its own id only, and a call's callback moves from the map to *)
(* the sender and on to the channel, never being in two of the places.     *)
(***************************************************************************)
EXTENDS Dispatch, TLAPS

\* Before it registers, a call has left no trace; before it executes, none in
\* the page.
Early(c) ==
  /\ where[c] \in {"new", "body", "register"} => id[c] = 0
  /\ where[c] \in {"new", "body", "register", "execute"} =>
       js[c] = "none" /\ outcome[c] = "none" /\ sending[c] = "none" /\ box[c] = "none"
  /\ where[c] = "execute" => id[c] \in DOMAIN pend
  /\ where[c] \in Waits => id[c] # 0 /\ outcome[c] = "none"
  /\ js[c] # "none" => id[c] # 0

\* An id is one call's.
OwnId == \A c, d \in Calls : id[c] # 0 /\ id[c] = id[d] => c = d

\* The map has a call under its own id, and until it is answered only.
Entries ==
  \A i \in DOMAIN pend :
    /\ id[pend[i]] = i
    /\ where[pend[i]] \in Waits \/ outcome[pend[i]] = "no context"

\* Where the answer of a call is.
OnePlace(c) ==
  /\ where[c] = "waiting" => id[c] \in DOMAIN pend \/ sending[c] # "none" \/ box[c] # "none"
  /\ id[c] \in DOMAIN pend => sending[c] = "none" /\ box[c] = "none"
  /\ sending[c] = "none" \/ box[c] = "none"

\* What is sent and told is what the page posted.
Says(c, result) ==
  /\ result = "ok" => c \in ran
  /\ result = "error" => js[c] = "came" /\ c \notin ran

True(c) ==
  /\ Says(c, sending[c]) /\ Says(c, box[c]) /\ Says(c, outcome[c])
  /\ c \in ran => js[c] \in {"posted", "lost", "came"}

CallInv(c) == Early(c) /\ OnePlace(c) /\ True(c)
AllCalls   == OwnId /\ Entries /\ \A c \in Calls : CallInv(c)

DispatchInv == DispatchTypeOK /\ AllCalls

\* A step leaves a call as it is.
Same(c) ==
  /\ where'[c] = where[c] /\ id'[c] = id[c] /\ outcome'[c] = outcome[c]
  /\ box'[c] = box[c] /\ sending'[c] = sending[c] /\ js'[c] = js[c]
  /\ c \in ran' <=> c \in ran

-----------------------------------------------------------------------------

\* Plain state requests are among the routes.
LEMMA StateIsARoute == Plain("state") \in Routes
BY DEF Routes, ReadRoutes

LEMMA DispatchTypeInit == DispatchInit => DispatchTypeOK
<1> SUFFICES ASSUME DispatchInit PROVE DispatchTypeOK
  OBVIOUS
<1>1. route \in [Calls -> Routes]
  BY StateIsARoute DEF DispatchInit
<1>2. moves \in 0..MaxMoves
  BY DispatchAssumption DEF DispatchInit
<1>3. DOMAIN pend = {}
  BY DEF DispatchInit
<1> QED
  BY <1>1, <1>2, <1>3 DEF DispatchInit, DispatchTypeOK, Results

\* A step of Dispatch is one of its actions.
LEMMA DispatchSteps ==
  ASSUME DispatchNext
  PROVE  \/ \E c \in Calls : Arrive(c) \/ Read(c) \/ Register(c) \/ Execute(c)
         \/ \E c \in Calls : Receive(c) \/ GiveUp(c) \/ Leave(c)
         \/ \E c \in Calls : Callback(c) \/ Send(c)
         \/ \E c \in Calls : Evaluate(c) \/ Settle(c) \/ Lose(c)
         \/ SetContext \/ DomReady \/ Move
BY DEF DispatchNext, DispatchStep, Handle

\* Steps keep the types.
LEMMA DispatchTypeStep ==
  ASSUME DispatchTypeOK, DispatchNext
  PROVE  DispatchTypeOK'
<1>1. ASSUME NEW c \in Calls, Arrive(c) PROVE DispatchTypeOK'
  <2>1. route' \in [Calls -> Routes]
    BY <1>1 DEF Arrive, DispatchTypeOK
  <2>2. where' \in [Calls -> {"new", "body", "register", "replied"} \cup Waits]
    BY <1>1 DEF Arrive, GoesTo, Replies, DispatchTypeOK
  <2>3. outcome' \in [Calls -> {"none", "unauthorized", "invalid", "no context",
                                "timeout", "error", "ok"}]
    BY <1>1 DEF Arrive, Replies, DispatchTypeOK
  <2>4. UNCHANGED <<context, counter, pend, box, sending, id, page, moves, js, ran>>
    BY <1>1 DEF Arrive, channels, pageVars
  <2>5. QED
    BY <2>1, <2>2, <2>3, <2>4 DEF DispatchTypeOK
<1>2. ASSUME NEW c \in Calls, Read(c) PROVE DispatchTypeOK'
  BY <1>2 DEF Read, DispatchTypeOK, Results, Waits, GoesTo, Replies, Without, handlers, channels, pageVars
<1>3. ASSUME NEW c \in Calls, Register(c) PROVE DispatchTypeOK'
  <2> counter \in Nat
    BY DEF DispatchTypeOK
  <2>a. counter' = counter + 1
    BY <1>3 DEF Register
  <2>1. counter' = counter + 1 /\ counter' \in Nat
    BY <2>a
  <2>2. id' \in [Calls -> 0..counter']
    <3>1. \A n \in 0..counter : n \in 0..counter'
      BY <2>1
    <3>2. id \in [Calls -> 0..counter']
      BY <3>1 DEF DispatchTypeOK
    <3>3. QED
      BY <1>3, <2>1, <3>2 DEF Register
  <2>3. DOMAIN pend' = DOMAIN pend \cup {counter'}
    BY <1>3 DEF Register
  <2>4. \A i \in DOMAIN pend' : pend'[i] \in Calls
    BY <1>3 DEF Register, DispatchTypeOK
  <2>5. DOMAIN pend' \subseteq 1..counter'
    <3>1. DOMAIN pend \subseteq 1..counter
      BY DEF DispatchTypeOK
    <3>2. QED
      BY <2>1, <2>3, <3>1
  <2>6. where' \in [Calls -> {"new", "body", "register", "replied"} \cup Waits]
    BY <1>3 DEF Register, GoesTo, DispatchTypeOK, Waits
  <2>7. UNCHANGED <<context, box, sending, route, outcome, page, moves, js, ran>>
    BY <1>3 DEF Register, pageVars
  <2>8. QED
    BY <2>1, <2>2, <2>4, <2>5, <2>6, <2>7 DEF DispatchTypeOK
<1>4. ASSUME NEW c \in Calls, Execute(c) PROVE DispatchTypeOK'
  BY <1>4 DEF Execute, DispatchTypeOK, Results, Waits, GoesTo, Replies, Without, handlers, channels, pageVars
<1>5. ASSUME NEW c \in Calls, Receive(c) PROVE DispatchTypeOK'
  <2>1. box[c] \in {"ok", "error"}
    BY <1>5 DEF Receive, DispatchTypeOK, Results
  <2>2. outcome' \in [Calls -> {"none", "unauthorized", "invalid", "no context",
                                "timeout", "error", "ok"}]
    BY <1>5, <2>1 DEF Receive, Replies, DispatchTypeOK
  <2>3. where' \in [Calls -> {"new", "body", "register", "replied"} \cup Waits]
    BY <1>5 DEF Receive, GoesTo, Replies, DispatchTypeOK
  <2>4. box' \in [Calls -> Results]
    BY <1>5 DEF Receive, DispatchTypeOK, Results
  <2>5. UNCHANGED <<context, counter, pend, sending, route, id, page, moves, js, ran>>
    BY <1>5 DEF Receive, pageVars
  <2>6. QED
    BY <2>2, <2>3, <2>4, <2>5 DEF DispatchTypeOK
<1>6. ASSUME NEW c \in Calls, GiveUp(c) PROVE DispatchTypeOK'
  BY <1>6 DEF GiveUp, DispatchTypeOK, Results, Waits, GoesTo, Replies, Without, handlers, channels, pageVars
<1>7. ASSUME NEW c \in Calls, Leave(c) PROVE DispatchTypeOK'
  BY <1>7 DEF Leave, DispatchTypeOK, Results, Waits, GoesTo, Replies, Without, handlers, channels, pageVars
<1>8. ASSUME NEW c \in Calls, Callback(c) PROVE DispatchTypeOK'
  <2>1. js' \in [Calls -> {"none", "script", "running", "thrown", "posted", "lost", "came"}]
    BY <1>8 DEF Callback, DispatchTypeOK
  <2>2. /\ DOMAIN pend' \subseteq 1..counter
        /\ \A i \in DOMAIN pend' : pend'[i] \in Calls
    <3>1. DOMAIN pend \subseteq 1..counter /\ \A i \in DOMAIN pend : pend[i] \in Calls
      BY DEF DispatchTypeOK
    <3>2. CASE id[c] \in DOMAIN pend
      <4>1. pend' = Without(id[c])
        BY <1>8, <3>2 DEF Callback
      <4>2. QED
        BY <3>1, <4>1 DEF Without
    <3>3. CASE id[c] \notin DOMAIN pend
      <4>1. pend' = pend
        BY <1>8, <3>3 DEF Callback
      <4>2. QED
        BY <3>1, <4>1
    <3>4. QED
      BY <3>2, <3>3
  <2>3. sending' \in [Calls -> Results]
    BY <1>8 DEF Callback, DispatchTypeOK, Results
  <2>4. UNCHANGED <<context, counter, box, where, route, id, outcome, page, moves, ran>>
    BY <1>8 DEF Callback, handlers
  <2>5. QED
    BY <2>1, <2>2, <2>3, <2>4 DEF DispatchTypeOK
<1>9. ASSUME NEW c \in Calls, Send(c) PROVE DispatchTypeOK'
  BY <1>9 DEF Send, DispatchTypeOK, Results, Waits, GoesTo, Replies, Without, handlers, channels, pageVars
<1>10. ASSUME NEW c \in Calls, Evaluate(c) PROVE DispatchTypeOK'
  BY <1>10 DEF Evaluate, DispatchTypeOK, Results, Waits, GoesTo, Replies, Without, handlers, channels, pageVars
<1>11. ASSUME NEW c \in Calls, Settle(c) PROVE DispatchTypeOK'
  BY <1>11 DEF Settle, DispatchTypeOK, Results, Waits, GoesTo, Replies, Without, handlers, channels, pageVars
<1>12. ASSUME NEW c \in Calls, Lose(c) PROVE DispatchTypeOK'
  BY <1>12 DEF Lose, DispatchTypeOK, Results, Waits, GoesTo, Replies, Without, handlers, channels, pageVars
<1>13. CASE SetContext
  BY <1>13 DEF SetContext, DispatchTypeOK, Results, Waits, GoesTo, Replies, Without, handlers, channels, pageVars
<1>14. CASE DomReady
  BY <1>14 DEF DomReady, DispatchTypeOK, Results, Waits, GoesTo, Replies, Without, handlers, channels, pageVars
<1>15. CASE Move
  <2>1. js' \in [Calls -> {"none", "script", "running", "thrown", "posted", "lost", "came"}]
    BY <1>15 DEF Move, DispatchTypeOK
  <2>2. moves' \in 0..MaxMoves
    <3>1. moves' = moves + 1 /\ moves < MaxMoves
      BY <1>15 DEF Move
    <3>2. moves \in 0..MaxMoves /\ MaxMoves \in Nat
      BY DispatchAssumption DEF DispatchTypeOK
    <3>3. QED
      BY <3>1, <3>2
  <2>3. page' \in {"loading", "ready", "away"}
    BY <1>15 DEF Move
  <2>4. UNCHANGED <<context, counter, pend, box, sending, where, route, id, outcome, ran>>
    BY <1>15 DEF Move, channels, handlers
  <2>5. QED
    BY <2>1, <2>2, <2>3, <2>4 DEF DispatchTypeOK
<1>16. QED
  BY <1>1, <1>2, <1>3, <1>4, <1>5, <1>6, <1>7, <1>8, <1>9, <1>10, <1>11, <1>12, <1>13, <1>14, <1>15, DispatchSteps

\* A call that a step leaves as it is, in the map or out of it, keeps its part
\* of the invariant.
LEMMA SameCall ==
  ASSUME NEW d \in Calls, CallInv(d), Same(d), id[d] \in DOMAIN pend' <=> id[d] \in DOMAIN pend
  PROVE  CallInv(d)'
<1>1. Early(d)'
  BY DEF CallInv, Early, Same
<1>2. OnePlace(d)'
  BY DEF CallInv, OnePlace, Same
<1>3. True(d)'
  BY DEF CallInv, True, Says, Same
<1>4. QED
  BY <1>1, <1>2, <1>3 DEF CallInv

\* Steps of one call that register and remove nothing.
LEMMA OneCall ==
  ASSUME AllCalls, NEW c \in Calls, UNCHANGED <<pend, id>>,
         \A d \in Calls : d # c => Same(d),
         CallInv(c)',
         id[c] \in DOMAIN pend /\ where[c] \in Waits =>
           where'[c] \in Waits \/ outcome'[c] = "no context",
         outcome[c] = "no context" => outcome'[c] = "no context",
         \A i \in DOMAIN pend : pend[i] \in Calls
  PROVE  AllCalls'
<1>1. OwnId'
  BY DEF AllCalls, OwnId
<1>2. Entries'
  <2> SUFFICES ASSUME NEW i \in DOMAIN pend
               PROVE  where'[pend[i]] \in Waits \/ outcome'[pend[i]] = "no context"
    BY DEF AllCalls, Entries
  <2>1. id[pend[i]] = i /\ (where[pend[i]] \in Waits \/ outcome[pend[i]] = "no context")
    BY DEF AllCalls, Entries
  <2>2. CASE pend[i] = c
    BY <2>1, <2>2
  <2>3. CASE pend[i] # c
    BY <2>1, <2>3 DEF Same
  <2>4. QED
    BY <2>2, <2>3
<1>3. \A d \in Calls : CallInv(d)'
  <2> SUFFICES ASSUME NEW d \in Calls, d # c PROVE CallInv(d)'
    OBVIOUS
  <2> QED
    BY SameCall DEF AllCalls
<1>4. QED
  BY <1>1, <1>2, <1>3 DEF AllCalls

\* An arriving request has no id yet.
LEMMA ArriveKeeps ==
  ASSUME DispatchInv, NEW c \in Calls, Arrive(c)
  PROVE  AllCalls'
<1>1. UNCHANGED <<pend, id, box, sending, js, ran>>
  BY DEF Arrive, handlers, channels, pageVars
<1>2. \A d \in Calls : d # c => Same(d)
  BY <1>1 DEF Arrive, GoesTo, Replies, Same, DispatchInv, DispatchTypeOK
<1>3. /\ where[c] = "new"
      /\ \/ where'[c] = "body" /\ outcome'[c] = outcome[c]
         \/ where'[c] = "replied" /\ outcome'[c] = "unauthorized"
  BY DEF Arrive, GoesTo, Replies, DispatchInv, DispatchTypeOK
<1>4. CallInv(c) /\ (\A i \in DOMAIN pend : pend[i] \in Calls)
  BY DEF DispatchInv, AllCalls, DispatchTypeOK
<1>5. Early(c)'
  BY <1>1, <1>3, <1>4 DEF CallInv, Early, Waits
<1>6. OnePlace(c)'
  BY <1>1, <1>3, <1>4 DEF CallInv, OnePlace, Early, Waits
<1>7. True(c)'
  BY <1>1, <1>3, <1>4 DEF CallInv, True, Says, Early, Waits
<1>8. QED
  BY <1>1, <1>2, <1>3, <1>4, <1>5, <1>6, <1>7, OneCall DEF CallInv, DispatchInv, Early, OnePlace, Waits

\* Nor has one whose body is read.
LEMMA ReadKeeps ==
  ASSUME DispatchInv, NEW c \in Calls, Read(c)
  PROVE  AllCalls'
<1>1. UNCHANGED <<pend, id, box, sending, js, ran>>
  BY DEF Read, handlers, channels, pageVars
<1>2. \A d \in Calls : d # c => Same(d)
  BY <1>1 DEF Read, GoesTo, Replies, Same, DispatchInv, DispatchTypeOK
<1>3. /\ where[c] = "body"
      /\ \/ where'[c] = "register" /\ outcome'[c] = outcome[c]
         \/ where'[c] = "replied" /\ outcome'[c] = "invalid"
  BY DEF Read, GoesTo, Replies, DispatchInv, DispatchTypeOK
<1>4. CallInv(c) /\ (\A i \in DOMAIN pend : pend[i] \in Calls)
  BY DEF DispatchInv, AllCalls, DispatchTypeOK
<1>5. Early(c)'
  BY <1>1, <1>3, <1>4 DEF CallInv, Early, Waits
<1>6. OnePlace(c)'
  BY <1>1, <1>3, <1>4 DEF CallInv, OnePlace, Early, Waits
<1>7. True(c)'
  BY <1>1, <1>3, <1>4 DEF CallInv, True, Says, Early, Waits
<1>8. QED
  BY <1>1, <1>2, <1>3, <1>4, <1>5, <1>6, <1>7, OneCall DEF CallInv, DispatchInv, Early, OnePlace, Waits

\* A call that is refused is known by its outcome; another waits under its id.
LEMMA ExecuteKeeps ==
  ASSUME DispatchInv, NEW c \in Calls, Execute(c)
  PROVE  AllCalls'
<1>1. UNCHANGED <<pend, id, box, sending, ran>>
  BY DEF Execute, handlers, channels, pageVars
<1>2. \A d \in Calls : d # c => Same(d)
  BY <1>1 DEF Execute, GoesTo, Replies, Same, DispatchInv, DispatchTypeOK
<1>3. /\ where[c] = "execute"
      /\ \/ where'[c] = "replied" /\ outcome'[c] = "no context" /\ js'[c] = js[c]
         \/ where'[c] = where[c] /\ outcome'[c] = outcome[c] /\ js'[c] = js[c]
         \/ where'[c] = "waiting" /\ outcome'[c] = outcome[c] /\ js'[c] = "script"
  BY DEF Execute, GoesTo, Replies, DispatchInv, DispatchTypeOK
<1>4. CallInv(c) /\ (\A i \in DOMAIN pend : pend[i] \in Calls)
  BY DEF DispatchInv, AllCalls, DispatchTypeOK
<1>5. Early(c)'
  BY <1>1, <1>3, <1>4 DEF CallInv, Early, Waits
<1>6. OnePlace(c)'
  BY <1>1, <1>3, <1>4 DEF CallInv, OnePlace, Early, Waits
<1>7. True(c)'
  BY <1>1, <1>3, <1>4 DEF CallInv, True, Says, Early, Waits
<1>8. QED
  BY <1>1, <1>2, <1>3, <1>4, <1>5, <1>6, <1>7, OneCall DEF CallInv, DispatchInv, Early, OnePlace, Waits

\* A call whose channel holds something is out of the map.
LEMMA ReceiveKeeps ==
  ASSUME DispatchInv, NEW c \in Calls, Receive(c)
  PROVE  AllCalls'
<1>1. UNCHANGED <<pend, id, sending, js, ran>>
  BY DEF Receive, handlers, channels, pageVars
<1>2. \A d \in Calls : d # c => Same(d)
  BY <1>1 DEF Receive, GoesTo, Replies, Same, DispatchInv, DispatchTypeOK
<1>3. /\ where[c] = "waiting" /\ box[c] # "none"
      /\ where'[c] = "replied" /\ outcome'[c] = box[c] /\ box'[c] = "none"
  BY DEF Receive, GoesTo, Replies, DispatchInv, DispatchTypeOK
<1>4. CallInv(c) /\ (\A i \in DOMAIN pend : pend[i] \in Calls)
  BY DEF DispatchInv, AllCalls, DispatchTypeOK
<1>5. Early(c)'
  BY <1>1, <1>3, <1>4 DEF CallInv, Early, Waits
<1>6. OnePlace(c)'
  BY <1>1, <1>3, <1>4 DEF CallInv, OnePlace, Early, Waits
<1>7. True(c)'
  BY <1>1, <1>3, <1>4 DEF CallInv, True, Says, Early, Waits
<1>8. QED
  BY <1>1, <1>2, <1>3, <1>4, <1>5, <1>6, <1>7, OneCall DEF CallInv, DispatchInv, Early, OnePlace, Waits

\* A call that gives up is still served.
LEMMA GiveUpKeeps ==
  ASSUME DispatchInv, NEW c \in Calls, GiveUp(c)
  PROVE  AllCalls'
<1>1. UNCHANGED <<pend, id, outcome, box, sending, js, ran>>
  BY DEF GiveUp, handlers, channels, pageVars
<1>2. \A d \in Calls : d # c => Same(d)
  BY <1>1 DEF GiveUp, GoesTo, Replies, Same, DispatchInv, DispatchTypeOK
<1>3. where[c] = "waiting" /\ where'[c] = "leaving"
  BY DEF GiveUp, GoesTo, Replies, DispatchInv, DispatchTypeOK
<1>4. CallInv(c) /\ (\A i \in DOMAIN pend : pend[i] \in Calls)
  BY DEF DispatchInv, AllCalls, DispatchTypeOK
<1>5. Early(c)'
  BY <1>1, <1>3, <1>4 DEF CallInv, Early, Waits
<1>6. OnePlace(c)'
  BY <1>1, <1>3, <1>4 DEF CallInv, OnePlace, Early, Waits
<1>7. True(c)'
  BY <1>1, <1>3, <1>4 DEF CallInv, True, Says, Early, Waits
<1>8. QED
  BY <1>1, <1>2, <1>3, <1>4, <1>5, <1>6, <1>7, OneCall DEF CallInv, DispatchInv, Early, OnePlace, Waits

\* What was about to be sent is in the channel.
LEMMA SendKeeps ==
  ASSUME DispatchInv, NEW c \in Calls, Send(c)
  PROVE  AllCalls'
<1>1. UNCHANGED <<pend, id, where, outcome, js, ran>>
  BY DEF Send, handlers, channels, pageVars
<1>2. \A d \in Calls : d # c => Same(d)
  BY <1>1 DEF Send, Same, DispatchInv, DispatchTypeOK
<1>3. /\ sending[c] # "none" /\ box[c] = "none"
      /\ box'[c] = sending[c] /\ sending'[c] = "none"
  BY DEF Send, DispatchInv, DispatchTypeOK
<1>4. CallInv(c) /\ (\A i \in DOMAIN pend : pend[i] \in Calls)
  BY DEF DispatchInv, AllCalls, DispatchTypeOK
<1>5. Early(c)'
  BY <1>1, <1>3, <1>4 DEF CallInv, Early, Waits
<1>6. OnePlace(c)'
  BY <1>1, <1>3, <1>4 DEF CallInv, OnePlace, Early, Waits
<1>7. True(c)'
  BY <1>1, <1>3, <1>4 DEF CallInv, True, Says, Early, Waits
<1>8. QED
  BY <1>1, <1>2, <1>3, <1>4, <1>5, <1>6, <1>7, OneCall DEF CallInv, DispatchInv, Early, OnePlace, Waits

\* The page has only scripts of calls that are registered.
LEMMA EvaluateKeeps ==
  ASSUME DispatchInv, NEW c \in Calls, Evaluate(c)
  PROVE  AllCalls'
<1>1. UNCHANGED <<pend, id, where, outcome, box, sending, ran>>
  BY DEF Evaluate, handlers, channels, pageVars
<1>2. \A d \in Calls : d # c => Same(d)
  BY <1>1 DEF Evaluate, Same, DispatchInv, DispatchTypeOK
<1>3. js[c] = "script" /\ js'[c] \in {"lost", "thrown", "running"}
  BY DEF Evaluate, DispatchInv, DispatchTypeOK
<1>4. CallInv(c) /\ (\A i \in DOMAIN pend : pend[i] \in Calls)
  BY DEF DispatchInv, AllCalls, DispatchTypeOK
<1>5. Early(c)'
  BY <1>1, <1>3, <1>4 DEF CallInv, Early, Waits
<1>6. OnePlace(c)'
  BY <1>1, <1>3, <1>4 DEF CallInv, OnePlace, Early, Waits
<1>7. True(c)'
  BY <1>1, <1>3, <1>4 DEF CallInv, True, Says, Early, Waits
<1>8. QED
  BY <1>1, <1>2, <1>3, <1>4, <1>5, <1>6, <1>7, OneCall DEF CallInv, DispatchInv, Early, OnePlace, Waits

\* A method's end is posted.
LEMMA SettleKeeps ==
  ASSUME DispatchInv, NEW c \in Calls, Settle(c)
  PROVE  AllCalls'
<1>1. UNCHANGED <<pend, id, where, outcome, box, sending>>
  BY DEF Settle, handlers, channels, pageVars
<1>2. \A d \in Calls : d # c => Same(d)
  BY <1>1 DEF Settle, Same, DispatchInv, DispatchTypeOK
<1>3. js[c] = "running" /\ js'[c] = "posted" /\ (c \in ran => c \in ran')
  BY DEF Settle, DispatchInv, DispatchTypeOK
<1>4. CallInv(c) /\ (\A i \in DOMAIN pend : pend[i] \in Calls)
  BY DEF DispatchInv, AllCalls, DispatchTypeOK
<1>5. Early(c)'
  BY <1>1, <1>3, <1>4 DEF CallInv, Early, Waits
<1>6. OnePlace(c)'
  BY <1>1, <1>3, <1>4 DEF CallInv, OnePlace, Early, Waits
<1>7. True(c)'
  BY <1>1, <1>3, <1>4 DEF CallInv, True, Says, Early, Waits
<1>8. QED
  BY <1>1, <1>2, <1>3, <1>4, <1>5, <1>6, <1>7, OneCall DEF CallInv, DispatchInv, Early, OnePlace, Waits

\* What is lost is never sent.
LEMMA LoseKeeps ==
  ASSUME DispatchInv, NEW c \in Calls, Lose(c)
  PROVE  AllCalls'
<1>1. UNCHANGED <<pend, id, where, outcome, box, sending, ran>>
  BY DEF Lose, handlers, channels, pageVars
<1>2. \A d \in Calls : d # c => Same(d)
  BY <1>1 DEF Lose, Same, DispatchInv, DispatchTypeOK
<1>3. js[c] = "posted" /\ js'[c] = "lost"
  BY DEF Lose, DispatchInv, DispatchTypeOK
<1>4. CallInv(c) /\ (\A i \in DOMAIN pend : pend[i] \in Calls)
  BY DEF DispatchInv, AllCalls, DispatchTypeOK
<1>5. Early(c)'
  BY <1>1, <1>3, <1>4 DEF CallInv, Early, Waits
<1>6. OnePlace(c)'
  BY <1>1, <1>3, <1>4 DEF CallInv, OnePlace, Early, Waits
<1>7. True(c)'
  BY <1>1, <1>3, <1>4 DEF CallInv, True, Says, Early, Waits
<1>8. QED
  BY <1>1, <1>2, <1>3, <1>4, <1>5, <1>6, <1>7, OneCall DEF CallInv, DispatchInv, Early, OnePlace, Waits

\* Whose entry is under an id: the call that has the id.
LEMMA EntryIsOwn ==
  ASSUME DispatchInv, NEW c \in Calls, id[c] \in DOMAIN pend
  PROVE  pend[id[c]] = c
<1>1. pend[id[c]] \in Calls
  BY DEF DispatchInv, DispatchTypeOK
<1>2. id[pend[id[c]]] = id[c]
  BY DEF DispatchInv, AllCalls, Entries
<1>3. id[c] # 0
  <2>1. DOMAIN pend \subseteq 1..counter
    BY DEF DispatchInv, DispatchTypeOK
  <2>2. counter \in Nat
    BY DEF DispatchInv, DispatchTypeOK
  <2>3. QED
    BY <2>1, <2>2
<1>4. QED
  BY <1>1, <1>2, <1>3 DEF DispatchInv, AllCalls, OwnId

\* A fresh id is nobody's, and nothing is under it.
LEMMA RegisterKeeps ==
  ASSUME DispatchInv, NEW c \in Calls, Register(c)
  PROVE  AllCalls'
<1> DEFINE new == counter'
<1>1. counter \in Nat /\ new = counter + 1
  BY DEF Register, DispatchInv, DispatchTypeOK
<1>2. /\ DOMAIN pend \subseteq 1..counter
      /\ \A i \in DOMAIN pend : pend[i] \in Calls
      /\ id \in [Calls -> 0..counter]
  BY DEF DispatchInv, DispatchTypeOK
<1>3. new # 0 /\ new \notin DOMAIN pend /\ \A d \in Calls : id[d] # new
  BY <1>1, <1>2
<1>4. id' = [id EXCEPT ![c] = new]
      /\ pend' = [j \in DOMAIN pend \cup {new} |-> IF j = new THEN c ELSE pend[j]]
  BY DEF Register
<1>5. UNCHANGED <<outcome, box, sending, js, ran>>
  BY DEF Register, pageVars
<1>6. where[c] = "register" /\ where'[c] = "execute"
  BY DEF Register, GoesTo, DispatchInv, DispatchTypeOK
<1>7. \A d \in Calls : d # c => Same(d) /\ id'[d] = id[d]
  <2>1. \A d \in Calls : d # c => where'[d] = where[d]
    BY DEF Register, GoesTo, DispatchInv, DispatchTypeOK
  <2>2. \A d \in Calls : d # c => id'[d] = id[d]
    BY <1>2, <1>4
  <2>3. QED
    BY <1>5, <2>1, <2>2 DEF Same
<1>8. id'[c] = new
  BY <1>2, <1>4
<1> HIDE DEF new
<1>9. CallInv(c) /\ id[c] = 0
  BY <1>6 DEF DispatchInv, AllCalls, CallInv, Early
<1>10. OwnId'
  BY <1>3, <1>7, <1>8 DEF OwnId, DispatchInv, AllCalls
<1>11. Entries'
  <2> SUFFICES ASSUME NEW i \in DOMAIN pend'
               PROVE  /\ id'[pend'[i]] = i
                      /\ where'[pend'[i]] \in Waits \/ outcome'[pend'[i]] = "no context"
    BY DEF Entries
  <2>1. CASE i = new
    BY <1>4, <1>6, <1>8, <2>1 DEF Waits
  <2>2. CASE i # new
    <3>1. i \in DOMAIN pend /\ pend'[i] = pend[i] /\ pend[i] \in Calls
      BY <1>2, <1>4, <2>2
    <3>2. id[pend[i]] = i /\ (where[pend[i]] \in Waits \/ outcome[pend[i]] = "no context")
      BY <3>1 DEF DispatchInv, AllCalls, Entries
    <3>3. pend[i] # c
      <4>1. i # 0
        BY <1>1, <1>2, <3>1
      <4>2. QED
        BY <1>9, <3>2, <4>1
    <3>4. QED
      BY <1>7, <3>1, <3>2, <3>3 DEF Same
  <2>3. QED
    BY <2>1, <2>2
<1>12. \A d \in Calls : CallInv(d)'
  <2> SUFFICES ASSUME NEW d \in Calls PROVE CallInv(d)'
    OBVIOUS
  <2>1. CASE d # c
    <3>1. id[d] \in DOMAIN pend' <=> id[d] \in DOMAIN pend
      BY <1>3, <1>4
    <3>2. CallInv(d)
      BY DEF DispatchInv, AllCalls
    <3>3. QED
      BY <1>7, <2>1, <3>1, <3>2, SameCall
  <2>2. CASE d = c
    <3>1. id'[c] \in DOMAIN pend' /\ id'[c] # 0
      BY <1>3, <1>4, <1>8
    <3>2. Early(c)'
      BY <1>5, <1>6, <1>9, <3>1 DEF CallInv, Early, Waits
    <3>3. OnePlace(c)'
      BY <1>5, <1>6, <1>9 DEF CallInv, Early, OnePlace
    <3>4. True(c)'
      BY <1>5, <1>9 DEF CallInv, True, Says
    <3>5. QED
      BY <2>2, <3>2, <3>3, <3>4 DEF CallInv
  <2>3. QED
    BY <2>1, <2>2
<1>13. QED
  BY <1>10, <1>11, <1>12 DEF AllCalls

\* What is left in the map when a call's entry goes.
LEMMA OthersStay ==
  ASSUME DispatchInv, NEW c \in Calls, pend' = Without(id[c]), id' = id
  PROVE  /\ DOMAIN pend' = DOMAIN pend \ {id[c]}
         /\ \A i \in DOMAIN pend' : pend'[i] = pend[i] /\ pend[i] \in Calls /\ pend[i] # c
         /\ \A d \in Calls : d # c => (id[d] \in DOMAIN pend' <=> id[d] \in DOMAIN pend)
<1>1. DOMAIN pend' = DOMAIN pend \ {id[c]} /\ \A i \in DOMAIN pend' : pend'[i] = pend[i]
  BY DEF Without
<1>2. \A i \in DOMAIN pend' : pend[i] \in Calls /\ pend[i] # c
  BY <1>1 DEF DispatchInv, DispatchTypeOK, AllCalls, Entries
<1>3. \A d \in Calls : d # c => (id[d] \in DOMAIN pend' <=> id[d] \in DOMAIN pend)
  <2> SUFFICES ASSUME NEW d \in Calls, d # c, id[d] \in DOMAIN pend, id[d] = id[c]
               PROVE  FALSE
    BY <1>1
  <2>1. pend[id[d]] = d /\ pend[id[c]] = c
    BY EntryIsOwn
  <2>2. QED
    BY <2>1
<1>4. QED
  BY <1>1, <1>2, <1>3

\* A call that leaves takes its own entry with it.
LEMMA LeaveKeeps ==
  ASSUME DispatchInv, NEW c \in Calls, Leave(c)
  PROVE  AllCalls'
<1>1. pend' = Without(id[c]) /\ UNCHANGED <<id, box, sending, js, ran>>
  BY DEF Leave, pageVars
<1>2. where[c] = "leaving" /\ where'[c] = "replied" /\ outcome'[c] = "timeout"
  BY DEF Leave, GoesTo, Replies, DispatchInv, DispatchTypeOK
<1>3. \A d \in Calls : d # c => Same(d)
  BY <1>1 DEF Leave, GoesTo, Replies, Same, DispatchInv, DispatchTypeOK
<1>4. OwnId'
  BY <1>1 DEF DispatchInv, AllCalls, OwnId
<1>5. Entries'
  <2> SUFFICES ASSUME NEW i \in DOMAIN pend'
               PROVE  /\ id'[pend'[i]] = i
                      /\ where'[pend'[i]] \in Waits \/ outcome'[pend'[i]] = "no context"
    BY DEF Entries
  <2>1. i \in DOMAIN pend /\ pend'[i] = pend[i] /\ pend[i] \in Calls /\ pend[i] # c
    BY <1>1, OthersStay
  <2>2. id[pend[i]] = i /\ (where[pend[i]] \in Waits \/ outcome[pend[i]] = "no context")
    BY <2>1 DEF DispatchInv, AllCalls, Entries
  <2>3. QED
    BY <1>3, <2>1, <2>2 DEF Same
<1>6. \A d \in Calls : d # c => CallInv(d)'
  BY <1>1, <1>3, OthersStay, SameCall DEF DispatchInv, AllCalls
<1>7. CallInv(c)
  BY DEF DispatchInv, AllCalls
<1>8. Early(c)' /\ OnePlace(c)' /\ True(c)'
  <2>1. Early(c)'
    BY <1>1, <1>2, <1>7 DEF CallInv, Early, Waits
  <2>2. OnePlace(c)'
    BY <1>1, <1>2, <1>7, OthersStay DEF CallInv, OnePlace
  <2>3. True(c)'
    BY <1>1, <1>2, <1>7 DEF CallInv, True, Says
  <2>4. QED
    BY <2>1, <2>2, <2>3
<1>9. QED
  BY <1>4, <1>5, <1>6, <1>8 DEF AllCalls, CallInv

\* A callback takes the channel of the call it is for, which had no answer yet.
LEMMA TheCallbackKeeps ==
  ASSUME DispatchInv, NEW c \in Calls, Callback(c)
  PROVE  AllCalls'
<1>1. UNCHANGED <<where, id, outcome, box, ran>>
  BY DEF Callback, handlers
<1>2. js[c] = "posted" /\ js'[c] = "came" /\ \A d \in Calls : d # c => js'[d] = js[d]
  BY DEF Callback, DispatchInv, DispatchTypeOK
<1>3. CallInv(c) /\ (\A i \in DOMAIN pend : pend[i] \in Calls)
  BY DEF DispatchInv, AllCalls, DispatchTypeOK
<1>4. CASE id[c] \notin DOMAIN pend
  <2>1. UNCHANGED <<pend, sending>>
    BY <1>4 DEF Callback
  <2>2. \A d \in Calls : d # c => Same(d)
    BY <1>1, <1>2, <2>1 DEF Same
  <2>3. Early(c)'
    BY <1>1, <1>2, <1>3, <2>1 DEF CallInv, Early, Waits
  <2>4. OnePlace(c)'
    BY <1>1, <1>3, <2>1 DEF CallInv, OnePlace
  <2>5. True(c)'
    BY <1>1, <1>2, <1>3, <2>1 DEF CallInv, True, Says
  <2>6. QED
    BY <1>1, <1>3, <1>4, <2>1, <2>2, <2>3, <2>4, <2>5, OneCall DEF CallInv, DispatchInv
<1>5. CASE id[c] \in DOMAIN pend
  <2>1. pend' = Without(id[c]) /\ pend[id[c]] = c
    BY <1>5, EntryIsOwn DEF Callback
  <2>2. sending' = [sending EXCEPT ![c] = IF c \in ran THEN "ok" ELSE "error"]
    BY <1>5, <2>1 DEF Callback
  <2>3. /\ sending'[c] = IF c \in ran THEN "ok" ELSE "error"
        /\ \A d \in Calls : d # c => sending'[d] = sending[d]
    BY <2>2 DEF DispatchInv, DispatchTypeOK
  <2>4. \A d \in Calls : d # c => Same(d)
    BY <1>1, <1>2, <2>3 DEF Same
  <2>5. OwnId'
    BY <1>1 DEF DispatchInv, AllCalls, OwnId
  <2>6. Entries'
    <3> SUFFICES ASSUME NEW i \in DOMAIN pend'
                 PROVE  /\ id'[pend'[i]] = i
                        /\ where'[pend'[i]] \in Waits \/ outcome'[pend'[i]] = "no context"
      BY DEF Entries
    <3>1. i \in DOMAIN pend /\ pend'[i] = pend[i]
      BY <1>1, <2>1, OthersStay
    <3>2. id[pend[i]] = i /\ (where[pend[i]] \in Waits \/ outcome[pend[i]] = "no context")
      BY <3>1 DEF DispatchInv, AllCalls, Entries
    <3>3. QED
      BY <1>1, <3>1, <3>2
  <2>7. \A d \in Calls : d # c => CallInv(d)'
    BY <1>1, <2>1, <2>4, OthersStay, SameCall DEF DispatchInv, AllCalls
  <2>8. sending[c] = "none" /\ box[c] = "none"
    BY <1>3, <1>5 DEF CallInv, OnePlace
  <2>9. Early(c)'
    BY <1>1, <1>2, <1>3 DEF CallInv, Early, Waits
  <2>10. OnePlace(c)'
    <3>1. id[c] \notin DOMAIN pend' /\ id' = id /\ box' = box
      BY <1>1, <2>1, OthersStay
    <3>2. sending'[c] # "none"
      BY <2>3
    <3>3. QED
      BY <2>8, <3>1, <3>2 DEF OnePlace
  <2>11. True(c)'
    BY <1>1, <1>2, <1>3, <2>3 DEF CallInv, True, Says
  <2>12. QED
    BY <2>5, <2>6, <2>7, <2>9, <2>10, <2>11 DEF AllCalls, CallInv
<1>6. QED
  BY <1>4, <1>5

\* The page takes what it was running and posting away, and nothing else.
LEMMA MoveKeeps ==
  ASSUME DispatchInv, Move
  PROVE  AllCalls'
<1>1. UNCHANGED <<pend, where, id, outcome, box, sending, ran>>
  BY DEF Move, handlers, channels
<1>2. \A d \in Calls :
        js'[d] = js[d] \/ (js[d] \in {"running", "posted"} /\ js'[d] = "lost")
  BY DEF Move
<1>3. \A d \in Calls : CallInv(d)'
  <2> SUFFICES ASSUME NEW d \in Calls PROVE CallInv(d)'
    OBVIOUS
  <2>1. CallInv(d)
    BY DEF DispatchInv, AllCalls
  <2>2. Early(d)'
    BY <1>1, <1>2, <2>1 DEF CallInv, Early, Waits
  <2>3. OnePlace(d)'
    BY <1>1, <2>1 DEF CallInv, OnePlace
  <2>4. True(d)'
    BY <1>1, <1>2, <2>1 DEF CallInv, True, Says
  <2>5. QED
    BY <2>2, <2>3, <2>4 DEF CallInv
<1>4. QED
  BY <1>1, <1>3 DEF DispatchInv, AllCalls, OwnId, Entries

\* Contexts and loaded pages are nothing to the calls.
LEMMA UnmovedKeeps ==
  ASSUME AllCalls, UNCHANGED <<pend, where, id, outcome, box, sending, js, ran>>
  PROVE  AllCalls'
<1>1. OwnId' /\ Entries'
  BY DEF AllCalls, OwnId, Entries
<1>2. ASSUME NEW d \in Calls PROVE CallInv(d)'
  <2>1. Same(d)
    BY DEF Same
  <2>2. QED
    BY <2>1, SameCall DEF AllCalls
<1>3. QED
  BY <1>1, <1>2 DEF AllCalls

-----------------------------------------------------------------------------

LEMMA DispatchInvInit == DispatchInit => DispatchInv
<1> SUFFICES ASSUME DispatchInit PROVE AllCalls
  BY DispatchTypeInit DEF DispatchInv
<1>1. DOMAIN pend = {}
  BY DEF DispatchInit
<1>2. OwnId /\ Entries
  BY <1>1 DEF DispatchInit, OwnId, Entries
<1>3. ASSUME NEW c \in Calls PROVE CallInv(c)
  BY <1>1 DEF DispatchInit, CallInv, Early, OnePlace, True, Says, Waits
<1>4. QED
  BY <1>2, <1>3 DEF AllCalls

LEMMA DispatchInvStep == DispatchInv /\ [DispatchNext]_dispatchVars => DispatchInv'
<1> SUFFICES ASSUME DispatchInv, [DispatchNext]_dispatchVars PROVE DispatchInv'
  OBVIOUS
<1>1. CASE DispatchNext
  <2>1. DispatchTypeOK'
    BY <1>1, DispatchTypeStep DEF DispatchInv
  <2>2. ASSUME NEW c \in Calls, Arrive(c) \/ Read(c) \/ Register(c) \/ Execute(c)
        PROVE  AllCalls'
    BY <2>2, ArriveKeeps, ReadKeeps, RegisterKeeps, ExecuteKeeps
  <2>3. ASSUME NEW c \in Calls, Receive(c) \/ GiveUp(c) \/ Leave(c) PROVE AllCalls'
    BY <2>3, ReceiveKeeps, GiveUpKeeps, LeaveKeeps
  <2>4. ASSUME NEW c \in Calls, Callback(c) \/ Send(c) PROVE AllCalls'
    BY <2>4, TheCallbackKeeps, SendKeeps
  <2>5. ASSUME NEW c \in Calls, Evaluate(c) \/ Settle(c) \/ Lose(c) PROVE AllCalls'
    BY <2>5, EvaluateKeeps, SettleKeeps, LoseKeeps
  <2>6. ASSUME SetContext \/ DomReady PROVE AllCalls'
    <3>1. UNCHANGED <<pend, where, id, outcome, box, sending, js, ran>>
      BY <2>6 DEF SetContext, DomReady, channels, handlers, pageVars
    <3>2. QED
      BY <3>1, UnmovedKeeps DEF DispatchInv
  <2>7. ASSUME Move PROVE AllCalls'
    BY <2>7, MoveKeeps
  <2>8. QED
    BY <1>1, <2>1, <2>2, <2>3, <2>4, <2>5, <2>6, <2>7, DispatchSteps DEF DispatchInv
<1>2. CASE UNCHANGED dispatchVars
  <2>1. DispatchTypeOK'
    BY <1>2 DEF dispatchVars, DispatchInv, DispatchTypeOK
  <2>2. AllCalls'
    BY <1>2, UnmovedKeeps DEF dispatchVars, DispatchInv
  <2>3. QED
    BY <2>1, <2>2 DEF DispatchInv
<1>3. QED
  BY <1>1, <1>2

\* The invariant of every behaviour.
LEMMA DispatchInvariant == DispatchSpec => []DispatchInv
<1>1. QED
  BY DispatchInvInit, DispatchInvStep, PTL DEF DispatchSpec

\* Variables of dispatch, its callbacks and the page keep their types.
THEOREM DispatchTypes == DispatchSpec => []DispatchTypeOK
<1>1. DispatchInv => DispatchTypeOK
  BY DEF DispatchInv
<1>2. QED
  BY <1>1, DispatchInvariant, PTL

\* Only breakthrough answers an error with 200.
LEMMA OnlyBreakthrough ==
  ASSUME NEW r \in Routes, r.fails = 200
  PROVE  r.method = "breakthrough"
<1>1. CASE r \in NavigationRoutes
  BY <1>1 DEF NavigationRoutes, Full, Plain, Route
<1>2. CASE r \in InputRoutes
  BY <1>2 DEF InputRoutes, Full, Unchecked, Route
<1>3. CASE r \in NetworkRoutes
  BY <1>3 DEF NetworkRoutes, Unchecked, Plain, Route
<1>4. CASE r \in ReadRoutes
  BY <1>4 DEF ReadRoutes, Full, Plain, Route
<1>5. QED
  BY <1>1, <1>2, <1>3, <1>4 DEF Routes

\* For any number of calls, whatever the page does and however late it posts:
\* 200 says that the page ran the call's own method (breakthrough excepted), and
\* an error of the page is the call's own.
THEOREM AnswersAreOwn == DispatchSpec => []AnswersReachTheirCall
<1>1. DispatchInv => AnswersReachTheirCall
  <2> SUFFICES ASSUME DispatchInv, NEW c \in Calls
               PROVE  /\ where[c] = "replied" /\ Status(c) = 200 =>
                            c \in ran \/ route[c].method = "breakthrough"
                      /\ outcome[c] = "error" => js[c] = "came" /\ c \notin ran
    BY DEF AnswersReachTheirCall
  <2>1. Says(c, outcome[c])
    BY DEF DispatchInv, AllCalls, CallInv, True
  <2>2. ASSUME Status(c) = 200 PROVE c \in ran \/ route[c].method = "breakthrough"
    <3>1. CASE outcome[c] = "ok"
      BY <2>1, <3>1 DEF Says
    <3>2. CASE outcome[c] # "ok"
      <4>1. route[c].fails = 200
        BY <2>2, <3>2 DEF Status
      <4>2. route[c] \in Routes
        BY DEF DispatchInv, DispatchTypeOK
      <4>3. QED
        BY <4>1, <4>2, OnlyBreakthrough
    <3>3. QED
      BY <3>1, <3>2
  <2>3. QED
    BY <2>1, <2>2 DEF Says
<1>2. QED
  BY <1>1, DispatchInvariant, PTL

\* For any number of calls: one that waits is in the map, or its answer is on its
\* way, and never both.
THEOREM AnswersOnce == DispatchSpec => []OneAnswerEach
<1>1. DispatchInv => OneAnswerEach
  <2> SUFFICES ASSUME DispatchInv, NEW c \in Calls
               PROVE  LET listed == \E i \in DOMAIN pend : pend[i] = c IN
                      /\ where[c] \in {"execute", "waiting"} =>
                           listed \/ sending[c] # "none" \/ box[c] # "none"
                      /\ listed => sending[c] = "none" /\ box[c] = "none"
                      /\ ~(sending[c] # "none" /\ box[c] # "none")
    BY DEF OneAnswerEach
  <2>1. (\E i \in DOMAIN pend : pend[i] = c) <=> id[c] \in DOMAIN pend
    BY EntryIsOwn DEF DispatchInv, AllCalls, Entries
  <2>2. Early(c) /\ OnePlace(c)
    BY DEF DispatchInv, AllCalls, CallInv
  <2>3. QED
    BY <2>1, <2>2 DEF Early, OnePlace
<1>2. QED
  BY <1>1, DispatchInvariant, PTL

\* For any number of calls, only those that came before there was a context
\* leave their channel in the map.
THEOREM NothingElseLeaks == DispatchSpec => []OnlyEarlyCallsLeak
<1>1. DispatchInv => OnlyEarlyCallsLeak
  BY DEF DispatchInv, AllCalls, Entries, OnlyEarlyCallsLeak
<1>2. QED
  BY <1>1, DispatchInvariant, PTL
-----------------------------------------------------------------------------
(* PageCallsBack is violated, and by calls with parameters only: the rest  *)
(* of the module says what becomes of those and of the others.             *)

\* What is waited for has been given to the page; the page throws on parameters,
\* and runs and posts the rest.
PageInv(c) ==
  /\ where[c] \in {"waiting", "leaving"} \/ outcome[c] = "timeout" => js[c] # "none"
  /\ js[c] \in {"running", "posted", "came"} \/ c \in ran => ~route[c].params
  /\ js[c] = "thrown" => route[c].params

PagesInv == DispatchInv /\ \A c \in Calls : PageInv(c)

\* The request is read, registered, executed and answered.
LEMMA HandlerPage ==
  ASSUME PagesInv, NEW c \in Calls, NEW d \in Calls,
         Arrive(c) \/ Handle(c)
  PROVE  PageInv(d)'
<1>1. PageInv(d) /\ PageInv(c) /\ Early(c) /\ (c \in ran => js[c] # "none")
  BY DEF PagesInv, DispatchInv, AllCalls, CallInv, True
<1>2. /\ where \in [Calls -> {"new", "body", "register", "replied"} \cup Waits]
      /\ route \in [Calls -> Routes] /\ js \in [Calls -> {"none", "script", "running",
                                                 "thrown", "posted", "lost", "came"}]
      /\ outcome \in [Calls -> {"none", "unauthorized", "invalid", "no context",
                                "timeout", "error", "ok"}]
      /\ box \in [Calls -> Results]
  BY DEF PagesInv, DispatchInv, DispatchTypeOK
<1>3. CASE Arrive(c)
  BY <1>1, <1>2, <1>3 DEF Arrive, GoesTo, Replies, PageInv, Early, pageVars
<1>4. CASE Read(c)
  BY <1>1, <1>2, <1>4 DEF Read, GoesTo, Replies, PageInv, pageVars
<1>5. CASE Register(c)
  BY <1>1, <1>2, <1>5 DEF Register, GoesTo, PageInv, pageVars
<1>6. CASE Execute(c)
  BY <1>1, <1>2, <1>6 DEF Execute, GoesTo, Replies, PageInv, Early
<1>7. CASE Receive(c)
  BY <1>1, <1>2, <1>7 DEF Receive, GoesTo, Replies, PageInv, Results, pageVars
<1>8. CASE GiveUp(c)
  BY <1>1, <1>2, <1>8 DEF GiveUp, GoesTo, PageInv, pageVars
<1>9. CASE Leave(c)
  BY <1>1, <1>2, <1>9 DEF Leave, GoesTo, Replies, PageInv, pageVars
<1>10. QED
  BY <1>3, <1>4, <1>5, <1>6, <1>7, <1>8, <1>9 DEF Handle

\* The page evaluates, runs, posts, and is left.
LEMMA ScriptPage ==
  ASSUME PagesInv, NEW d \in Calls,
         \/ \E c \in Calls : Callback(c) \/ Evaluate(c) \/ Settle(c) \/ Lose(c)
         \/ Move
  PROVE  PageInv(d)'
<1>1. PageInv(d)
  BY DEF PagesInv
<1>2. js \in [Calls -> {"none", "script", "running", "thrown", "posted", "lost", "came"}]
  BY DEF PagesInv, DispatchInv, DispatchTypeOK
<1>3. UNCHANGED handlers
  BY DEF Callback, Evaluate, Settle, Lose, Move
<1>4. ASSUME NEW c \in Calls, Callback(c) PROVE PageInv(d)'
  BY <1>1, <1>2, <1>3, <1>4 DEF Callback, PageInv, handlers
<1>5. ASSUME NEW c \in Calls, Evaluate(c) PROVE PageInv(d)'
  BY <1>1, <1>2, <1>3, <1>5 DEF Evaluate, PageInv, handlers
<1>6. ASSUME NEW c \in Calls, Settle(c) PROVE PageInv(d)'
  BY <1>1, <1>2, <1>3, <1>6 DEF Settle, PageInv, handlers
<1>7. ASSUME NEW c \in Calls, Lose(c) PROVE PageInv(d)'
  BY <1>1, <1>2, <1>3, <1>7 DEF Lose, PageInv, handlers
<1>8. ASSUME Move PROVE PageInv(d)'
  <2>1. js'[d] = js[d] \/ (js[d] \in {"running", "posted"} /\ js'[d] = "lost")
    BY <1>8 DEF Move
  <2>2. ran' = ran
    BY <1>8 DEF Move
  <2>3. QED
    BY <1>1, <1>3, <2>1, <2>2 DEF PageInv, handlers
<1>9. QED
  BY <1>4, <1>5, <1>6, <1>7, <1>8

\* What the page does, in every behaviour.
LEMMA PagesInvariant == DispatchSpec => []PagesInv
<1>1. DispatchInit => PagesInv
  BY DispatchInvInit DEF DispatchInit, PagesInv, PageInv
<1>2. PagesInv /\ [DispatchNext]_dispatchVars => PagesInv'
  <2> SUFFICES ASSUME PagesInv, [DispatchNext]_dispatchVars PROVE PagesInv'
    OBVIOUS
  <2>1. DispatchInv'
    BY DispatchInvStep DEF PagesInv
  <2>2. ASSUME NEW d \in Calls PROVE PageInv(d)'
    <3>1. CASE \E c \in Calls : Arrive(c) \/ Handle(c)
      BY <3>1, HandlerPage
    <3>2. CASE (\E c \in Calls : Callback(c) \/ Evaluate(c) \/ Settle(c) \/ Lose(c)) \/ Move
      BY <3>2, ScriptPage
    <3>3. CASE (\E c \in Calls : Send(c)) \/ SetContext \/ DomReady \/ UNCHANGED dispatchVars
      <4>1. UNCHANGED <<where, outcome, route, js, ran>>
        BY <3>3 DEF Send, SetContext, DomReady, dispatchVars, handlers, pageVars
      <4>2. QED
        BY <4>1 DEF PagesInv, PageInv
    <3>4. QED
      BY <3>1, <3>2, <3>3 DEF DispatchNext, DispatchStep
  <2>3. QED
    BY <2>1, <2>2 DEF PagesInv
<1>3. QED
  BY <1>1, <1>2, PTL DEF DispatchSpec

\* A call with parameters is never answered by the page, whatever its method
\* and however the page, the timers and the other calls interleave.
ParametersArriveNowhere ==
  \A c \in Calls : route[c].params => outcome[c] \notin {"ok", "error"}

\* For any number of calls and any routes served: dispatch's promise is kept for
\* no call with parameters.
THEOREM ParametersNeverArrive == DispatchSpec => []ParametersArriveNowhere
<1>1. PagesInv => ParametersArriveNowhere
  <2> SUFFICES ASSUME PagesInv, NEW c \in Calls, outcome[c] \in {"ok", "error"}
               PROVE  ~route[c].params
    BY DEF ParametersArriveNowhere
  <2>1. PageInv(c) /\ Says(c, outcome[c])
    BY DEF PagesInv, DispatchInv, AllCalls, CallInv, True
  <2>2. QED
    BY <2>1 DEF PageInv, Says
<1>2. QED
  BY <1>1, PagesInvariant, PTL

\* A call without parameters that timed out is one whose method still runs, or
\* whose callback was posted or lost: all that PageCallsBack asks of it.
OthersAreCalledBack ==
  \A c \in Calls :
    outcome[c] = "timeout" /\ ~route[c].params =>
      js[c] \in {"script", "running", "posted", "lost", "came"}

\* For any number of calls: dispatch's promise is kept for those without
\* parameters, so PageCallsBack is violated by calls with parameters alone.
THEOREM OthersCallBack == DispatchSpec => []OthersAreCalledBack
<1>1. PagesInv => OthersAreCalledBack
  <2> SUFFICES ASSUME PagesInv, NEW c \in Calls, outcome[c] = "timeout", ~route[c].params
               PROVE  js[c] \in {"script", "running", "posted", "lost", "came"}
    BY DEF OthersAreCalledBack
  <2>1. PageInv(c)
    BY DEF PagesInv
  <2>2. js[c] \in {"none", "script", "running", "thrown", "posted", "lost", "came"}
    BY DEF PagesInv, DispatchInv, DispatchTypeOK
  <2>3. QED
    BY <2>1, <2>2 DEF PageInv
<1>2. QED
  BY <1>1, PagesInvariant, PTL
=============================================================================
