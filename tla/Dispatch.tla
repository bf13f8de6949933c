------------------------------- MODULE Dispatch -------------------------------
(***************************************************************************)
(* The /agent/* requests that run JavaScript in SamWeb's own page: the     *)
(* handlers of internal/agent/server.go, dispatch and HandleCallback of    *)
(* internal/browser/wails_backend.go, and the script that browser.go puts  *)
(* into the page once it is loaded.  A request registers a channel under a *)
(* fresh id, hands the page a script that names the id, and waits for the  *)
(* page to post the result back to /agent/callback, or for a timer.        *)
(*                                                                         *)
(* What a handler does under b.mu is one step, and so is what it does      *)
(* between two such sections.  Three things are another's: the page, the   *)
(* callbacks it posts and the client that may hang up.                     *)
(***************************************************************************)
EXTENDS Naturals

CONSTANTS Calls,     \* HTTP requests, each made once
          Served,    \* the methods that clients ask for
          HasToken,  \* the server was started with a token
          MaxMoves   \* bound: times the page is left, reloaded or returned to

-----------------------------------------------------------------------------
(* The routes: what a handler wants of a request, the method it dispatches, *)
(* whether with parameters, and the status it answers an error with.        *)

\* Whether the handler decodes a body, wants certain fields of its input, and
\* passes parameters on; and the status of an error.
Route(method, reads, checks, params, fails) ==
  [method |-> method, reads |-> reads, checks |-> checks, params |-> params, fails |-> fails]

Plain(method)     == Route(method, FALSE, FALSE, FALSE, 500)
Unchecked(method) == Route(method, TRUE, FALSE, TRUE, 500)
Full(method)      == Route(method, TRUE, TRUE, TRUE, 500)

NavigationRoutes ==
  {Full("navigate"), Full("navigateDirect")}
    \cup {Plain("back"), Plain("forward"), Plain("reload"), Plain("stop")}

InputRoutes ==
  {Full("click"), Full("type"), Full("key"), Full("drag")}
    \cup {Unchecked("scroll"), Unchecked("dragTrusted"), Unchecked("dragTouch")}

NetworkRoutes ==
  {Plain("networkEnable"), Plain("networkDisable"), Plain("getRequests"),
   Plain("clearRequests"), Plain("getCookies"), Unchecked("cdpMouse")}

ReadRoutes ==
  {Plain("state"), Full("eval"), Route("wait", TRUE, TRUE, TRUE, 504),
   Route("elements", FALSE, TRUE, TRUE, 500), Route("element", FALSE, TRUE, TRUE, 404),
   Route("screenshot", FALSE, FALSE, TRUE, 500), Route("breakthrough", FALSE, FALSE, FALSE, 200)}

Routes == NavigationRoutes \cup InputRoutes \cup NetworkRoutes \cup ReadRoutes

\* The methods the script in the page knows.
PageActions == {"navigate", "navigateDirect", "back", "forward", "reload", "stop",
                "click", "eval", "scroll", "type"}
PageReads   == {"key", "wait", "elements", "element", "state"}

Known(route) == route.method \in PageActions \cup PageReads

ASSUME DispatchAssumption ==
  /\ Served \subseteq {r.method : r \in Routes}
  /\ HasToken \in BOOLEAN
  /\ MaxMoves \in Nat

VARIABLES
  context,   \* b.ctx; "fatal" once the wails runtime has ended the process
  counter,   \* reqCounter
  pend,      \* b.pend: the call whose channel it is, by id
  box,       \* what each call's channel holds (its capacity is one)
  sending,   \* callbacks that HandleCallback is about to send, by channel
  where,     \* where the handler of each call is
  route,     \* what it was asked for
  id,        \* the id it registered
  outcome,   \* why it was answered
  page,      \* the top-level page: "ready" with the script in it
  moves,     \* how often the page has gone
  js,        \* what has become of each call's script and callback
  ran        \* history: the calls whose method ran to its end

handlers == <<where, route, id, outcome>>
channels == <<pend, box, sending>>
pageVars == <<page, moves, js, ran>>
dispatchVars == <<context, counter, pend, box, sending, where, route, id, outcome,
                  page, moves, js, ran>>

Results == {"none", "ok", "error"}
Waits   == {"execute", "waiting", "leaving"}

DispatchTypeOK ==
  /\ context \in {"unset", "bare", "wails", "fatal"}
  /\ counter \in Nat
  /\ DOMAIN pend \subseteq 1..counter
  /\ \A i \in DOMAIN pend : pend[i] \in Calls
  /\ box \in [Calls -> Results]
  /\ sending \in [Calls -> Results]
  /\ where \in [Calls -> {"new", "body", "register", "replied"} \cup Waits]
  /\ route \in [Calls -> Routes]
  /\ id \in [Calls -> 0..counter]
  /\ outcome \in [Calls -> {"none", "unauthorized", "invalid", "no context",
                            "timeout", "error", "ok"}]
  /\ page \in {"loading", "ready", "away"}
  /\ moves \in 0..MaxMoves
  /\ js \in [Calls -> {"none", "script", "running", "thrown", "posted", "lost", "came"}]
  /\ ran \subseteq Calls

DispatchInit ==
  /\ context = "unset"
  /\ counter = 0
  /\ pend = [i \in {} |-> CHOOSE c \in Calls : TRUE]
  /\ box = [c \in Calls |-> "none"]
  /\ sending = [c \in Calls |-> "none"]
  /\ where = [c \in Calls |-> "new"]
  /\ route = [c \in Calls |-> Plain("state")]
  /\ id = [c \in Calls |-> 0]
  /\ outcome = [c \in Calls |-> "none"]
  /\ page = "loading"
  /\ moves = 0
  /\ js = [c \in Calls |-> "none"]
  /\ ran = {}

GoesTo(c, place) == where' = [where EXCEPT ![c] = place]

Replies(c, why) ==
  /\ GoesTo(c, "replied")
  /\ outcome' = [outcome EXCEPT ![c] = why]

Without(i) == [j \in DOMAIN pend \ {i} |-> pend[j]]

-----------------------------------------------------------------------------
(* The handlers. *)

\* authMiddleware: with a token configured, a request has to name it.
Arrive(c) ==
  /\ where[c] = "new"
  /\ \E r \in Routes : r.method \in Served /\ route' = [route EXCEPT ![c] = r]
  /\ \/ GoesTo(c, "body") /\ UNCHANGED outcome
     \/ HasToken /\ Replies(c, "unauthorized")
  /\ UNCHANGED <<context, counter, channels, id, pageVars>>

\* The body does not decode, or a field it needs is missing; or else on it goes.
Read(c) ==
  /\ where[c] = "body"
  /\ \/ GoesTo(c, "register") /\ UNCHANGED outcome
     \/ (route[c].reads \/ route[c].checks) /\ Replies(c, "invalid")
  /\ UNCHANGED <<context, counter, channels, route, id, pageVars>>

\* Mutant of Register: the id is random only, and may come up again.
RegisterUncounted(c) ==
  /\ where[c] = "register"
  /\ counter' = counter + 1
  /\ \E i \in 1..counter' :
       /\ id' = [id EXCEPT ![c] = i]
       /\ pend' = [j \in DOMAIN pend \cup {i} |-> IF j = i THEN c ELSE pend[j]]
  /\ GoesTo(c, "execute")
  /\ UNCHANGED <<context, box, sending, route, outcome, pageVars>>

\* dispatch: a fresh id, and the channel under it.
Register(c) ==
  /\ where[c] = "register"
  /\ counter' = counter + 1
  /\ id' = [id EXCEPT ![c] = counter']
  /\ pend' = [j \in DOMAIN pend \cup {counter'} |-> IF j = counter' THEN c ELSE pend[j]]
  /\ GoesTo(c, "execute")
  /\ UNCHANGED <<context, box, sending, route, outcome, pageVars>>

\* Without a context the call is refused and its channel stays in the map;
\* with one that wails does not know, its runtime ends the process.
Execute(c) ==
  /\ where[c] = "execute"
  /\ \/ /\ context = "unset"
        /\ Replies(c, "no context")
        /\ UNCHANGED <<context, js>>
     \/ /\ context = "bare"
        /\ context' = "fatal"
        /\ UNCHANGED <<where, outcome, js>>
     \/ /\ context = "wails"
        /\ js' = [js EXCEPT ![c] = "script"]
        /\ GoesTo(c, "waiting")
        /\ UNCHANGED <<context, outcome>>
  /\ UNCHANGED <<counter, channels, route, id, page, moves, ran>>

\* The select takes what is in the channel, ...
Receive(c) ==
  /\ where[c] = "waiting"
  /\ box[c] # "none"
  /\ Replies(c, box[c])
  /\ box' = [box EXCEPT ![c] = "none"]
  /\ UNCHANGED <<context, counter, pend, sending, route, id, pageVars>>

\* Mutant of GiveUp: no timer.
GiveUpNever(c) ==
  /\ where[c] = "waiting" /\ outcome[c] = "timeout"
  /\ GoesTo(c, "leaving")
  /\ UNCHANGED <<context, counter, channels, route, id, outcome, pageVars>>

\* ... or the end of the request's context or of the 60 seconds, even when
\* there is something in it; the entry is removed under the lock after that.
GiveUp(c) ==
  /\ where[c] = "waiting"
  /\ GoesTo(c, "leaving")
  /\ UNCHANGED <<context, counter, channels, route, id, outcome, pageVars>>

\* Mutant of Leave: the entry is left in the map.
LeaveEntry(c) ==
  /\ where[c] = "leaving"
  /\ Replies(c, "timeout")
  /\ UNCHANGED <<context, counter, pend, box, sending, route, id, pageVars>>

Leave(c) ==
  /\ where[c] = "leaving"
  /\ pend' = Without(id[c])
  /\ Replies(c, "timeout")
  /\ UNCHANGED <<context, counter, box, sending, route, id, pageVars>>

Handle(c) == Read(c) \/ Register(c) \/ Execute(c) \/ Receive(c) \/ GiveUp(c) \/ Leave(c)

-----------------------------------------------------------------------------
(* The callbacks. *)

\* Mutant of Callback: the channel stays in the map.
CallbackKeeps(c) ==
  /\ js[c] = "posted"
  /\ js' = [js EXCEPT ![c] = "came"]
  /\ IF id[c] \in DOMAIN pend
     THEN sending' = [sending EXCEPT ![pend[id[c]]] = IF c \in ran THEN "ok" ELSE "error"]
     ELSE UNCHANGED sending
  /\ UNCHANGED <<context, counter, pend, box, handlers, page, moves, ran>>

\* HandleCallback under the lock: it takes the channel out of the map.  A
\* callback for which there is none is dropped.
Callback(c) ==
  /\ js[c] = "posted"
  /\ js' = [js EXCEPT ![c] = "came"]
  /\ IF id[c] \in DOMAIN pend
     THEN /\ sending' = [sending EXCEPT ![pend[id[c]]] = IF c \in ran THEN "ok" ELSE "error"]
          /\ pend' = Without(id[c])
     ELSE UNCHANGED <<sending, pend>>
  /\ UNCHANGED <<context, counter, box, handlers, page, moves, ran>>

\* Mutant of Send: the channel holds nothing, so somebody has to be receiving.
SendUnbuffered(c) ==
  /\ sending[c] # "none" /\ box[c] = "none"
  /\ where[c] = "waiting"
  /\ box' = [box EXCEPT ![c] = sending[c]]
  /\ sending' = [sending EXCEPT ![c] = "none"]
  /\ UNCHANGED <<context, counter, pend, handlers, pageVars>>

\* The send, outside the lock.  It would block on a full channel.
Send(c) ==
  /\ sending[c] # "none" /\ box[c] = "none"
  /\ box' = [box EXCEPT ![c] = sending[c]]
  /\ sending' = [sending EXCEPT ![c] = "none"]
  /\ UNCHANGED <<context, counter, pend, handlers, pageVars>>

-----------------------------------------------------------------------------
(* The page. *)

\* The context of main, and then the one that wails hands to OnStartup.
SetContext ==
  /\ \/ context = "unset" /\ context' = "bare"
     \/ context = "bare" /\ context' = "wails"
  /\ UNCHANGED <<counter, channels, handlers, pageVars>>

\* OnDomReady puts the script into SamWeb's own page.
DomReady ==
  /\ context = "wails" /\ page = "loading"
  /\ page' = "ready"
  /\ UNCHANGED <<context, counter, channels, handlers, moves, js, ran>>

\* What the page is asked to evaluate.  Without the script in it nothing has a
\* name; with it, parameters that are not the text of a JSON value make its
\* first line throw, and nobody is told.
Evaluate(c) ==
  /\ js[c] = "script"
  /\ js' = [js EXCEPT ![c] = CASE page # "ready"     -> "lost"
                               [] route[c].params    -> "thrown"
                               [] OTHER              -> "running"]
  /\ UNCHANGED <<context, counter, channels, handlers, page, moves, ran>>

\* The method returns, or throws, or there is none: that is posted.
Settle(c) ==
  /\ js[c] = "running"
  /\ js' = [js EXCEPT ![c] = "posted"]
  /\ \/ Known(route[c]) /\ ran' = ran \cup {c}
     \/ UNCHANGED ran
  /\ UNCHANGED <<context, counter, channels, handlers, page, moves>>

\* A callback gets lost on its way: its fetch only logs that.
Lose(c) ==
  /\ js[c] = "posted"
  /\ js' = [js EXCEPT ![c] = "lost"]
  /\ UNCHANGED <<context, counter, channels, handlers, page, moves, ran>>

\* The page is reloaded, or gone to another site (CDPNavigateTop) and back.
\* What was running in it is gone, and what it was posting may be.
Move ==
  /\ context = "wails" /\ moves < MaxMoves
  /\ moves' = moves + 1
  /\ page' \in {"loading", "away"}
  /\ \E cut \in SUBSET {c \in Calls : js[c] = "posted"} :
       js' = [c \in Calls |-> IF c \in cut \/ js[c] = "running" THEN "lost" ELSE js[c]]
  /\ UNCHANGED <<context, counter, channels, handlers, ran>>

DispatchStep ==
  \/ \E c \in Calls : Arrive(c) \/ Handle(c) \/ Callback(c) \/ Send(c)
  \/ \E c \in Calls : Evaluate(c) \/ Settle(c) \/ Lose(c)
  \/ SetContext \/ DomReady \/ Move

DispatchNext == context # "fatal" /\ DispatchStep

DispatchSpec == DispatchInit /\ [][DispatchNext]_dispatchVars

\* Handlers run and timers fire; nothing is asked of the page or of its posts.
DispatchFairness ==
  \A c \in Calls : /\ WF_dispatchVars(context # "fatal" /\ Handle(c))
                   /\ WF_dispatchVars(context # "fatal" /\ Send(c))

DispatchFairSpec == DispatchSpec /\ DispatchFairness

-----------------------------------------------------------------------------
(* Properties. *)

\* What the client of a call is told (writeJSON and writeError).
Status(c) ==
  CASE outcome[c] = "ok"           -> 200
    [] outcome[c] = "unauthorized" -> 401
    [] outcome[c] = "invalid"      -> 400
    [] OTHER                       -> route[c].fails

\* Each call gets its own answer, however late callbacks, timeouts and other
\* calls interleave: a call is answered with a success only when the page ran
\* that call's method, and with an error of the page only when the page posted
\* one for it.
AnswersReachTheirCall ==
  \A c \in Calls :
    /\ where[c] = "replied" /\ Status(c) = 200 =>
         c \in ran \/ route[c].method = "breakthrough"
    /\ outcome[c] = "error" => js[c] = "came" /\ c \notin ran

\* A call that waits is never forgotten and never answered twice: its channel
\* is in the map, or on its way to a callback's sender, or holds its answer,
\* and only one of the three.
OneAnswerEach ==
  \A c \in Calls :
    LET listed == \E i \in DOMAIN pend : pend[i] = c IN
    /\ where[c] \in {"execute", "waiting"} =>
         listed \/ sending[c] # "none" \/ box[c] # "none"
    /\ listed => sending[c] = "none" /\ box[c] = "none"
    /\ ~(sending[c] # "none" /\ box[c] # "none")

\* The map does not grow: an entry is that of a call still being served, or of
\* one that came before there was a context to run its script in.
OnlyEarlyCallsLeak ==
  \A i \in DOMAIN pend :
    where[pend[i]] \in Waits \/ outcome[pend[i]] = "no context"

\* A callback's HTTP request ends: HandleCallback never hangs on a channel
\* whose call has timed out meanwhile.
CallbacksReturn ==
  \A c \in Calls : sending[c] # "none" ~> sending[c] = "none"

\* Every /agent/* request is answered, whatever the page does, unless the
\* process ends.
EveryCallIsAnswered ==
  \A c \in Calls : where[c] # "new" ~> (where[c] = "replied" \/ context = "fatal")

\* "dispatch sends a method invocation to the JS side and waits for the
\* callback via HTTP POST" (wails_backend.go:86-87): a call whose script the
\* loaded page has evaluated times out only when its method is still running,
\* or its callback was posted or lost.
PageCallsBack ==
  \A c \in Calls :
    outcome[c] = "timeout" => js[c] \in {"script", "running", "posted", "lost", "came"}
=============================================================================
