------------------------------ MODULE TabLogin ------------------------------
(***************************************************************************)
(* How a tab worker gets its profile's login (internal/browser/            *)
(* tab_worker.go): a goroutine connects to the window, opens the start     *)
(* page, and puts the saved cookies and localStorage of the profile into   *)
(* the browser.  Meanwhile the worker's agent server is up, and the bridge *)
(* or a user may drive the same window.                                    *)
(*                                                                         *)
(* One profile, one worker at a time; what its browser keeps is in the     *)
(* user-data-dir and outlives the worker.  A login is the account it       *)
(* belongs to, and "none" stands for none.  A navigation without an error  *)
(* is taken to have happened by the end of the sleep that follows it.      *)
(***************************************************************************)
EXTENDS Naturals

CONSTANTS Origins,      \* the sites that localStorage may be saved for
          StartOrigin,  \* the one that the worker opens (https://chat.z.ai)
          Tokenless,    \* those that keep no token, or a short one
          Owners,       \* accounts
          Saves,        \* the logins that may be saved of the profile
          MaxLaunches,  \* bound: starts of the worker
          MaxUses       \* bound: saves, logins and navigations of others

Owned  == Owners \cup {"none"}
Logged == [cookies : Owned, storage : [Origins -> Owned]]

ASSUME LoginAssumption ==
  /\ StartOrigin \in Origins /\ Tokenless \subseteq Origins
  /\ "none" \notin Owners /\ "blank" \notin Origins
  /\ Saves \subseteq Logged
  /\ MaxLaunches \in Nat /\ MaxUses \in Nat

VARIABLES
  saved,      \* the profile in profiles.json
  given,      \* what the worker has read of it
  dir,        \* the cookies and localStorage in its user-data-dir
  window,     \* where its window is
  place,      \* where its goroutine is
  todo,       \* the origins yet to be restored
  origin,     \* the one being restored
  launches, uses,  \* counters, for the bounds
  disturbed   \* history: since the worker was started, a command failed or
              \* somebody else used the window

loginVars == <<saved, given, dir, window, place, todo, origin, launches, uses, disturbed>>

NoLogin == [cookies |-> "none", storage |-> [o \in Origins |-> "none"]]
Ended   == {"off", "ready", "blind"}

Holds(login) == {o \in Origins : login.storage[o] # "none"}

LoginTypeOK ==
  /\ saved \in Saves /\ given \in Logged /\ dir \in Logged
  /\ window \in Origins \cup {"blank"}
  /\ place \in Ended \cup {"connect", "open", "again", "get", "cookies", "next", "write",
                           "check", "reload"}
  /\ origin \in Origins /\ todo \subseteq Holds(given)
  /\ launches \in 0..MaxLaunches /\ uses \in 0..MaxUses
  /\ disturbed \in BOOLEAN

LoginInit ==
  /\ saved \in Saves
  /\ given = NoLogin /\ dir = NoLogin
  /\ window = "blank" /\ place = "off"
  /\ todo = {} /\ origin = StartOrigin
  /\ launches = 0 /\ uses = 0 /\ disturbed = FALSE

Fine == UNCHANGED disturbed
Fail == disturbed' = TRUE

\* The process of the worker has ended, and its goroutines with it.
Gone == place' = "off" /\ todo' = {}

\* A navigation of the goroutine, which looks at no error but in the loop.
Goes(o) == \/ window' = o /\ Fine
           \/ window' = window /\ Fail

-----------------------------------------------------------------------------
(* The goroutine of runTabWorker. *)

Launch ==
  /\ place = "off" /\ launches < MaxLaunches
  /\ launches' = launches + 1
  /\ place' = "connect" /\ window' = "blank" /\ disturbed' = FALSE
  /\ UNCHANGED <<saved, given, dir, todo, origin, uses>>

\* Up to forty times.
Connect ==
  /\ place = "connect"
  /\ place' \in {"open", "blind"}
  /\ UNCHANGED <<saved, given, dir, window, todo, origin, launches, uses, disturbed>>

\* Page.navigate; if the window is not there 3 s later, or does not say where it is,
\* once more with a script.
OpenStart ==
  /\ place \in {"open", "again"}
  /\ Goes(StartOrigin)
  /\ \/ place' = "again" /\ place = "open"
     \/ place' = "get" /\ (place = "again" \/ window' # "blank")
  /\ UNCHANGED <<saved, given, dir, todo, origin, launches, uses>>

\* Without the profile there is nothing to inject.
GetProfile ==
  /\ place = "get"
  /\ \/ place' = "cookies" /\ given' = saved /\ Fine
     \/ place' = "ready" /\ Fail /\ UNCHANGED given
  /\ UNCHANGED <<saved, dir, window, todo, origin, launches, uses>>

\* Without localStorage to restore the page is not loaded again.
SetCookies ==
  /\ place = "cookies"
  /\ \/ /\ dir' = IF given.cookies = "none" THEN dir ELSE [dir EXCEPT !.cookies = given.cookies]
        /\ Fine
     \/ UNCHANGED dir /\ Fail
  /\ todo' = Holds(given)
  /\ place' = IF todo' = {} THEN "ready" ELSE "next"
  /\ UNCHANGED <<saved, given, window, origin, launches, uses>>

\* Mutant of NextOrigin: localStorage is written wherever the window is.
NextInPlace ==
  /\ place = "next" /\ todo # {}
  /\ origin' \in todo /\ todo' = todo \ {origin'}
  /\ place' = "write"
  /\ UNCHANGED <<saved, given, dir, window, launches, uses, disturbed>>

\* Mutant of NextOrigin: an origin that cannot be opened is tried again.
NextRetries ==
  /\ place = "next" /\ todo # {}
  /\ origin' \in todo
  /\ \/ todo' = todo \ {origin'} /\ place' = "write" /\ window' = origin' /\ Fine
     \/ place' = "next" /\ Fail /\ UNCHANGED <<window, todo>>
  /\ UNCHANGED <<saved, given, dir, launches, uses>>

\* The map is walked in any order.  An origin that cannot be opened is left out.
NextOrigin ==
  /\ place = "next" /\ todo # {}
  /\ origin' \in todo /\ todo' = todo \ {origin'}
  /\ \/ place' = "write" /\ window' = origin' /\ Fine
     \/ place' = "next" /\ Fail /\ UNCHANGED window
  /\ UNCHANGED <<saved, given, dir, launches, uses>>

\* RestoreLocalStorage: into the page that the window shows by then.
WriteStorage ==
  /\ place = "write"
  /\ \/ /\ dir' = [dir EXCEPT !.storage = [o \in Origins |->
                     IF o = window THEN given.storage[origin] ELSE @[o]]]
        /\ place' = "check" /\ Fine
     \/ place' = "next" /\ Fail /\ UNCHANGED dir
  /\ UNCHANGED <<saved, given, window, todo, origin, launches, uses>>

\* string(token)[:100]: a reply of fewer bytes, or none, ends the worker.
CheckToken ==
  /\ place = "check"
  /\ \/ window \in Origins \ Tokenless /\ place' = "next" /\ Fine /\ UNCHANGED todo
     \/ window \notin Origins \ Tokenless /\ Gone /\ Fine
     \/ Gone /\ Fail
  /\ UNCHANGED <<saved, given, dir, window, origin, launches, uses>>

\* Through about:blank, and back to the start page whatever the first did.
Reload ==
  \/ /\ place = "next" /\ todo = {}
     /\ place' = "reload"
     /\ Goes("blank")
     /\ UNCHANGED <<saved, given, dir, todo, origin, launches, uses>>
  \/ /\ place = "reload"
     /\ place' = "ready"
     /\ Goes(StartOrigin)
     /\ UNCHANGED <<saved, given, dir, todo, origin, launches, uses>>

Inject == GetProfile \/ SetCookies \/ NextOrigin \/ WriteStorage \/ CheckToken \/ Reload

-----------------------------------------------------------------------------
(* Everybody else. *)

Uses == uses < MaxUses /\ uses' = uses + 1

\* The main process saves the profile again.
SaveAgain ==
  /\ Uses
  /\ saved' \in Saves
  /\ UNCHANGED <<given, dir, window, place, todo, origin, launches, disturbed>>

\* Once the goroutine is connected the agent server has the window too; a user has it
\* from the start.
NavigatesAway ==
  /\ Uses /\ place # "off"
  /\ window' \in Origins /\ Fail
  /\ UNCHANGED <<saved, given, dir, place, todo, origin, launches>>

LogsIn ==
  /\ Uses /\ place # "off" /\ window \in Origins
  /\ \E a \in Owners : dir' = [dir EXCEPT !.cookies = a, !.storage[window] = a]
  /\ Fail
  /\ UNCHANGED <<saved, given, window, place, todo, origin, launches>>

\* The worker is killed, crashes, or its window is closed.
WorkerGoes ==
  /\ place # "off" /\ Gone
  /\ UNCHANGED <<saved, given, dir, window, origin, launches, uses, disturbed>>

LoginNext ==
  \/ Launch \/ Connect \/ OpenStart \/ Inject
  \/ SaveAgain \/ NavigatesAway \/ LogsIn \/ WorkerGoes

LoginSpec == LoginInit /\ [][LoginNext]_loginVars

LoginFairness == WF_loginVars(Connect \/ OpenStart \/ Inject)

-----------------------------------------------------------------------------
(* Properties. *)

\* "The tab worker injects the profile's saved cookies + localStorage ... so the user
\* is logged in" (tab_worker.go:35-37): when the goroutine is through, and nobody got
\* in between and nothing failed, the browser holds the whole of the login it read,
\* on the page that wants it: whatever an earlier launch, cut off half-way, or an
\* earlier account left in the user-data-dir.
LoginAsSaved ==
  [][place' = "ready" /\ place # "ready" /\ ~disturbed' =>
       /\ given'.cookies \in {"none", dir'.cookies}
       /\ \A o \in Holds(given') : dir'.storage[o] = given'.storage[o]
       /\ window' = StartOrigin]_loginVars

\* The goroutine comes to its end: a login is complete, or there is no CDP, or the
\* worker is gone, and with it (TabWorkers) its entry of the registry.
LoginEnds == place = "connect" ~> place \in Ended
=============================================================================
