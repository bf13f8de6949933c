------------------------------ MODULE Sessions ------------------------------
(***************************************************************************)
(* Whose login the browser of the main process holds, and what is saved of *)
(* it (internal/browser/wails_backend.go): switching profiles, saving one, *)
(* opening a site directly, the cookie file, over the ProfileStore.        *)
(*                                                                         *)
(* Requests of the agent server run concurrently; a CDP command is a step. *)
(* There is one site outside, z.ai, and its localStorage is seen only      *)
(* while the page is on it; the page of SamWeb's own interface is "ui".    *)
(***************************************************************************)
EXTENDS ProfileStore, FiniteSets

CONSTANTS MaxRequests,   \* bound: requests
          MaxTogether,   \* bound: requests, once something has disturbed them
          MaxLogins,     \* bound: logins of the user
          MaxFaults,     \* bound: failing commands and saves, and restarts
          Requests       \* the requests considered: a subset of Ops

Ops == {"switch", "save", "open", "reset", "rename", "delete", "savejar", "loadjar"}

ASSUME SessionsAssumption ==
  /\ MaxRequests \in Nat /\ MaxTogether \in 0..MaxRequests
  /\ MaxLogins \in Nat /\ MaxFaults \in Nat
  /\ Requests \subseteq Ops
  /\ NoOne \notin Names
  /\ Threads \subseteq Nat

Pages == {"ui", "zai"}

VARIABLES
  jar,        \* the cookies of the browser
  local,      \* the localStorage of each page
  page,       \* the page in the window
  skip,       \* skipNextClearOnNav
  jarfile,    \* cdp-cookies.json
  job,        \* the request each goroutine serves, and how far it is
  restorer,   \* the goroutine that SwitchToProfile started
  disturbed,  \* history: what happened that no request can expect
  requests, logins, faults   \* counters, for the bounds

browser == <<jar, local, page>>
counts  == <<requests, logins, faults>>
vars    == <<storeVars, browser, skip, jarfile, job, restorer, disturbed, counts>>

\* who: the profile's id.  as: the name given.  cookies, storage: what was read of
\* the browser or of the profile.  moved: the page was taken from the interface.
Idle == [op |-> "none", at |-> "idle", who |-> NoOne, as |-> NoOne,
         cookies |-> NoOne, storage |-> NoOne, moved |-> FALSE]
Off  == [at |-> "off", storage |-> NoOne]

Places == {"idle", "activate", "wipe", "get", "cookies", "skip", "snapshot", "create", "origin",
           "away", "dump", "origin2", "update", "back", "script", "go", "clear", "edit", "file"}

TypeOK ==
  /\ StoreTypeOK
  /\ jar \in Logins /\ local \in [Pages -> Logins] /\ page \in Pages
  /\ skip \in 0..2
  /\ jarfile \in Logins
  /\ job \in [Threads -> [op : Ops \cup {"none"}, at : Places, who : Ids \cup {NoOne},
                          as : Names \cup {NoOne}, cookies : Logins, storage : Logins,
                          moved : BOOLEAN]]
  /\ restorer \in [Threads -> [at : {"off", "go", "restore", "home"}, storage : Logins]]
  /\ disturbed \subseteq {"requests", "restorer", "fault", "jarfile", "halves"}
  /\ requests \in 0..MaxRequests /\ logins \in 0..MaxLogins /\ faults \in 0..MaxFaults
  /\ \A t \in Threads : job[t].at = "idle" => holder # t

\* Saved while its localStorage could be read; without it a profile has half a login.
Whole(p) == p.cookies \in {NoOne, p.storage}
AllWhole(s) == \A i \in DOMAIN s.profiles : Whole(s.profiles[i])

Init ==
  /\ StoreInit
  /\ jar = NoOne /\ local = [p \in Pages |-> NoOne] /\ page = "ui"
  /\ skip = 0
  /\ jarfile = NoOne
  /\ job = [t \in Threads |-> Idle]
  /\ restorer = [t \in Threads |-> Off]
  /\ disturbed = IF AllWhole(file) THEN {} ELSE {"halves"}
  /\ requests = 0 /\ logins = 0 /\ faults = 0

\* Where the program is when a request, or a user, comes in.
Busy     == \E t \in Threads : job[t].at # "idle"
Restores == \E t \in Threads : restorer[t].at # "off"
Overlap  == (IF Busy THEN {"requests"} ELSE {}) \cup (IF Restores THEN {"restorer"} ELSE {})

At(t, op, place) == job[t].op = op /\ job[t].at = place
Goto(t, place)   == job' = [job EXCEPT ![t].at = place]
Done(t)          == job' = [job EXCEPT ![t] = Idle]

\* The effects of commands.  A failing one has none.
Given(login, old) == IF login = NoOne THEN old ELSE login   \* SetCookie: what is there
Wipe == jar' = NoOne /\ local' = [p \in Pages |-> NoOne]
Fail == /\ faults < MaxFaults
        /\ faults' = faults + 1
        /\ disturbed' = disturbed \cup {"fault"}
Fine == UNCHANGED <<disturbed, faults>>

still == <<skip, jarfile, restorer, requests, logins>>

-----------------------------------------------------------------------------
(* The user, and the requests. *)

\* Somebody logs in on the site: cookies and localStorage are theirs.
LogIn(a) ==
  /\ page = "zai" /\ logins < MaxLogins
  /\ logins' = logins + 1
  /\ jar' = a /\ local' = [local EXCEPT !["zai"] = a]
  /\ disturbed' = disturbed \cup Overlap
  /\ UNCHANGED <<storeVars, page, skip, jarfile, job, restorer, requests, faults>>

\* The button that CDPNavigateTop adds to every page.
GoHome ==
  /\ page = "zai"
  /\ page' = "ui"
  /\ disturbed' = disturbed \cup Overlap
  /\ UNCHANGED <<storeVars, jar, local, skip, jarfile, job, restorer, counts>>

Entry(op) == CASE op = "switch" -> "activate" [] op = "save"  -> "snapshot"
                [] op = "open"   -> "skip"     [] op = "reset" -> "clear"
                [] op \in {"rename", "delete"} -> "edit"
                [] op \in {"savejar", "loadjar"} -> "file"

\* Goroutines are alike, so the first that is free serves the request; it is not
\* before its restorer is done, which is a bound on restorers.
Free(t) == job[t] = Idle /\ restorer[t] = Off

Request(t) ==
  /\ Free(t) /\ \A u \in Threads : u < t => ~Free(u)
  /\ requests' = requests + 1
  /\ disturbed' = disturbed \cup Overlap
  /\ requests < IF disturbed' = {} THEN MaxRequests ELSE MaxTogether
  /\ \E op \in Requests, who \in Ids \cup {NoOne}, as \in Names \cup {NoOne} :
       /\ (who # NoOne) => op \in {"switch", "rename", "delete"}
       /\ (who = NoOne) => op \notin {"rename", "delete"}
       /\ (as # NoOne) <=> op \in {"save", "rename"}
       /\ job' = [job EXCEPT ![t] = [Idle EXCEPT !.op = op, !.at = Entry(op), !.who = who, !.as = as]]
  /\ UNCHANGED <<storeVars, browser, skip, jarfile, restorer, logins, faults>>

-----------------------------------------------------------------------------
(* Calls of the ProfileStore. *)

\* The edit that the request is about to make.
Wanted(t) ==
  LET j == job[t] IN
  CASE j.at = "activate" -> Activate(state, j.who)
    [] j.at = "create"   -> Create(state, j.as, j.cookies)
    [] j.at = "update"   -> UpdateLocalStorage(state, j.who, j.storage)
    [] At(t, "rename", "edit") -> Rename(state, j.who, j.as)
    [] At(t, "delete", "edit") -> Delete(state, j.who)
    [] OTHER -> {}

Calls(t) == job[t].at \in {"activate", "create", "update", "edit"}

\* Mutant of After: an UpdateLocalStorage that fails is tried again.
AfterRetrying(t, error) ==
  LET at == job[t].at IN
  IF at = "update" THEN IF error THEN UNCHANGED job ELSE Goto(t, "back")
  ELSE IF error \/ at = "edit" THEN Done(t)
  ELSE IF at = "create" THEN Goto(t, "origin")
  ELSE Goto(t, "wipe")

\* What follows a call that returned an error, or none.  The id of the profile
\* that Create returned is kept.
After(t, error) ==
  LET at == job[t].at IN
  IF at = "update" THEN Goto(t, "back")
  ELSE IF error \/ at = "edit" THEN Done(t)
  ELSE IF at = "create" THEN Goto(t, "origin")
  ELSE Goto(t, "wipe")

LoadFirst(t) ==
  /\ Calls(t) /\ Load
  /\ UNCHANGED <<browser, still, job, disturbed, faults>>

BeginEdit(t) ==
  /\ Calls(t)
  /\ \E new \in Wanted(t) :
       /\ Edit(t, new)
       /\ IF job[t].at # "create" THEN UNCHANGED job
          ELSE \E i \in First(new, "name", job[t].as) :
                 job' = [job EXCEPT ![t].who = new.profiles[i].id]
  /\ UNCHANGED <<browser, still, disturbed, faults>>

\* No such profile.
Refused(t) ==
  /\ Calls(t) /\ loaded /\ Wanted(t) = {} /\ Refuse
  /\ After(t, TRUE)
  /\ UNCHANGED <<browser, still, disturbed, faults>>

\* profiles.json cannot be read.
LoadFails(t) ==
  /\ Calls(t) /\ ~loaded /\ Refuse
  /\ Fail /\ After(t, TRUE)
  /\ UNCHANGED <<browser, still>>

Save(t) ==
  \/ (OpenTmp(t) \/ WriteTmp(t)) /\ UNCHANGED job /\ Fine /\ UNCHANGED <<browser, still>>
  \/ RenameTmp(t) /\ After(t, FALSE) /\ Fine /\ UNCHANGED <<browser, still>>
  \/ SaveFails(t) /\ After(t, TRUE) /\ Fail /\ UNCHANGED <<browser, still>>

StoreCall(t) == LoadFirst(t) \/ BeginEdit(t) \/ Refused(t) \/ LoadFails(t) \/ Save(t)

-----------------------------------------------------------------------------
(* SwitchToProfile, after Activate. *)

\* Mutant of SwitchWipes: only the cookies are cleared.
SwitchWipesCookies(t) ==
  /\ At(t, "switch", "wipe")
  /\ jar' = NoOne /\ UNCHANGED <<local, page>> /\ Fine
  /\ IF job[t].who = NoOne THEN Done(t) ELSE Goto(t, "get")
  /\ UNCHANGED <<storeVars, still>>

\* All storage of all origins is cleared; that it fails is only logged.
SwitchWipes(t) ==
  /\ At(t, "switch", "wipe")
  /\ \/ Wipe /\ UNCHANGED page /\ Fine
     \/ UNCHANGED browser /\ Fail
  /\ IF job[t].who = NoOne THEN Done(t) ELSE Goto(t, "get")
  /\ UNCHANGED <<storeVars, still>>

\* The profile as it is now: it may be gone.
SwitchGets(t) ==
  /\ At(t, "switch", "get") /\ loaded /\ holder = NoOne
  /\ \/ Get(state, job[t].who) = {} /\ Done(t)
     \/ \E p \in Get(state, job[t].who) :
          job' = [job EXCEPT ![t].at = "cookies", ![t].cookies = p.cookies,
                             ![t].storage = p.storage]
  /\ UNCHANGED <<storeVars, browser, still, disturbed, faults>>

SwitchSetsCookies(t) ==
  /\ At(t, "switch", "cookies")
  /\ \/ jar' = Given(job[t].cookies, jar) /\ Fine
     \/ UNCHANGED jar /\ Fail
  /\ Goto(t, "skip")
  /\ UNCHANGED <<storeVars, local, page, still>>

\* The request returns; a profile with a localStorage leaves a goroutine behind.
SwitchEnds(t) ==
  /\ At(t, "switch", "skip")
  /\ skip' = IF job[t].storage = NoOne THEN 1 ELSE 2
  /\ restorer' = IF job[t].storage = NoOne THEN restorer
                 ELSE [restorer EXCEPT ![t] = [at |-> "go", storage |-> job[t].storage]]
  /\ Done(t)
  /\ UNCHANGED <<storeVars, browser, jarfile, disturbed, counts>>

Switch(t) == SwitchWipes(t) \/ SwitchGets(t) \/ SwitchSetsCookies(t) \/ SwitchEnds(t)

Step(t, from, to) == /\ restorer[t].at = from
                     /\ restorer' = [restorer EXCEPT ![t].at = to]

Leave == UNCHANGED <<storeVars, skip, jarfile, job, requests, logins>>

\* To the profile's origin; if that fails, the origin is left out.
RestorerGoes(t) ==
  /\ \/ page' = "zai" /\ Step(t, "go", "restore") /\ Fine
     \/ UNCHANGED page /\ Step(t, "go", "home") /\ Fail
  /\ UNCHANGED <<jar, local>> /\ Leave

\* 3 s later, into the page that is there.
RestorerWrites(t) ==
  /\ Step(t, "restore", "home")
  /\ \/ local' = [local EXCEPT ![page] = restorer[t].storage] /\ Fine
     \/ UNCHANGED local /\ Fail
  /\ UNCHANGED <<jar, page>> /\ Leave

RestorerReturns(t) ==
  /\ restorer[t].at = "home" /\ restorer' = [restorer EXCEPT ![t] = Off]
  /\ \/ page' = "ui" /\ Fine
     \/ UNCHANGED page /\ Fail
  /\ UNCHANGED <<jar, local>> /\ Leave

Restore(t) == RestorerGoes(t) \/ RestorerWrites(t) \/ RestorerReturns(t)

-----------------------------------------------------------------------------
(* SaveCurrentCookiesToProfile. *)

SaveSnapshots(t) ==
  /\ At(t, "save", "snapshot")
  /\ \/ job' = [job EXCEPT ![t].at = "create", ![t].cookies = jar] /\ Fine
     \/ Done(t) /\ Fail
  /\ UNCHANGED <<storeVars, browser, still>>

\* On the interface, or nowhere to be known: z.ai has to be visited.
SaveLooks(t) ==
  /\ At(t, "save", "origin")
  /\ \/ Fine /\ IF page = "ui" THEN job' = [job EXCEPT ![t].at = "away", ![t].moved = TRUE]
                ELSE Goto(t, "dump")
     \/ Fail /\ job' = [job EXCEPT ![t].at = "away", ![t].moved = TRUE]
  /\ UNCHANGED <<storeVars, browser, still>>

SaveGoes(t) ==
  /\ At(t, "save", "away") /\ Goto(t, "dump")
  /\ \/ page' = "zai" /\ Fine
     \/ UNCHANGED page /\ Fail
  /\ UNCHANGED <<storeVars, jar, local, still>>

\* A localStorage that is empty, or cannot be read, is not saved.
SaveDumps(t) ==
  /\ At(t, "save", "dump")
  /\ \/ /\ local[page] # NoOne /\ Fine
        /\ job' = [job EXCEPT ![t].at = "origin2", ![t].storage = local[page]]
     \/ local[page] = NoOne /\ Goto(t, "back") /\ Fine
     \/ Goto(t, "back") /\ Fail
  /\ UNCHANGED <<storeVars, browser, still>>

\* The origin is asked for after the storage was read.
SaveLooksAgain(t) ==
  /\ At(t, "save", "origin2")
  /\ \/ Goto(t, IF page = "ui" THEN "back" ELSE "update") /\ Fine
     \/ Goto(t, "back") /\ Fail
  /\ UNCHANGED <<storeVars, browser, still>>

SaveReturns(t) ==
  /\ At(t, "save", "back") /\ Done(t)
  /\ \/ page' = (IF job[t].moved THEN "ui" ELSE page) /\ Fine
     \/ job[t].moved /\ UNCHANGED page /\ Fail
  /\ UNCHANGED <<storeVars, jar, local, still>>

SaveCurrent(t) == \/ SaveSnapshots(t) \/ SaveLooks(t) \/ SaveGoes(t) \/ SaveDumps(t)
                  \/ SaveLooksAgain(t) \/ SaveReturns(t)

-----------------------------------------------------------------------------
(* CDPNavigateTop to the site, and the cookie file. *)

\* Mutant of OpenSkips: the counter goes on below zero.
OpenSkipsAlways(t) ==
  /\ At(t, "open", "skip")
  /\ skip' = skip - 1 /\ Goto(t, IF skip > 0 THEN "script" ELSE "wipe")
  /\ UNCHANGED <<storeVars, browser, jarfile, restorer, disturbed, counts>>

\* A skip is used up, or everything is cleared; that this fails is only logged.
OpenSkips(t) ==
  /\ At(t, "open", "skip")
  /\ IF skip > 0 THEN skip' = skip - 1 /\ Goto(t, "script") ELSE UNCHANGED skip /\ Goto(t, "wipe")
  /\ UNCHANGED <<storeVars, browser, jarfile, restorer, disturbed, counts>>

OpenWipes(t) ==
  /\ At(t, "open", "wipe") /\ Goto(t, "script")
  /\ \/ Wipe /\ UNCHANGED page /\ Fine
     \/ UNCHANGED browser /\ Fail
  /\ UNCHANGED <<storeVars, still>>

\* The back button's script; without it the page is not left.
OpenAddsScript(t) ==
  /\ At(t, "open", "script")
  /\ \/ Goto(t, "go") /\ Fine
     \/ Done(t) /\ Fail
  /\ UNCHANGED <<storeVars, browser, still>>

OpenGoes(t) ==
  /\ At(t, "open", "go") /\ Done(t)
  /\ \/ page' = "zai" /\ Fine
     \/ UNCHANGED page /\ Fail
  /\ UNCHANGED <<storeVars, jar, local, still>>

Open(t) == OpenSkips(t) \/ OpenWipes(t) \/ OpenAddsScript(t) \/ OpenGoes(t)

\* Network.clearBrowserCookies leaves the localStorage.
ResetCookies(t) ==
  /\ At(t, "reset", "clear") /\ Done(t)
  /\ \/ jar' = NoOne /\ Fine
     \/ UNCHANGED jar /\ Fail
  /\ UNCHANGED <<storeVars, local, page, still>>

\* An empty set of cookies does not replace the file.
SaveCookies(t) ==
  /\ At(t, "savejar", "file") /\ Done(t)
  /\ \/ jarfile' = Given(jar, jarfile) /\ Fine
     \/ UNCHANGED jarfile /\ Fail
  /\ UNCHANGED <<storeVars, browser, skip, restorer, requests, logins>>

\* The file's cookies are added to whatever session there is.
LoadCookies(t) ==
  /\ At(t, "loadjar", "file") /\ Done(t)
  /\ jar' = Given(jarfile, jar)
  /\ disturbed' = disturbed \cup {"jarfile"}
  /\ UNCHANGED <<storeVars, local, page, still, faults>>

Cookies(t) == ResetCookies(t) \/ SaveCookies(t) \/ LoadCookies(t)

-----------------------------------------------------------------------------
\* The process ends and is started again.  The browser's data stays.
Crash ==
  /\ Fail /\ StoreCrash
  /\ page' = "ui" /\ skip' = 0
  /\ job' = [t \in Threads |-> Idle]
  /\ restorer' = [t \in Threads |-> Off]
  /\ UNCHANGED <<jar, local, jarfile, requests, logins>>

Serve(t) == StoreCall(t) \/ Switch(t) \/ SaveCurrent(t) \/ Open(t) \/ Cookies(t)

Next ==
  \/ Crash \/ GoHome
  \/ \E a \in Accounts : LogIn(a)
  \/ \E t \in Threads : Request(t) \/ Serve(t) \/ Restore(t)

Spec == Init /\ [][Next]_vars

\* Goroutines run and commands return (EveryCallReturns of CDPConn).
FairSpec == Spec /\ \A t \in Threads : WF_vars(Serve(t))

-----------------------------------------------------------------------------
InBrowser == ({jar} \cup {local[p] : p \in Pages}) \ {NoOne}
InProfile(p) == {p.cookies, p.storage} \ {NoOne}
OneAccount(s) == Cardinality(s) <= 1
Apart(s) == \A i \in DOMAIN s.profiles : OneAccount(InProfile(s.profiles[i]))

Separate ==
  /\ OneAccount(InBrowser)
  /\ ~Busy => Apart(state) /\ Apart(file)

(* As long as requests, the restoring goroutine and the user came one after *)
(* the other, nothing failed, no cookie file was loaded and the saved      *)
(* profiles were whole, the browser never holds the logins of two          *)
(* accounts, and no profile pairs the cookies of one with the localStorage *)
(* of another: not through any sequence of switches, saves under old and   *)
(* new names, direct opens, resets, renames and deletions                  *)
(* (SwitchToProfile, wails_backend.go:1014).                               *)
AccountsApart == disturbed = {} => Separate

(* wails_backend.go:1026 says of the wipe in SwitchToProfile that it gives *)
(* the new profile a clean slate; so profiles used one after the other,    *)
(* each request when the one before has returned, stay apart.              *)
CleanSlate == disturbed \subseteq {"restorer"} => Separate

(* Every request comes to its end, whatever fails, and the mutex of the    *)
(* store is free again: no error path of save keeps it.                    *)
EveryRequestEnds == \A t \in Threads : job[t] # Idle ~> job[t] = Idle
=============================================================================
