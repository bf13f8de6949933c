--------------------------- MODULE Sessions_proof ---------------------------
(***************************************************************************)
(* The requests use the ProfileStore as its methods allow, so what is      *)
(* proved of the store alone holds of the store among the requests.        *)
(***************************************************************************)
EXTENDS Sessions, ProfileStore_proof, FiniteSetTheorems

LEMMA ThreadStep ==
  ASSUME NEW t \in Threads, Request(t) \/ Serve(t) \/ Restore(t)
  PROVE  [StoreNext]_storeVars
<1>1. CASE Request(t)
  BY <1>1 DEF Request
<1>2. CASE Restore(t)
  BY <1>2 DEF Restore, RestorerGoes, RestorerWrites, RestorerReturns, Leave
<1>3. CASE StoreCall(t)
  <2>1. CASE LoadFirst(t)
    BY <2>1 DEF LoadFirst, StoreNext
  <2>2. CASE BeginEdit(t)
    BY <2>2 DEF BeginEdit, StoreNext, Edit
  <2>3. CASE Refused(t) \/ LoadFails(t)
    BY <2>3 DEF Refused, LoadFails, StoreNext
  <2>4. CASE Save(t)
    BY <2>4 DEF Save, StoreNext
  <2>5. QED
    BY <1>3, <2>1, <2>2, <2>3, <2>4 DEF StoreCall
<1>4. CASE Switch(t)
  BY <1>4 DEF Switch, SwitchWipes, SwitchGets, SwitchSetsCookies, SwitchEnds
<1>5. CASE SaveCurrent(t)
  BY <1>5 DEF SaveCurrent, SaveSnapshots, SaveLooks, SaveGoes, SaveDumps, SaveLooksAgain,
              SaveReturns
<1>6. CASE Open(t)
  BY <1>6 DEF Open, OpenSkips, OpenWipes, OpenAddsScript, OpenGoes
<1>7. CASE Cookies(t)
  BY <1>7 DEF Cookies, ResetCookies, SaveCookies, LoadCookies
<1>8. QED
  BY <1>1, <1>2, <1>3, <1>4, <1>5, <1>6, <1>7 DEF Serve

LEMMA StoreStep == [Next]_vars => [StoreNext]_storeVars
<1> SUFFICES ASSUME [Next]_vars PROVE [StoreNext]_storeVars
  OBVIOUS
<1>1. CASE UNCHANGED vars
  BY <1>1 DEF vars
<1>2. CASE Crash
  BY <1>2 DEF Crash, StoreNext
<1>3. CASE GoHome \/ \E a \in Accounts : LogIn(a)
  BY <1>3 DEF GoHome, LogIn
<1>4. CASE \E t \in Threads : Request(t) \/ Serve(t) \/ Restore(t)
  BY <1>4, ThreadStep
<1>5. QED
  BY <1>1, <1>2, <1>3, <1>4 DEF Next

(* The store, as the requests of SwitchToProfile, SaveCurrentCookiesTo-    *)
(* Profile, Rename and Delete drive it, is a run of ProfileStore.          *)
THEOREM StoreAmongRequests == Spec => StoreSpec
<1>1. Init => StoreInit
  BY DEF Init
<1>2. QED
  BY <1>1, StoreStep, PTL DEF Spec, StoreSpec

(* Each of their calls is one step of the book of profiles.                *)
THEOREM RequestsSeeTheBook == Spec => Implements
  BY StoreAmongRequests, Refinement, PTL

(* What they find in it is sound, and what was answered is on disk.        *)
THEOREM RequestsCanRely == Spec => []StoreReliable
  BY StoreAmongRequests, Reliability, PTL

-----------------------------------------------------------------------------
(* Types: the goroutine that holds the mutex of the store is one whose     *)
(* request is in a call of the store.                                      *)

Job == [op : Ops \cup {"none"}, at : Places, who : Ids \cup {NoOne}, as : Names \cup {NoOne},
        cookies : Logins, storage : Logins, moved : BOOLEAN]

Kinds ==
  /\ jar \in Logins /\ local \in [Pages -> Logins] /\ page \in Pages
  /\ skip \in 0..2
  /\ jarfile \in Logins
  /\ job \in [Threads -> Job]
  /\ restorer \in [Threads -> [at : {"off", "go", "restore", "home"}, storage : Logins]]
  /\ disturbed \subseteq {"requests", "restorer", "fault", "jarfile", "halves"}
  /\ requests \in 0..MaxRequests /\ logins \in 0..MaxLogins /\ faults \in 0..MaxFaults

HeldByCaller == holder # NoOne => Calls(holder)

TypeInv == StoreInv /\ Kinds /\ HeldByCaller

LEMMA IdleIsJob == Idle \in Job /\ Off \in [at : {"off", "go", "restore", "home"}, storage : Logins]
BY DEF Idle, Off, Job, Places, Logins

\* Only t's request and t's restorer have moved.
Others(t) == \A u \in Threads \ {t} : job'[u] = job[u] /\ restorer'[u] = restorer[u]

LEMMA GotoFacts ==
  ASSUME job \in [Threads -> Job], NEW t \in Threads, NEW place \in Places, Goto(t, place)
  PROVE  /\ job' \in [Threads -> Job]
         /\ job'[t] = [job[t] EXCEPT !.at = place]
         /\ job'[t].at = place /\ job'[t].op = job[t].op /\ job'[t].who = job[t].who
         /\ job'[t].cookies = job[t].cookies /\ job'[t].storage = job[t].storage
         /\ \A u \in Threads \ {t} : job'[u] = job[u]
<1>1. job[t] \in Job
  OBVIOUS
<1>2. [job[t] EXCEPT !.at = place] \in Job
  BY <1>1 DEF Job
<1>3. job' = [job EXCEPT ![t] = [job[t] EXCEPT !.at = place]]
  BY DEF Goto
<1>4. job'[t] = [job[t] EXCEPT !.at = place] /\ job' \in [Threads -> Job]
      /\ \A u \in Threads \ {t} : job'[u] = job[u]
  BY <1>2, <1>3
<1>5. QED
  BY <1>1, <1>4 DEF Job

LEMMA DoneFacts ==
  ASSUME job \in [Threads -> Job], NEW t \in Threads, Done(t)
  PROVE  /\ job' \in [Threads -> Job]
         /\ job'[t] = Idle /\ job'[t].at = "idle" /\ job'[t].op = "none"
         /\ \A u \in Threads \ {t} : job'[u] = job[u]
BY IdleIsJob DEF Done, Idle

\* A step of a goroutine that is not in a call of the store.
LEMMA StillHeld ==
  ASSUME TypeInv, NEW t \in Threads, ~Calls(t), UNCHANGED storeVars,
         \A u \in Threads \ {t} : job'[u] = job[u]
  PROVE  HeldByCaller'
BY DEF TypeInv, HeldByCaller, StoreInv, StoreTypeOK, storeVars, Calls

LEMMA FaultKinds ==
  ASSUME Kinds, Fail \/ Fine
  PROVE  disturbed' \subseteq {"requests", "restorer", "fault", "jarfile", "halves"}
         /\ faults' \in 0..MaxFaults
<1>1. faults \in 0..MaxFaults /\ MaxFaults \in Nat
  BY SessionsAssumption DEF Kinds
<1>2. CASE Fine
  BY <1>2 DEF Fine, Kinds
<1>3. CASE Fail
  <2>1. faults' \in 0..MaxFaults
    BY <1>1, <1>3 DEF Fail
  <2>2. QED
    BY <1>3, <2>1 DEF Fail, Kinds
<1>4. QED
  BY <1>2, <1>3

LEMMA AfterFacts ==
  ASSUME Kinds, NEW t \in Threads, NEW error \in BOOLEAN, Calls(t), After(t, error)
  PROVE  /\ job' \in [Threads -> Job]
         /\ \A u \in Threads \ {t} : job'[u] = job[u]
<1>1. job \in [Threads -> Job] /\ {"back", "origin", "wipe"} \subseteq Places
  BY DEF Kinds, Places
<1>2. Done(t) \/ \E place \in {"back", "origin", "wipe"} : Goto(t, place)
  BY DEF After
<1>3. QED
  BY <1>1, <1>2, GotoFacts, DoneFacts

LEMMA CallKinds ==
  ASSUME TypeInv, NEW t \in Threads, StoreCall(t)
  PROVE  Kinds' /\ HeldByCaller'
<1>0. Kinds /\ StoreInv /\ state \in Store /\ Sound(state) /\ NoOne \notin Threads
  BY Constants DEF TypeInv, StoreInv, StoreTypeOK
<1>1. CASE LoadFirst(t)
  <2>1. holder' = NoOne
    BY <1>1 DEF LoadFirst, Load
  <2>2. Kinds'
    BY <1>0, <1>1 DEF LoadFirst, Kinds, browser, still
  <2>3. QED
    BY <2>1, <2>2 DEF HeldByCaller
<1>2. CASE BeginEdit(t)
  <2>1. PICK new \in Wanted(t) :
          /\ Edit(t, new)
          /\ IF job[t].at # "create" THEN UNCHANGED job
             ELSE \E i \in First(new, "name", job[t].as) :
                    job' = [job EXCEPT ![t].who = new.profiles[i].id]
    BY <1>2 DEF BeginEdit
  <2>2. holder' = t /\ new \in Store
    BY <1>0, <2>1, EditsKeepSound DEF Edit
  <2>3. job' \in [Threads -> Job] /\ job'[t].at = job[t].at
    <3>1. CASE job[t].at # "create"
      BY <1>0, <2>1, <3>1 DEF Kinds
    <3>2. CASE job[t].at = "create"
      <4>1. PICK i \in First(new, "name", job[t].as) :
              job' = [job EXCEPT ![t].who = new.profiles[i].id]
        BY <2>1, <3>2
      <4>2. new.profiles[i] \in Profile
        BY <2>2, <4>1, FirstIsPlace, ProfileFields
      <4>3. new.profiles[i].id \in Ids
        BY <4>2 DEF Profile
      <4>4. job \in [Threads -> Job] /\ job[t] \in Job
        BY <1>0 DEF Kinds
      <4>5. [job[t] EXCEPT !.who = new.profiles[i].id] \in Job
        BY <4>3, <4>4 DEF Job
      <4>6. QED
        BY <4>1, <4>4, <4>5 DEF Job
    <3>3. QED
      BY <3>1, <3>2
  <2>4. Kinds'
    BY <1>0, <1>2, <2>3 DEF BeginEdit, Kinds, browser, still
  <2>5. HeldByCaller'
    BY <1>2, <2>2, <2>3 DEF BeginEdit, HeldByCaller, Calls
  <2>6. QED
    BY <2>4, <2>5
<1>3. CASE Refused(t) \/ LoadFails(t)
  <2>1. holder' = NoOne /\ Calls(t) /\ After(t, TRUE) /\ UNCHANGED <<browser, still>>
        /\ (Fine \/ Fail)
    BY <1>3 DEF Refused, LoadFails, Refuse, Fine
  <2>2. Kinds'
    BY <1>0, <2>1, AfterFacts, FaultKinds DEF Kinds, browser, still
  <2>3. QED
    BY <2>1, <2>2 DEF HeldByCaller
<1>4. CASE Save(t)
  <2>1. holder = t /\ Calls(t)
    BY <1>0, <1>4 DEF Save, OpenTmp, WriteTmp, RenameTmp, SaveFails, TypeInv, HeldByCaller
  <2>2. CASE (OpenTmp(t) \/ WriteTmp(t)) /\ UNCHANGED job /\ Fine /\ UNCHANGED <<browser, still>>
    <3>1. holder' = t
      BY <2>1, <2>2 DEF OpenTmp, WriteTmp
    <3>2. Kinds'
      BY <1>0, <2>2 DEF Kinds, browser, still, Fine
    <3>3. QED
      BY <2>1, <2>2, <3>1, <3>2 DEF HeldByCaller, Calls
  <2>3. CASE \/ RenameTmp(t) /\ After(t, FALSE) /\ Fine /\ UNCHANGED <<browser, still>>
             \/ SaveFails(t) /\ After(t, TRUE) /\ Fail /\ UNCHANGED <<browser, still>>
    <3>1. holder' = NoOne
      BY <2>3 DEF RenameTmp, SaveFails, Return
    <3>2. Kinds'
      BY <1>0, <2>1, <2>3, AfterFacts, FaultKinds DEF Kinds, browser, still
    <3>3. QED
      BY <3>1, <3>2 DEF HeldByCaller
  <2>4. QED
    BY <1>4, <2>2, <2>3 DEF Save
<1>5. QED
  BY <1>1, <1>2, <1>3, <1>4 DEF StoreCall

LEMMA LoginKinds ==
  /\ NoOne \in Logins /\ [p \in Pages |-> NoOne] \in [Pages -> Logins]
  /\ {"ui", "zai"} = Pages
  /\ \A x, y \in Logins : Given(x, y) \in Logins
BY DEF Logins, Pages, Given

LEMMA SwitchKinds ==
  ASSUME TypeInv, NEW t \in Threads, Switch(t)
  PROVE  Kinds' /\ HeldByCaller'
<1>0. /\ Kinds /\ job \in [Threads -> Job] /\ job[t] \in Job
      /\ {"get", "cookies", "skip"} \subseteq Places
  BY DEF TypeInv, Kinds, Places
<1>1. CASE SwitchWipes(t)
  <2>1. job' \in [Threads -> Job] /\ \A u \in Threads \ {t} : job'[u] = job[u]
    BY <1>0, <1>1, GotoFacts, DoneFacts DEF SwitchWipes
  <2>2. HeldByCaller'
    BY <1>1, <2>1, StillHeld DEF SwitchWipes, At, Calls
  <2>3. jar' \in Logins /\ local' \in [Pages -> Logins] /\ page' \in Pages
    BY <1>0, <1>1, LoginKinds DEF SwitchWipes, Wipe, browser, Kinds
  <2>4. QED
    BY <1>0, <1>1, <2>1, <2>2, <2>3, FaultKinds DEF SwitchWipes, Kinds, still
<1>2. CASE SwitchGets(t)
  <2>1. job' \in [Threads -> Job] /\ \A u \in Threads \ {t} : job'[u] = job[u]
    <3>1. CASE Done(t)
      BY <1>0, <3>1, DoneFacts
    <3>2. ASSUME NEW p \in Get(state, job[t].who),
                 job' = [job EXCEPT ![t].at = "cookies", ![t].cookies = p.cookies,
                                    ![t].storage = p.storage]
          PROVE  job' \in [Threads -> Job] /\ \A u \in Threads \ {t} : job'[u] = job[u]
      <4>1. PICK i \in First(state, "id", job[t].who) : p = state.profiles[i]
        BY <3>2 DEF Get
      <4>2. p \in Profile
        BY <4>1, FirstIsPlace, ProfileFields DEF TypeInv, StoreInv, StoreTypeOK
      <4>3. p.cookies \in Logins /\ p.storage \in Logins
        BY <4>2 DEF Profile
      <4>4. [job[t] EXCEPT !.at = "cookies", !.cookies = p.cookies, !.storage = p.storage] \in Job
        BY <1>0, <4>3 DEF Job
      <4>5. job' = [job EXCEPT ![t] = [job[t] EXCEPT !.at = "cookies", !.cookies = p.cookies,
                                                     !.storage = p.storage]]
        BY <1>0, <3>2 DEF Job
      <4>6. QED
        BY <1>0, <4>4, <4>5
    <3>3. QED
      BY <1>2, <3>1, <3>2 DEF SwitchGets
  <2>2. HeldByCaller'
    BY <1>2, <2>1, StillHeld DEF SwitchGets, At, Calls
  <2>3. QED
    BY <1>0, <1>2, <2>1, <2>2 DEF SwitchGets, Kinds, browser, still
<1>3. CASE SwitchSetsCookies(t)
  <2>1. job' \in [Threads -> Job] /\ \A u \in Threads \ {t} : job'[u] = job[u]
    BY <1>0, <1>3, GotoFacts DEF SwitchSetsCookies
  <2>2. HeldByCaller'
    BY <1>3, <2>1, StillHeld DEF SwitchSetsCookies, At, Calls
  <2>3. jar' \in Logins
    BY <1>0, <1>3, LoginKinds DEF SwitchSetsCookies, Kinds, Job
  <2>4. QED
    BY <1>0, <1>3, <2>1, <2>2, <2>3, FaultKinds DEF SwitchSetsCookies, Kinds, still
<1>4. CASE SwitchEnds(t)
  <2>1. job' \in [Threads -> Job] /\ \A u \in Threads \ {t} : job'[u] = job[u]
    BY <1>0, <1>4, DoneFacts DEF SwitchEnds
  <2>2. HeldByCaller'
    BY <1>4, <2>1, StillHeld DEF SwitchEnds, At, Calls
  <2>3. skip' \in 0..2
        /\ restorer' \in [Threads -> [at : {"off", "go", "restore", "home"}, storage : Logins]]
    <3>1. [at |-> "go", storage |-> job[t].storage]
            \in [at : {"off", "go", "restore", "home"}, storage : Logins]
      BY <1>0 DEF Job
    <3>2. QED
      BY <1>0, <1>4, <3>1 DEF SwitchEnds, Kinds
  <2>4. QED
    BY <1>0, <1>4, <2>1, <2>2, <2>3 DEF SwitchEnds, Kinds, browser, counts
<1>5. QED
  BY <1>1, <1>2, <1>3, <1>4 DEF Switch

\* A step of a save, of an open or of a cookie call: to another place, with what
\* was read, or to its end.
LEMMA PlainKinds ==
  ASSUME TypeInv, NEW t \in Threads, ~Calls(t), UNCHANGED <<storeVars, restorer, requests, logins>>,
         job' \in [Threads -> Job], \A u \in Threads \ {t} : job'[u] = job[u],
         jar' \in Logins, local' \in [Pages -> Logins], page' \in Pages,
         skip' \in 0..2, jarfile' \in Logins, Fail \/ Fine
  PROVE  Kinds' /\ HeldByCaller'
<1>1. Kinds'
  BY FaultKinds DEF TypeInv, Kinds
<1>2. QED
  BY <1>1, StillHeld

LEMMA SaveKinds ==
  ASSUME TypeInv, NEW t \in Threads, SaveCurrent(t)
  PROVE  Kinds' /\ HeldByCaller'
<1>0. /\ Kinds /\ job \in [Threads -> Job] /\ job[t] \in Job
      /\ {"create", "dump", "away", "origin2", "back", "update"} \subseteq Places
      /\ jar \in Logins /\ local \in [Pages -> Logins] /\ page \in Pages
      /\ skip \in 0..2 /\ jarfile \in Logins /\ local[page] \in Logins
  BY DEF TypeInv, Kinds, Places
<1>1. /\ ~Calls(t) /\ UNCHANGED <<storeVars, skip, jarfile, restorer, requests, logins>>
      /\ UNCHANGED <<jar, local>> /\ page' \in Pages
      /\ Fail \/ Fine
  <2>1. CASE SaveSnapshots(t) \/ SaveLooks(t) \/ SaveDumps(t) \/ SaveLooksAgain(t)
    BY <1>0, <2>1 DEF SaveSnapshots, SaveLooks, SaveDumps, SaveLooksAgain, At, Calls, still, browser
  <2>2. CASE SaveGoes(t) \/ SaveReturns(t)
    BY <1>0, <2>2 DEF SaveGoes, SaveReturns, At, Calls, still, Pages
  <2>3. QED
    BY <2>1, <2>2 DEF SaveCurrent
<1>2. job' \in [Threads -> Job] /\ \A u \in Threads \ {t} : job'[u] = job[u]
  <2>1. CASE SaveSnapshots(t)
    <3>1. [job[t] EXCEPT !.at = "create", !.cookies = jar] \in Job
      BY <1>0 DEF Job
    <3>2. \/ Done(t)
          \/ job' = [job EXCEPT ![t] = [job[t] EXCEPT !.at = "create", !.cookies = jar]]
      BY <1>0, <2>1 DEF SaveSnapshots, Job
    <3>3. QED
      BY <1>0, <3>1, <3>2, DoneFacts
  <2>2. CASE SaveLooks(t)
    <3>1. [job[t] EXCEPT !.at = "away", !.moved = TRUE] \in Job
      BY <1>0 DEF Job
    <3>2. \/ Goto(t, "dump")
          \/ job' = [job EXCEPT ![t] = [job[t] EXCEPT !.at = "away", !.moved = TRUE]]
      BY <1>0, <2>2 DEF SaveLooks, Job
    <3>3. QED
      BY <1>0, <3>1, <3>2, GotoFacts
  <2>3. CASE SaveGoes(t)
    BY <1>0, <2>3, GotoFacts DEF SaveGoes
  <2>4. CASE SaveDumps(t)
    <3>1. [job[t] EXCEPT !.at = "origin2", !.storage = local[page]] \in Job
      BY <1>0 DEF Job
    <3>2. \/ Goto(t, "back")
          \/ job' = [job EXCEPT ![t] = [job[t] EXCEPT !.at = "origin2", !.storage = local[page]]]
      BY <1>0, <2>4 DEF SaveDumps, Job
    <3>3. QED
      BY <1>0, <3>1, <3>2, GotoFacts
  <2>5. CASE SaveLooksAgain(t)
    BY <1>0, <2>5, GotoFacts DEF SaveLooksAgain
  <2>6. CASE SaveReturns(t)
    BY <1>0, <2>6, DoneFacts DEF SaveReturns
  <2>7. QED
    BY <2>1, <2>2, <2>3, <2>4, <2>5, <2>6 DEF SaveCurrent
<1>3. QED
  BY <1>0, <1>1, <1>2, PlainKinds

LEMMA OpenKinds ==
  ASSUME TypeInv, NEW t \in Threads, Open(t)
  PROVE  Kinds' /\ HeldByCaller'
<1>0. /\ Kinds /\ job \in [Threads -> Job] /\ job[t] \in Job
      /\ {"script", "wipe", "go"} \subseteq Places
      /\ jar \in Logins /\ local \in [Pages -> Logins] /\ page \in Pages
      /\ skip \in 0..2 /\ jarfile \in Logins
  BY DEF TypeInv, Kinds, Places
<1>1. job' \in [Threads -> Job] /\ \A u \in Threads \ {t} : job'[u] = job[u]
  BY <1>0, GotoFacts, DoneFacts DEF Open, OpenSkips, OpenWipes, OpenAddsScript, OpenGoes
<1>2. ~Calls(t) /\ UNCHANGED <<storeVars, restorer, requests, logins>> /\ (Fail \/ Fine)
      /\ jarfile' \in Logins
  BY <1>0 DEF Open, OpenSkips, OpenWipes, OpenAddsScript, OpenGoes, At, Calls, counts, still, Fine
<1>3. skip' \in 0..2
  BY <1>0 DEF Open, OpenSkips, OpenWipes, OpenAddsScript, OpenGoes, still
<1>4. jar' \in Logins /\ local' \in [Pages -> Logins] /\ page' \in Pages
  BY <1>0, LoginKinds DEF Open, OpenSkips, OpenWipes, OpenAddsScript, OpenGoes, browser, Wipe
<1>5. QED
  BY <1>1, <1>2, <1>3, <1>4, PlainKinds

LEMMA CookiesKinds ==
  ASSUME TypeInv, NEW t \in Threads, Cookies(t)
  PROVE  Kinds' /\ HeldByCaller'
<1>0. /\ Kinds /\ job \in [Threads -> Job]
      /\ jar \in Logins /\ local \in [Pages -> Logins] /\ page \in Pages
      /\ skip \in 0..2 /\ jarfile \in Logins
  BY DEF TypeInv, Kinds
<1>1. /\ ~Calls(t) /\ UNCHANGED <<storeVars, local, page, skip, restorer, requests, logins>>
      /\ Done(t)
      /\ Fail \/ Fine \/ (disturbed' = disturbed \cup {"jarfile"} /\ UNCHANGED faults)
  BY DEF Cookies, ResetCookies, SaveCookies, LoadCookies, At, Calls, still, browser
<1>2. jar' \in Logins /\ jarfile' \in Logins
  BY <1>0, LoginKinds DEF Cookies, ResetCookies, SaveCookies, LoadCookies, still, browser
<1>3. job' \in [Threads -> Job] /\ \A u \in Threads \ {t} : job'[u] = job[u]
  BY <1>0, <1>1, DoneFacts
<1>4. CASE Fail \/ Fine
  BY <1>0, <1>1, <1>2, <1>3, <1>4, PlainKinds
<1>5. CASE disturbed' = disturbed \cup {"jarfile"} /\ UNCHANGED faults
  BY <1>0, <1>1, <1>2, <1>3, <1>5, StillHeld DEF Kinds
<1>6. QED
  BY <1>1, <1>4, <1>5

LEMMA RestoreKinds ==
  ASSUME TypeInv, NEW t \in Threads, Restore(t)
  PROVE  Kinds' /\ HeldByCaller'
<1>0. /\ Kinds /\ UNCHANGED <<storeVars, skip, jarfile, job, requests, logins, jar>>
      /\ Fail \/ Fine
  BY DEF TypeInv, Restore, RestorerGoes, RestorerWrites, RestorerReturns, Leave
<1>1. restorer[t] \in [at : {"off", "go", "restore", "home"}, storage : Logins]
  BY <1>0 DEF Kinds
<1>2. \/ restorer' = [restorer EXCEPT ![t] = Off]
      \/ \E to \in {"restore", "home"} : restorer' = [restorer EXCEPT ![t] = [restorer[t] EXCEPT !.at = to]]
  BY DEF Restore, RestorerGoes, RestorerWrites, RestorerReturns, Step
<1>3. restorer' \in [Threads -> [at : {"off", "go", "restore", "home"}, storage : Logins]]
  <2>1. \A to \in {"restore", "home"} :
          [restorer[t] EXCEPT !.at = to] \in [at : {"off", "go", "restore", "home"}, storage : Logins]
    BY <1>1
  <2>2. QED
    BY <1>0, <1>2, <2>1, IdleIsJob DEF Kinds
<1>4. local' \in [Pages -> Logins] /\ page' \in Pages
  BY <1>0, <1>1 DEF Restore, RestorerGoes, RestorerWrites, RestorerReturns, Kinds, Pages
<1>5. Kinds'
  BY <1>0, <1>3, <1>4, FaultKinds DEF Kinds
<1>6. HeldByCaller'
  BY <1>0 DEF TypeInv, HeldByCaller, Calls, storeVars
<1>7. QED
  BY <1>5, <1>6

LEMMA RequestKinds ==
  ASSUME TypeInv, NEW t \in Threads, Request(t)
  PROVE  Kinds' /\ HeldByCaller'
<1>0. Kinds /\ job[t] = Idle
  BY DEF TypeInv, Request, Free
<1>1. PICK op \in Requests, who \in Ids \cup {NoOne}, as \in Names \cup {NoOne} :
        job' = [job EXCEPT ![t] = [Idle EXCEPT !.op = op, !.at = Entry(op), !.who = who, !.as = as]]
  BY DEF Request
<1>2. op \in Ops /\ Entry(op) \in Places
  BY SessionsAssumption DEF Entry, Ops, Places
<1>3. [Idle EXCEPT !.op = op, !.at = Entry(op), !.who = who, !.as = as] \in Job
  BY <1>2, IdleIsJob DEF Idle, Job
<1>4. job' \in [Threads -> Job] /\ \A u \in Threads \ {t} : job'[u] = job[u]
  BY <1>0, <1>1, <1>3 DEF Kinds
<1>5. requests' \in 0..MaxRequests
  <2>1. requests \in Nat /\ requests' = requests + 1
        /\ (requests < MaxRequests \/ requests < MaxTogether)
    BY <1>0 DEF Request, Kinds
  <2>2. MaxRequests \in Nat /\ MaxTogether \in 0..MaxRequests
    BY SessionsAssumption
  <2>3. QED
    BY <2>1, <2>2
<1>6. disturbed' \subseteq {"requests", "restorer", "fault", "jarfile", "halves"}
  BY <1>0 DEF Request, Overlap, Kinds
<1>7. Kinds'
  BY <1>0, <1>4, <1>5, <1>6 DEF Request, Kinds, browser
<1>8. HeldByCaller'
  BY <1>0, <1>4, StillHeld DEF Request, Idle, Calls
<1>9. QED
  BY <1>7, <1>8

LEMMA UserKinds ==
  ASSUME TypeInv, GoHome \/ \E a \in Accounts : LogIn(a)
  PROVE  Kinds' /\ HeldByCaller'
<1>0. /\ Kinds /\ UNCHANGED <<storeVars, skip, jarfile, job, restorer, requests, faults>>
      /\ disturbed' = disturbed \cup Overlap
  BY DEF TypeInv, GoHome, LogIn, counts
<1>1. jar' \in Logins /\ local' \in [Pages -> Logins] /\ page' \in Pages
  BY <1>0 DEF GoHome, LogIn, Kinds, Logins, Pages
<1>2. logins' \in 0..MaxLogins
  BY <1>0, SessionsAssumption DEF GoHome, LogIn, Kinds, counts
<1>3. disturbed' \subseteq {"requests", "restorer", "fault", "jarfile", "halves"}
  BY <1>0 DEF Overlap, Kinds
<1>4. Kinds'
  BY <1>0, <1>1, <1>2, <1>3 DEF Kinds
<1>5. HeldByCaller'
  BY <1>0 DEF TypeInv, HeldByCaller, Calls, storeVars
<1>6. QED
  BY <1>4, <1>5

LEMMA CrashKinds == ASSUME TypeInv, Crash PROVE Kinds' /\ HeldByCaller'
<1>1. job' \in [Threads -> Job]
      /\ restorer' \in [Threads -> [at : {"off", "go", "restore", "home"}, storage : Logins]]
  BY IdleIsJob DEF Crash
<1>2. Kinds'
  BY <1>1, FaultKinds, LoginKinds DEF Crash, TypeInv, Kinds
<1>3. holder' = NoOne
  BY DEF Crash, StoreCrash
<1>4. QED
  BY <1>2, <1>3 DEF HeldByCaller

LEMMA TypeInit == ASSUME Init PROVE TypeInv
<1>1. StoreInv
  BY InvInit DEF Init
<1>2. Kinds
  BY IdleIsJob, LoginKinds, SessionsAssumption DEF Init, Kinds
<1>3. HeldByCaller
  BY DEF Init, StoreInit, HeldByCaller
<1>4. QED
  BY <1>1, <1>2, <1>3 DEF TypeInv

LEMMA TypeStep == ASSUME TypeInv, [Next]_vars PROVE TypeInv'
<1>0. StoreInv'
  BY StoreStep, InvNext DEF TypeInv
<1>1. ASSUME NEW t \in Threads, Request(t) \/ Serve(t) \/ Restore(t)
      PROVE  Kinds' /\ HeldByCaller'
  BY <1>1, RequestKinds, RestoreKinds, CallKinds, SwitchKinds, SaveKinds, OpenKinds, CookiesKinds
     DEF Serve
<1>2. CASE UNCHANGED vars
  <2>1. Kinds'
    BY <1>2 DEF vars, browser, counts, TypeInv, Kinds
  <2>2. HeldByCaller'
    BY <1>2 DEF vars, storeVars, TypeInv, HeldByCaller, Calls
  <2>3. QED
    BY <1>0, <2>1, <2>2 DEF TypeInv
<1>3. QED
  BY <1>0, <1>1, <1>2, UserKinds, CrashKinds DEF Next, TypeInv

LEMMA TypeAlways == Spec => []TypeInv
<1>1. QED
  BY TypeInit, TypeStep, PTL DEF Spec

(* Every variable stays in its type, and no request that has returned, or  *)
(* never came, holds the mutex of the store.                               *)
THEOREM SessionTypes == Spec => []TypeOK
<1>1. ASSUME TypeInv PROVE TypeOK
  <2>1. \A t \in Threads : job[t].at = "idle" => holder # t
    BY <1>1, Constants DEF TypeInv, HeldByCaller, Calls
  <2>2. QED
    BY <1>1, <2>1 DEF TypeInv, StoreInv, Kinds, Job, TypeOK
<1>2. QED
  BY <1>1, TypeAlways, PTL

-----------------------------------------------------------------------------
(* What the edits make of a store in which every profile is whole.         *)

LEMMA FirstExists ==
  ASSUME NEW s, Sound(s), NEW id \in IdsOf(s), s.profiles \in Seq(Profile)
  PROVE  First(s, "id", id) # {}
<1>1. PICK i \in DOMAIN s.profiles : s.profiles[i].id = id
  BY DEF IdsOf
<1>2. \A j \in 1..(i - 1) : j \in DOMAIN s.profiles /\ j # i
  BY <1>1
<1>3. \A j \in 1..(i - 1) : s.profiles[j].id # id
  BY <1>1, <1>2 DEF Sound
<1>4. i \in First(s, "id", id)
  BY <1>1, <1>3 DEF First
<1>5. QED
  BY <1>4

LEMMA ActivateWhole ==
  ASSUME NEW s \in Store, AllWhole(s), NEW id, NEW new \in Activate(s, id)
  PROVE  AllWhole(new)
<1>1. new.profiles = s.profiles
  BY DEF Activate, Store
<1>2. QED
  BY <1>1 DEF AllWhole

LEMMA RenameWhole ==
  ASSUME NEW s \in Store, AllWhole(s), NEW id, NEW name, NEW new \in Rename(s, id, name)
  PROVE  AllWhole(new)
<1>1. PICK i \in First(s, "id", id) : new = [s EXCEPT !.profiles[i].name = name]
  BY DEF Rename
<1>2. i \in DOMAIN s.profiles
  BY FirstIsPlace
<1>3. /\ DOMAIN new.profiles = DOMAIN s.profiles
      /\ \A j \in DOMAIN s.profiles :
           /\ new.profiles[j].cookies = s.profiles[j].cookies
           /\ new.profiles[j].storage = s.profiles[j].storage
  <2>1. s.profiles \in Seq(Profile) /\ \A j \in DOMAIN s.profiles : s.profiles[j] \in Profile
    BY ProfileFields DEF Store
  <2>2. new.profiles = [s.profiles EXCEPT ![i].name = name]
    BY <1>1 DEF Store
  <2>3. QED
    BY <1>2, <2>1, <2>2 DEF Profile
<1>4. QED
  BY <1>3 DEF AllWhole, Whole

LEMMA DeleteWhole ==
  ASSUME NEW s \in Store, AllWhole(s), NEW id, NEW new \in Delete(s, id)
  PROVE  AllWhole(new)
<1>1. PICK i \in First(s, "id", id) :
        new = [profiles |-> SubSeq(s.profiles, 1, i - 1) \o SubSeq(s.profiles, i + 1, Len(s.profiles)),
               active |-> IF s.active = id THEN NoOne ELSE s.active]
  BY DEF Delete
<1>2. i \in DOMAIN s.profiles /\ s.profiles \in Seq(Profile) /\ DOMAIN s.profiles = 1..Len(s.profiles)
  BY FirstIsPlace DEF Store
<1>3. \A k \in DOMAIN new.profiles : \E j \in DOMAIN s.profiles : new.profiles[k] = s.profiles[j]
  <2> DEFINE n    == Len(s.profiles)
             rest == SubSeq(s.profiles, 1, i - 1) \o SubSeq(s.profiles, i + 1, n)
  <2>1. /\ DOMAIN rest = 1..(n - 1)
        /\ \A k \in 1..(n - 1) : /\ (IF k < i THEN k ELSE k + 1) \in 1..n
                                 /\ rest[k] = s.profiles[IF k < i THEN k ELSE k + 1]
    BY <1>2, WithoutOne
  <2>2. new.profiles = rest
    BY <1>1
  <2> HIDE DEF rest
  <2>3. QED
    BY <1>2, <2>1, <2>2
<1>4. QED
  BY <1>3 DEF AllWhole

\* Create puts the cookies into the profile it returns; the others are as they were.
LEMMA CreateHalf ==
  ASSUME NEW s \in Store, Sound(s), AllWhole(s), NEW name \in Names, NEW login \in Logins,
         NEW new \in Create(s, name, login), NEW i \in First(new, "name", name)
  PROVE  /\ i \in DOMAIN new.profiles
         /\ \A j \in DOMAIN new.profiles :
              IF new.profiles[j].id = new.profiles[i].id THEN new.profiles[j].cookies = login
              ELSE Whole(new.profiles[j])
<1>1. /\ i \in DOMAIN new.profiles /\ new.profiles[i].name = name
      /\ \A j \in 1..(i - 1) : new.profiles[j].name # name
  BY DEF First
<1>2. new \in Store /\ Sound(new)
  BY CreateKeeps
<1>3. /\ s.profiles \in Seq(Profile) /\ DOMAIN s.profiles = 1..Len(s.profiles)
      /\ Len(s.profiles) \in Nat
      /\ \A j \in DOMAIN s.profiles : s.profiles[j] \in Profile
  BY ProfileFields DEF Store
<1>4. ASSUME new.profiles[i].cookies = login, \A j \in DOMAIN new.profiles \ {i} : Whole(new.profiles[j])
      PROVE  \A j \in DOMAIN new.profiles :
               IF new.profiles[j].id = new.profiles[i].id THEN new.profiles[j].cookies = login
               ELSE Whole(new.profiles[j])
  BY <1>1, <1>2, <1>4 DEF Sound
<1>5. CASE First(s, "name", name) # {}
  <2>1. PICK k \in First(s, "name", name) : new = [s EXCEPT !.profiles[k].cookies = login]
    BY <1>5 DEF Create
  <2>2. /\ k \in DOMAIN s.profiles /\ s.profiles[k].name = name
        /\ \A j \in 1..(k - 1) : s.profiles[j].name # name
    BY DEF First
  <2>3. new.profiles = [s.profiles EXCEPT ![k].cookies = login]
    BY <2>1 DEF Store
  <2>4. /\ DOMAIN new.profiles = DOMAIN s.profiles
        /\ new.profiles[k].cookies = login
        /\ \A j \in DOMAIN s.profiles : new.profiles[j].name = s.profiles[j].name
        /\ \A j \in DOMAIN s.profiles \ {k} : new.profiles[j] = s.profiles[j]
    BY <1>3, <2>2, <2>3 DEF Profile
  <2>5. i = k
    BY <1>1, <1>3, <2>2, <2>4
  <2>6. \A j \in DOMAIN new.profiles \ {i} : Whole(new.profiles[j])
    BY <2>4, <2>5 DEF AllWhole
  <2>7. QED
    BY <1>1, <1>4, <2>4, <2>5, <2>6
<1>6. CASE First(s, "name", name) = {}
  <2> DEFINE n == Len(s.profiles)
  <2>1. PICK p \in Profile : new.profiles = Append(s.profiles, p) /\ p.cookies = login
    <3>1. PICK id \in Unused(s, name) :
            new = [s EXCEPT !.profiles = Append(@, [id |-> id, name |-> name, cookies |-> login,
                                                    storage |-> NoOne])]
      BY <1>6 DEF Create
    <3>2. id \in Ids
      BY Constants DEF Unused
    <3>3. [id |-> id, name |-> name, cookies |-> login, storage |-> NoOne] \in Profile
      BY <3>2 DEF Profile, Logins
    <3>4. new.profiles = Append(s.profiles, [id |-> id, name |-> name, cookies |-> login,
                                             storage |-> NoOne])
      BY <3>1 DEF Store
    <3>5. QED
      BY <3>3, <3>4
  <2>2. /\ DOMAIN new.profiles = 1..(n + 1) /\ new.profiles[n + 1] = p
        /\ \A j \in 1..n : new.profiles[j] = s.profiles[j]
    BY <1>3, <2>1
  <2>3. i = n + 1
    <3>1. SUFFICES ASSUME i \in 1..n PROVE FALSE
      BY <1>1, <1>3, <2>2
    <3>2. s.profiles[i].name = name /\ \A j \in 1..(i - 1) : s.profiles[j].name # name
      BY <1>1, <1>3, <2>2, <3>1
    <3>3. i \in First(s, "name", name)
      BY <1>3, <3>1, <3>2 DEF First
    <3>4. QED
      BY <1>6, <3>3
  <2>4. \A j \in DOMAIN new.profiles \ {i} : Whole(new.profiles[j])
    BY <1>3, <2>2, <2>3 DEF AllWhole
  <2>5. QED
    BY <1>1, <1>4, <2>1, <2>2, <2>3, <2>4
<1>7. QED
  BY <1>5, <1>6

\* UpdateLocalStorage makes it whole.
LEMMA UpdateWhole ==
  ASSUME NEW s \in Store, Sound(s), NEW id, NEW cookies, NEW login, cookies \in {NoOne, login},
         \A j \in DOMAIN s.profiles : IF s.profiles[j].id = id THEN s.profiles[j].cookies = cookies
                                    ELSE Whole(s.profiles[j]),
         NEW new \in UpdateLocalStorage(s, id, login)
  PROVE  AllWhole(new)
<1>1. PICK i \in First(s, "id", id) : new = [s EXCEPT !.profiles[i].storage = login]
  BY DEF UpdateLocalStorage
<1>2. i \in DOMAIN s.profiles /\ s.profiles[i].id = id
  BY DEF First
<1>3. /\ DOMAIN new.profiles = DOMAIN s.profiles
      /\ new.profiles[i].cookies = s.profiles[i].cookies /\ new.profiles[i].storage = login
      /\ \A j \in DOMAIN s.profiles \ {i} : new.profiles[j] = s.profiles[j]
  <2>1. s.profiles \in Seq(Profile) /\ s.profiles[i] \in Profile
    BY <1>2, ProfileFields
  <2>2. new.profiles = [s.profiles EXCEPT ![i].storage = login]
    BY <1>1 DEF Store
  <2>3. QED
    BY <1>2, <2>1, <2>2 DEF Profile
<1>4. \A j \in DOMAIN s.profiles \ {i} : Whole(new.profiles[j])
  BY <1>2, <1>3 DEF Sound
<1>5. Whole(new.profiles[i])
  BY <1>2, <1>3 DEF Whole
<1>6. QED
  BY <1>3, <1>4, <1>5 DEF AllWhole

LEMMA AtMostOne == \A s, x : s \subseteq {x} => OneAccount(s)
<1>1. ASSUME NEW s, NEW x, s \subseteq {x} PROVE OneAccount(s)
  <2>1. IsFiniteSet({x}) /\ Cardinality({x}) = 1
    BY FS_Singleton
  <2>2. Cardinality(s) <= Cardinality({x})
    BY <1>1, <2>1, FS_Subset
  <2>3. QED
    BY <2>1, <2>2 DEF OneAccount
<1>2. QED
  BY <1>1

LEMMA WholeIsApart == ASSUME NEW s, AllWhole(s) PROVE Apart(s)
<1>1. ASSUME NEW i \in DOMAIN s.profiles PROVE OneAccount(InProfile(s.profiles[i]))
  <2>1. InProfile(s.profiles[i]) \subseteq {s.profiles[i].storage}
    BY DEF AllWhole, Whole, InProfile
  <2>2. QED
    BY <2>1, AtMostOne
<1>2. QED
  BY <1>1 DEF Apart

-----------------------------------------------------------------------------
(* Undisturbed, one goroutine t is at work at most.  What the browser      *)
(* holds, and what the profiles have, depends on how far t is.             *)

Sole(t) == \A u \in Threads \ {t} : job[u].at = "idle" /\ restorer[u].at = "off"

\* The browser was cleared, and is being filled from a profile.
Restoring(t) == restorer[t].at \in {"go", "restore"}
Filling(t) ==
  Restoring(t) \/ At(t, "switch", "get") \/ At(t, "switch", "cookies") \/ At(t, "switch", "skip")

\* The localStorage that is yet to come.
Coming(t) ==
  IF Restoring(t) THEN restorer[t].storage
  ELSE IF At(t, "switch", "skip") THEN job[t].storage ELSE NoOne

BrowserIsOnes(t) ==
  /\ local["ui"] = NoOne
  /\ IF Filling(t) THEN local["zai"] = NoOne /\ jar \in {NoOne, Coming(t)}
     ELSE jar \in {NoOne, local["zai"]}

\* A save has put the cookies into its profile, and not yet the localStorage.
Halving(t) ==
  \/ job[t].at = "create" /\ holder = t
  \/ job[t].at \in {"origin", "away", "dump", "origin2"}
  \/ job[t].at = "update" /\ holder # t

HalfOf(t) ==
  /\ job[t].who \in IdsOf(state)
  /\ \A i \in DOMAIN state.profiles :
       IF state.profiles[i].id = job[t].who THEN state.profiles[i].cookies = jar
       ELSE Whole(state.profiles[i])

ProfilesAreOnes(t) == IF Halving(t) THEN HalfOf(t) ELSE AllWhole(state)

\* What t has read is what there is.
JobIsOnes(t) ==
  /\ job[t].at = "idle" \/ restorer[t].at = "off"
  /\ restorer[t].at = "restore" => page = "zai"
  /\ At(t, "switch", "cookies") \/ At(t, "switch", "skip") => job[t].cookies \in {NoOne, job[t].storage}
  /\ job[t].at = "create" => job[t].cookies = jar
  /\ job[t].at \in {"dump", "origin2", "update"} => page = "zai"
  /\ job[t].at \in {"origin2", "update"} => job[t].storage = local["zai"]

Good(t) == Sole(t) /\ BrowserIsOnes(t) /\ ProfilesAreOnes(t) /\ JobIsOnes(t)

Rest ==
  /\ ~Busy /\ ~Restores
  /\ local["ui"] = NoOne /\ jar \in {NoOne, local["zai"]}
  /\ AllWhole(state)

OnDisk ==
  IF loaded THEN holder = NoOne => file = state
  ELSE AllWhole(file) /\ state = Nothing

Ordered == disturbed = {} => OnDisk /\ (Rest \/ \E t \in Threads : Good(t))

LEMMA Alone ==
  ASSUME TypeInv, Ordered, disturbed = {}, NEW t \in Threads,
         job[t].at # "idle" \/ restorer[t].at # "off"
  PROVE  /\ OnDisk /\ Good(t)
         /\ holder \in {NoOne, t} /\ t # NoOne
         /\ holder = t => Calls(t)
         /\ job[t] \in Job /\ state \in Store /\ Sound(state)
<1>1. OnDisk /\ \E u \in Threads : Good(u)
  BY DEF Ordered, Rest, Busy, Restores
<1>2. Good(t)
  BY <1>1 DEF Good, Sole
<1>3. holder # NoOne => holder \in Threads /\ Calls(holder)
  BY DEF TypeInv, StoreInv, StoreTypeOK, HeldByCaller
<1>4. holder \in {NoOne, t}
  BY <1>2, <1>3 DEF Good, Sole, Calls
<1>5. QED
  BY <1>1, <1>2, <1>3, <1>4, Constants DEF TypeInv, Kinds, StoreInv, StoreTypeOK

LEMMA AtRest ==
  ASSUME TypeInv, Ordered, disturbed = {}, ~Busy, ~Restores
  PROVE  OnDisk /\ Rest /\ holder = NoOne
<1>1. holder = NoOne
  BY DEF TypeInv, StoreInv, StoreTypeOK, HeldByCaller, Calls, Busy
<1>2. ASSUME NEW t \in Threads, Good(t) PROVE Rest
  <2>1. job[t].at = "idle" /\ restorer[t].at = "off"
    BY DEF Busy, Restores
  <2>2. ~Filling(t) /\ ~Halving(t)
    BY <2>1 DEF Filling, Restoring, Halving, At
  <2>3. QED
    BY <1>2, <2>2 DEF Good, BrowserIsOnes, ProfilesAreOnes, Rest
<1>3. QED
  BY <1>1, <1>2 DEF Ordered

\* Outside of a call of the store, it stays as it is.
LEMMA StoreStays ==
  ASSUME UNCHANGED storeVars, OnDisk
  PROVE  OnDisk'
BY DEF storeVars, OnDisk, AllWhole

LEMMA SoleStays ==
  ASSUME NEW t \in Threads, Sole(t), \A u \in Threads \ {t} : job'[u] = job[u] /\ restorer'[u] = restorer[u]
  PROVE  Sole(t)'
BY DEF Sole

\* A call of the store that edits: the profiles are the user's, or half of them.
LEMMA EditOrdered ==
  ASSUME TypeInv, TypeInv', Ordered, disturbed' = {}, NEW t \in Threads, BeginEdit(t)
  PROVE  Good(t)' /\ OnDisk'
<1>1. PICK new \in Wanted(t) :
        /\ Edit(t, new)
        /\ IF job[t].at # "create" THEN UNCHANGED job
           ELSE \E i \in First(new, "name", job[t].as) :
                  job' = [job EXCEPT ![t].who = new.profiles[i].id]
  BY DEF BeginEdit
<1>2. /\ disturbed = {} /\ UNCHANGED <<browser, still, disturbed>>
      /\ job[t].at \in {"activate", "create", "update", "edit"}
      /\ loaded' /\ holder = NoOne /\ holder' = t /\ state' = new
  BY <1>1 DEF BeginEdit, Calls, Edit
<1>3. /\ Good(t) /\ t # NoOne /\ job[t] \in Job /\ state \in Store /\ Sound(state)
      /\ job \in [Threads -> Job]
  BY <1>2, Alone DEF TypeInv, Kinds
<1>4. OnDisk'
  BY <1>2, <1>3 DEF OnDisk
<1>5. /\ job'[t].at = job[t].at /\ job'[t].op = job[t].op
      /\ job'[t].cookies = job[t].cookies /\ job'[t].storage = job[t].storage
      /\ job[t].at # "create" => job'[t].who = job[t].who
      /\ \A u \in Threads \ {t} : job'[u] = job[u]
  BY <1>1, <1>3 DEF Job
<1>6. Sole(t)' /\ BrowserIsOnes(t)' /\ JobIsOnes(t)'
  <2>1. Sole(t)'
    BY <1>2, <1>3, <1>5, SoleStays DEF Good, still
  <2>2. BrowserIsOnes(t)'
    BY <1>2, <1>3, <1>5 DEF Good, BrowserIsOnes, Filling, Coming, Restoring, At, still, browser
  <2>3. JobIsOnes(t)'
    BY <1>2, <1>3, <1>5 DEF Good, JobIsOnes, At, still, browser
  <2>4. QED
    BY <2>1, <2>2, <2>3
<1>7. ProfilesAreOnes(t)'
  <2>1. CASE job[t].at = "create"
    <3>1. AllWhole(state) /\ job[t].cookies = jar
      BY <1>2, <1>3, <2>1 DEF Good, ProfilesAreOnes, Halving, JobIsOnes
    <3>2. new \in Create(state, job[t].as, jar)
      BY <2>1, <3>1 DEF Wanted, At
    <3>3. job[t].as \in Names
      <4>1. PICK i \in First(new, "name", job[t].as) : TRUE
        BY <1>1, <2>1
      <4>2. new.profiles[i] \in Profile /\ new.profiles[i]["name"] = job[t].as
        BY <1>2, <4>1, FirstIsPlace, ProfileFields DEF TypeInv, StoreInv, StoreTypeOK
      <4>3. new.profiles[i].name \in Names
        BY <4>2 DEF Profile
      <4>4. QED
        BY <4>2, <4>3
    <3>4. jar \in Logins
      BY DEF TypeInv, Kinds
    <3>5. PICK i \in First(new, "name", job[t].as) : job'[t].who = new.profiles[i].id
      BY <1>1, <1>3, <2>1 DEF Job
    <3>6. /\ i \in DOMAIN new.profiles
          /\ \A j \in DOMAIN new.profiles :
               IF new.profiles[j].id = new.profiles[i].id THEN new.profiles[j].cookies = jar
               ELSE Whole(new.profiles[j])
      BY <1>3, <3>1, <3>2, <3>3, <3>4, CreateHalf
    <3>7. HalfOf(t)'
      BY <1>2, <3>5, <3>6 DEF HalfOf, IdsOf, browser, Whole
    <3>8. QED
      BY <1>2, <1>5, <2>1, <3>7 DEF ProfilesAreOnes, Halving
  <2>2. CASE job[t].at = "update"
    <3>1. HalfOf(t) /\ job[t].storage = local["zai"] /\ jar \in {NoOne, local["zai"]}
      BY <1>2, <1>3, <2>2
         DEF Good, ProfilesAreOnes, Halving, JobIsOnes, BrowserIsOnes, Filling, Restoring, At
    <3>2. new \in UpdateLocalStorage(state, job[t].who, job[t].storage)
      BY <2>2 DEF Wanted, At
    <3>3. AllWhole(new)
      <4>1. jar \in {NoOne, job[t].storage}
        BY <3>1
      <4>2. \A j \in DOMAIN state.profiles :
              IF state.profiles[j].id = job[t].who THEN state.profiles[j].cookies = jar
              ELSE Whole(state.profiles[j])
        BY <3>1 DEF HalfOf
      <4>3. state \in Store /\ Sound(state)
        BY <1>3
      <4>4. QED
        BY <3>2, <4>1, <4>2, <4>3, UpdateWhole
    <3>4. QED
      BY <1>2, <1>3, <1>5, <2>2, <3>3 DEF ProfilesAreOnes, Halving, AllWhole
  <2>3. CASE job[t].at \in {"activate", "edit"}
    <3>1. AllWhole(state)
      BY <1>2, <1>3, <2>3 DEF Good, ProfilesAreOnes, Halving
    <3>2. \/ new \in Activate(state, job[t].who)
          \/ new \in Rename(state, job[t].who, job[t].as)
          \/ new \in Delete(state, job[t].who)
      BY <2>3 DEF Wanted, At
    <3>3. AllWhole(new)
      BY <1>3, <3>1, <3>2, ActivateWhole, RenameWhole, DeleteWhole
    <3>4. QED
      BY <1>2, <1>5, <2>3, <3>3 DEF ProfilesAreOnes, Halving, AllWhole
  <2>4. QED
    BY <1>2, <2>1, <2>2, <2>3
<1>8. QED
  BY <1>4, <1>6, <1>7 DEF Good

LEMMA CallOrdered ==
  ASSUME TypeInv, TypeInv', Ordered, disturbed' = {}, NEW t \in Threads, StoreCall(t)
  PROVE  Good(t)' /\ OnDisk'
<1>1. CASE BeginEdit(t)
  BY <1>1, EditOrdered
<1>2. CASE LoadFirst(t)
  <2>1. /\ disturbed = {} /\ job[t].at # "idle" /\ UNCHANGED <<browser, job, restorer, holder, file>>
        /\ ~loaded /\ loaded' /\ state' = file
    BY <1>2 DEF LoadFirst, Load, Calls, still
  <2>2. Good(t) /\ AllWhole(file) /\ state = Nothing
    BY <2>1, Alone DEF OnDisk
  <2>3. ~HalfOf(t)
    BY <2>2 DEF HalfOf, IdsOf, Nothing
  <2>4. ~Halving(t)
    BY <2>2, <2>3 DEF Good, ProfilesAreOnes
  <2>5. ProfilesAreOnes(t)'
    BY <2>1, <2>2, <2>4 DEF ProfilesAreOnes, Halving, AllWhole
  <2>6. Sole(t)' /\ BrowserIsOnes(t)' /\ JobIsOnes(t)'
    BY <2>1, <2>2 DEF Good, Sole, BrowserIsOnes, JobIsOnes, Filling, Coming, Restoring, At, browser
  <2>7. QED
    BY <2>1, <2>5, <2>6 DEF Good, OnDisk
<1>3. CASE Refused(t)
  <2>1. /\ disturbed = {} /\ Calls(t) /\ UNCHANGED <<browser, restorer, state, loaded, file>>
        /\ holder = NoOne /\ holder' = NoOne /\ Wanted(t) = {} /\ After(t, TRUE)
    BY <1>3 DEF Refused, Refuse, still
  <2>2. Good(t) /\ OnDisk /\ state \in Store /\ Sound(state) /\ t # NoOne /\ job \in [Threads -> Job]
    BY <2>1, Alone DEF Calls, TypeInv, Kinds
  <2>3. job[t].at # "update"
    <3>1. SUFFICES ASSUME job[t].at = "update" PROVE FALSE
      OBVIOUS
    <3>2. job[t].who \in IdsOf(state)
      BY <2>1, <2>2, <3>1 DEF Good, ProfilesAreOnes, Halving, HalfOf
    <3>3. First(state, "id", job[t].who) # {}
      BY <2>2, <3>2, FirstExists DEF Store
    <3>4. Wanted(t) # {}
      BY <3>1, <3>3 DEF Wanted, At, UpdateLocalStorage
    <3>5. QED
      BY <2>1, <3>4
  <2>4. Done(t) /\ ~Halving(t) /\ ~Filling(t) /\ restorer[t].at = "off"
    BY <2>1, <2>2, <2>3 DEF After, Calls, Halving, Filling, Restoring, At, Good, JobIsOnes
  <2>5. job'[t].at = "idle" /\ \A u \in Threads \ {t} : job'[u] = job[u]
    BY <2>2, <2>4, DoneFacts
  <2>6. ~Halving(t)' /\ ~Filling(t)' /\ JobIsOnes(t)'
    BY <2>1, <2>4, <2>5 DEF Halving, Filling, Restoring, At, JobIsOnes
  <2>7. Sole(t)'
    BY <2>1, <2>2, <2>5, SoleStays DEF Good
  <2>8. BrowserIsOnes(t)' /\ ProfilesAreOnes(t)'
    BY <2>1, <2>2, <2>4, <2>6 DEF Good, BrowserIsOnes, ProfilesAreOnes, browser, AllWhole
  <2>9. QED
    BY <2>1, <2>2, <2>6, <2>7, <2>8 DEF Good, OnDisk
<1>4. CASE LoadFails(t)
  BY <1>4 DEF LoadFails, Fail
<1>5. CASE (OpenTmp(t) \/ WriteTmp(t)) /\ UNCHANGED job /\ Fine /\ UNCHANGED <<browser, still>>
  <2>1. /\ disturbed = {} /\ UNCHANGED <<browser, restorer, job, state, loaded, file, holder>>
        /\ holder = t
    BY <1>5 DEF OpenTmp, WriteTmp, still, Fine
  <2>2. Calls(t)
    BY <2>1, Constants DEF TypeInv, HeldByCaller
  <2>3. Good(t) /\ OnDisk
    BY <2>1, <2>2, Alone DEF Calls
  <2>4. OnDisk'
    BY <2>1, <2>3 DEF OnDisk
  <2>5. QED
    BY <2>1, <2>3, <2>4
       DEF Good, Sole, BrowserIsOnes, ProfilesAreOnes, JobIsOnes, Filling, Coming, Restoring, Halving,
           HalfOf, AllWhole, At, browser
<1>6. CASE RenameTmp(t) /\ After(t, FALSE) /\ Fine /\ UNCHANGED <<browser, still>>
  <2>1. /\ disturbed = {} /\ UNCHANGED <<browser, restorer, state, loaded>>
        /\ holder = t /\ holder' = NoOne /\ file' = state
    BY <1>6 DEF RenameTmp, Return, still, Fine, TypeInv, StoreInv
  <2>2. Calls(t) /\ loaded
    BY <2>1, Constants DEF TypeInv, HeldByCaller, StoreInv
  <2>3. Good(t) /\ t # NoOne /\ job \in [Threads -> Job] /\ {"back", "origin", "wipe"} \subseteq Places
        /\ restorer[t].at = "off"
    BY <2>1, <2>2, Alone DEF Calls, TypeInv, Kinds, Places, Good, JobIsOnes
  <2>4. OnDisk'
    BY <2>1, <2>2 DEF OnDisk
  <2>5. /\ job'[t].at \in {"back", "wipe", "idle", "origin"}
        /\ job'[t].at = "origin" => job[t].at = "create" /\ job'[t].who = job[t].who
        /\ job'[t].at # "origin" => job[t].at # "create"
        /\ \A u \in Threads \ {t} : job'[u] = job[u]
    <3>1. CASE job[t].at = "update"
      BY <1>6, <2>3, <3>1, GotoFacts DEF After
    <3>2. CASE job[t].at = "create"
      BY <1>6, <2>3, <3>2, GotoFacts DEF After
    <3>3. CASE job[t].at = "edit"
      BY <1>6, <2>3, <3>3, DoneFacts DEF After
    <3>4. CASE job[t].at = "activate"
      BY <1>6, <2>3, <3>4, GotoFacts DEF After
    <3>5. QED
      BY <2>2, <3>1, <3>2, <3>3, <3>4 DEF Calls
  <2>6. ~Filling(t) /\ ~Filling(t)' /\ JobIsOnes(t)'
    BY <2>1, <2>2, <2>3, <2>5 DEF Filling, Restoring, At, Calls, JobIsOnes
  <2>7. BrowserIsOnes(t)' /\ Sole(t)'
    BY <2>1, <2>3, <2>5, <2>6, SoleStays DEF Good, BrowserIsOnes, browser
  <2>8. ProfilesAreOnes(t)'
    <3>1. CASE job[t].at = "create"
      <4>1. HalfOf(t) /\ job'[t].at = "origin" /\ job'[t].who = job[t].who
        BY <2>1, <2>3, <2>5, <3>1 DEF Good, ProfilesAreOnes, Halving
      <4>2. HalfOf(t)'
        BY <2>1, <4>1 DEF HalfOf, browser
      <4>3. QED
        BY <4>1, <4>2 DEF ProfilesAreOnes, Halving
    <3>2. CASE job[t].at # "create"
      <4>1. ~Halving(t) /\ ~Halving(t)'
        BY <2>1, <2>2, <2>5, <3>2 DEF Halving, Calls
      <4>2. QED
        BY <2>1, <2>3, <4>1 DEF Good, ProfilesAreOnes, AllWhole
    <3>3. QED
      BY <3>1, <3>2
  <2>9. QED
    BY <2>4, <2>6, <2>7, <2>8 DEF Good
<1>7. CASE SaveFails(t) /\ After(t, TRUE) /\ Fail /\ UNCHANGED <<browser, still>>
  BY <1>7 DEF Fail
<1>8. QED
  BY <1>1, <1>2, <1>3, <1>4, <1>5, <1>6, <1>7 DEF StoreCall, Save

LEMMA SwitchOrdered ==
  ASSUME TypeInv, Ordered, disturbed' = {}, NEW t \in Threads, Switch(t)
  PROVE  Good(t)' /\ OnDisk'
<1>0. /\ disturbed = {} /\ Fine /\ UNCHANGED <<storeVars, page>>
      /\ job[t].op = "switch" /\ job[t].at \in {"wipe", "get", "cookies", "skip"}
  BY DEF Switch, SwitchWipes, SwitchGets, SwitchSetsCookies, SwitchEnds, At, Fail, Fine, browser, counts
<1>1. /\ Good(t) /\ OnDisk /\ job[t] \in Job /\ job \in [Threads -> Job]
      /\ restorer[t].at = "off" /\ AllWhole(state) /\ local["ui"] = NoOne
      /\ {"get", "cookies", "skip"} \subseteq Places
  BY <1>0, Alone DEF Good, JobIsOnes, ProfilesAreOnes, Halving, BrowserIsOnes, TypeInv, Kinds, Places
<1>2. OnDisk'
  BY <1>0, <1>1, StoreStays
<1>3. CASE SwitchWipes(t)
  <2>1. /\ jar' = NoOne /\ local'["ui"] = NoOne /\ local'["zai"] = NoOne
        /\ UNCHANGED restorer
        /\ Done(t) \/ Goto(t, "get")
    BY <1>0, <1>3 DEF SwitchWipes, Wipe, Fail, Fine, still, Pages
  <2>2. /\ job'[t].at \in {"idle", "get"}
        /\ \A u \in Threads \ {t} : job'[u] = job[u]
    BY <1>1, <2>1, GotoFacts, DoneFacts
  <2>3. Sole(t)' /\ BrowserIsOnes(t)' /\ ProfilesAreOnes(t)' /\ JobIsOnes(t)'
    BY <1>0, <1>1, <2>1, <2>2
       DEF Good, Sole, BrowserIsOnes, ProfilesAreOnes, JobIsOnes, Halving, AllWhole, At, storeVars
  <2>4. QED
    BY <1>2, <2>3 DEF Good
<1>4. CASE SwitchGets(t)
  <2>1. jar = NoOne /\ local["zai"] = NoOne /\ UNCHANGED <<jar, local, restorer>>
    BY <1>1, <1>4 DEF SwitchGets, Good, BrowserIsOnes, Filling, Coming, Restoring, At, browser, still
  <2>2. /\ job'[t].at \in {"idle", "cookies"}
        /\ job'[t].at = "cookies" => job'[t].cookies \in {NoOne, job'[t].storage}
        /\ \A u \in Threads \ {t} : job'[u] = job[u]
    <3>1. CASE Done(t)
      BY <1>1, <3>1, DoneFacts
    <3>2. ASSUME NEW p \in Get(state, job[t].who),
                 job' = [job EXCEPT ![t].at = "cookies", ![t].cookies = p.cookies,
                                    ![t].storage = p.storage]
          PROVE  /\ job'[t].at = "cookies" /\ job'[t].cookies \in {NoOne, job'[t].storage}
                 /\ \A u \in Threads \ {t} : job'[u] = job[u]
      <4>1. PICK i \in First(state, "id", job[t].who) : p = state.profiles[i]
        BY <3>2 DEF Get
      <4>2. p.cookies \in {NoOne, p.storage}
        BY <1>1, <4>1, FirstIsPlace DEF AllWhole, Whole
      <4>3. job'[t] = [job[t] EXCEPT !.at = "cookies", !.cookies = p.cookies, !.storage = p.storage]
            /\ \A u \in Threads \ {t} : job'[u] = job[u]
        BY <1>1, <3>2 DEF Job
      <4>4. QED
        BY <1>1, <4>2, <4>3 DEF Job
    <3>3. QED
      BY <1>4, <3>1, <3>2 DEF SwitchGets
  <2>3. Sole(t)' /\ BrowserIsOnes(t)' /\ ProfilesAreOnes(t)' /\ JobIsOnes(t)'
    BY <1>0, <1>1, <2>1, <2>2
       DEF Good, Sole, BrowserIsOnes, ProfilesAreOnes, JobIsOnes, Halving, AllWhole, At, storeVars
  <2>4. QED
    BY <1>2, <2>3 DEF Good
<1>5. CASE SwitchSetsCookies(t)
  <2>1. /\ jar = NoOne /\ local["zai"] = NoOne /\ UNCHANGED <<local, restorer>>
        /\ job[t].cookies \in {NoOne, job[t].storage}
        /\ jar' = Given(job[t].cookies, jar)
        /\ Goto(t, "skip")
    BY <1>0, <1>1, <1>5 DEF SwitchSetsCookies, Good, BrowserIsOnes, JobIsOnes, Filling, Coming, Restoring,
                            At, still, Fail, Fine
  <2>2. /\ job'[t].at = "skip" /\ job'[t].op = "switch" /\ job'[t].storage = job[t].storage
        /\ job'[t].cookies = job[t].cookies
        /\ \A u \in Threads \ {t} : job'[u] = job[u]
    BY <1>0, <1>1, <2>1, GotoFacts
  <2>3. jar' \in {NoOne, job'[t].storage}
    BY <2>1, <2>2 DEF Given
  <2>4. Filling(t)' /\ Coming(t)' = job'[t].storage
    BY <1>1, <2>1, <2>2 DEF Filling, Coming, Restoring, At
  <2>5. Sole(t)' /\ BrowserIsOnes(t)' /\ ProfilesAreOnes(t)' /\ JobIsOnes(t)'
    BY <1>0, <1>1, <2>1, <2>2, <2>3, <2>4
       DEF Good, Sole, BrowserIsOnes, ProfilesAreOnes, JobIsOnes, Halving, AllWhole, At, storeVars
  <2>6. QED
    BY <1>2, <2>5 DEF Good
<1>6. CASE SwitchEnds(t)
  <2>1. /\ jar \in {NoOne, job[t].storage} /\ local["zai"] = NoOne /\ UNCHANGED <<jar, local>>
        /\ restorer' = IF job[t].storage = NoOne THEN restorer
                       ELSE [restorer EXCEPT ![t] = [at |-> "go", storage |-> job[t].storage]]
        /\ Done(t)
        /\ restorer \in [Threads -> [at : {"off", "go", "restore", "home"}, storage : Logins]]
    BY <1>1, <1>6 DEF SwitchEnds, Good, BrowserIsOnes, Filling, Coming, Restoring, At, browser,
                      TypeInv, Kinds
  <2>2. job'[t].at = "idle" /\ \A u \in Threads \ {t} : job'[u] = job[u]
    BY <1>1, <2>1, DoneFacts
  <2>3. /\ \A u \in Threads \ {t} : restorer'[u] = restorer[u]
        /\ \/ job[t].storage = NoOne /\ restorer'[t].at = "off"
           \/ restorer'[t].at = "go" /\ restorer'[t].storage = job[t].storage
    BY <1>1, <2>1
  <2>4. Sole(t)'
    BY <1>1, <2>2, <2>3, SoleStays DEF Good
  <2>5. BrowserIsOnes(t)'
    BY <1>1, <2>1, <2>2, <2>3 DEF BrowserIsOnes, Filling, Coming, Restoring, At
  <2>6. ProfilesAreOnes(t)' /\ JobIsOnes(t)'
    BY <1>0, <1>1, <2>2, <2>3 DEF ProfilesAreOnes, JobIsOnes, Halving, AllWhole, At, storeVars
  <2>7. QED
    BY <1>2, <2>4, <2>5, <2>6 DEF Good
<1>7. QED
  BY <1>3, <1>4, <1>5, <1>6 DEF Switch

LEMMA RestoreOrdered ==
  ASSUME TypeInv, Ordered, disturbed' = {}, NEW t \in Threads, Restore(t)
  PROVE  Good(t)' /\ OnDisk'
<1>0. /\ disturbed = {} /\ Fine /\ UNCHANGED <<storeVars, skip, jarfile, job, requests, logins, jar>>
      /\ restorer[t].at \in {"go", "restore", "home"}
  BY DEF Restore, RestorerGoes, RestorerWrites, RestorerReturns, Step, Leave, Fail, Fine
<1>1. /\ Good(t) /\ OnDisk /\ job[t].at = "idle" /\ AllWhole(state) /\ local["ui"] = NoOne
      /\ restorer \in [Threads -> [at : {"off", "go", "restore", "home"}, storage : Logins]]
      /\ local \in [Pages -> Logins]
  BY <1>0, Alone DEF Good, JobIsOnes, ProfilesAreOnes, Halving, BrowserIsOnes, TypeInv, Kinds
<1>2. OnDisk'
  BY <1>0, <1>1, StoreStays
<1>3. ProfilesAreOnes(t)'
  BY <1>0, <1>1 DEF ProfilesAreOnes, Halving, AllWhole, storeVars
<1>4. ~At(t, "switch", "get") /\ ~At(t, "switch", "cookies") /\ ~At(t, "switch", "skip")
      /\ ~At(t, "switch", "get")' /\ ~At(t, "switch", "cookies")' /\ ~At(t, "switch", "skip")'
  BY <1>0, <1>1 DEF At
<1>5. CASE RestorerGoes(t)
  <2>1. /\ page' = "zai" /\ UNCHANGED <<jar, local>> /\ restorer[t].at = "go"
        /\ restorer' = [restorer EXCEPT ![t].at = "restore"]
    BY <1>0, <1>5 DEF RestorerGoes, Step, Fail, Fine
  <2>2. /\ restorer'[t].at = "restore" /\ restorer'[t].storage = restorer[t].storage
        /\ \A u \in Threads \ {t} : restorer'[u] = restorer[u]
    BY <1>1, <2>1
  <2>3. BrowserIsOnes(t)'
    BY <1>1, <1>4, <2>1, <2>2 DEF Good, BrowserIsOnes, Filling, Coming, Restoring
  <2>4. Sole(t)' /\ JobIsOnes(t)'
    BY <1>0, <1>1, <1>4, <2>1, <2>2, SoleStays DEF Good, JobIsOnes
  <2>5. QED
    BY <1>2, <1>3, <2>3, <2>4 DEF Good
<1>6. CASE RestorerWrites(t)
  <2>1. /\ page = "zai" /\ local' = [local EXCEPT !["zai"] = restorer[t].storage]
        /\ restorer[t].at = "restore" /\ jar \in {NoOne, restorer[t].storage}
        /\ restorer' = [restorer EXCEPT ![t].at = "home"]
    BY <1>0, <1>1, <1>6 DEF RestorerWrites, Step, Fail, Fine, Good, JobIsOnes, BrowserIsOnes, Filling,
                            Coming, Restoring
  <2>2. /\ restorer'[t].at = "home"
        /\ \A u \in Threads \ {t} : restorer'[u] = restorer[u]
    BY <1>1, <2>1
  <2>3. local'["zai"] = restorer[t].storage /\ local'["ui"] = NoOne
    BY <1>1, <2>1 DEF Pages
  <2>4. BrowserIsOnes(t)'
    BY <1>0, <1>4, <2>1, <2>2, <2>3 DEF BrowserIsOnes, Filling, Coming, Restoring
  <2>5. Sole(t)' /\ JobIsOnes(t)'
    BY <1>0, <1>1, <1>4, <2>2, SoleStays DEF Good, JobIsOnes
  <2>6. QED
    BY <1>2, <1>3, <2>4, <2>5 DEF Good
<1>7. CASE RestorerReturns(t)
  <2>1. /\ UNCHANGED <<jar, local>> /\ restorer[t].at = "home"
        /\ restorer' = [restorer EXCEPT ![t] = Off]
    BY <1>0, <1>7 DEF RestorerReturns, Fail, Fine
  <2>2. /\ restorer'[t].at = "off"
        /\ \A u \in Threads \ {t} : restorer'[u] = restorer[u]
    BY <1>1, <2>1 DEF Off
  <2>3. BrowserIsOnes(t)'
    BY <1>1, <1>4, <2>1, <2>2 DEF Good, BrowserIsOnes, Filling, Restoring
  <2>4. Sole(t)' /\ JobIsOnes(t)'
    BY <1>0, <1>1, <1>4, <2>2, SoleStays DEF Good, JobIsOnes
  <2>5. QED
    BY <1>2, <1>3, <2>3, <2>4 DEF Good
<1>8. QED
  BY <1>5, <1>6, <1>7 DEF Restore

\* The steps of a save, of an open and of a cookie call do not fill the browser.
LEMMA KeepsFilled ==
  ASSUME NEW t \in Threads, Good(t), restorer[t].at = "off", UNCHANGED restorer,
         job[t].op # "switch", job'[t].op # "switch",
         \A u \in Threads \ {t} : job'[u] = job[u],
         \/ UNCHANGED <<jar, local>>
         \/ jar' = NoOne /\ (UNCHANGED local \/ Wipe)
  PROVE  Sole(t)' /\ BrowserIsOnes(t)'
<1>1. Sole(t)'
  BY SoleStays DEF Good
<1>2. ~Filling(t) /\ ~Filling(t)'
  BY DEF Filling, Restoring, At
<1>3. QED
  BY <1>1, <1>2 DEF Good, BrowserIsOnes, Wipe, Pages

LEMMA SaveOrdered ==
  ASSUME TypeInv, Ordered, disturbed' = {}, NEW t \in Threads, SaveCurrent(t)
  PROVE  Good(t)' /\ OnDisk'
<1>0. /\ disturbed = {} /\ Fine /\ UNCHANGED <<storeVars, jar, local, restorer>>
      /\ job[t].op = "save"
      /\ job[t].at \in {"snapshot", "origin", "away", "dump", "origin2", "back"}
  BY DEF SaveCurrent, SaveSnapshots, SaveLooks, SaveGoes, SaveDumps, SaveLooksAgain, SaveReturns,
         At, Fail, Fine, browser, still
<1>1. /\ Good(t) /\ OnDisk /\ job[t] \in Job /\ job \in [Threads -> Job] /\ page \in Pages
      /\ restorer[t].at = "off" /\ holder = NoOne /\ t # NoOne
      /\ {"create", "dump", "away", "origin2", "back", "update"} \subseteq Places
  BY <1>0, Alone DEF Good, JobIsOnes, TypeInv, Kinds, Places, Calls
<1>2. OnDisk'
  BY <1>0, <1>1, StoreStays
<1>3. jar \in {NoOne, local["zai"]}
  BY <1>0, <1>1 DEF Good, BrowserIsOnes, Filling, Restoring, At
<1>4. ASSUME job'[t].op # "switch", \A u \in Threads \ {t} : job'[u] = job[u],
             ProfilesAreOnes(t)', JobIsOnes(t)'
      PROVE  Good(t)' /\ OnDisk'
  BY <1>0, <1>1, <1>2, <1>4, KeepsFilled DEF Good
<1>5. ASSUME HalfOf(t), job'[t].who = job[t].who PROVE HalfOf(t)'
  BY <1>0, <1>5 DEF HalfOf, storeVars
<1>6. AllWhole(state) => AllWhole(state)'
  BY <1>0 DEF storeVars, AllWhole
<1>7. CASE SaveSnapshots(t)
  <2>1. job' = [job EXCEPT ![t].at = "create", ![t].cookies = jar]
    BY <1>0, <1>7 DEF SaveSnapshots, Fail, Fine
  <2>2. /\ job'[t].at = "create" /\ job'[t].op = "save" /\ job'[t].cookies = jar
        /\ \A u \in Threads \ {t} : job'[u] = job[u]
    BY <1>0, <1>1, <2>1 DEF Job
  <2>3. AllWhole(state)
    BY <1>1, <1>7 DEF SaveSnapshots, At, Good, ProfilesAreOnes, Halving
  <2>4. ProfilesAreOnes(t)' /\ JobIsOnes(t)'
    BY <1>0, <1>1, <1>6, <2>2, <2>3 DEF ProfilesAreOnes, Halving, JobIsOnes, At, storeVars
  <2>5. QED
    BY <1>4, <2>2, <2>4
<1>8. CASE SaveLooks(t)
  <2>1. \/ page = "ui" /\ job' = [job EXCEPT ![t].at = "away", ![t].moved = TRUE]
        \/ page = "zai" /\ Goto(t, "dump")
    BY <1>0, <1>1, <1>8 DEF SaveLooks, Fail, Fine, Pages
  <2>2. /\ job'[t].op = "save" /\ job'[t].who = job[t].who
        /\ job'[t].at = "away" \/ (job'[t].at = "dump" /\ page = "zai")
        /\ \A u \in Threads \ {t} : job'[u] = job[u]
    <3>1. CASE page = "ui" /\ job' = [job EXCEPT ![t].at = "away", ![t].moved = TRUE]
      BY <1>0, <1>1, <3>1 DEF Job
    <3>2. CASE page = "zai" /\ Goto(t, "dump")
      BY <1>0, <1>1, <3>2, GotoFacts
    <3>3. QED
      BY <2>1, <3>1, <3>2
  <2>3. HalfOf(t)
    BY <1>1, <1>8 DEF SaveLooks, At, Good, ProfilesAreOnes, Halving
  <2>4. HalfOf(t)' /\ UNCHANGED page
    BY <1>5, <1>8, <2>2, <2>3 DEF SaveLooks, browser
  <2>5. ProfilesAreOnes(t)' /\ JobIsOnes(t)'
    BY <1>0, <1>1, <2>2, <2>4 DEF ProfilesAreOnes, Halving, JobIsOnes, At
  <2>6. QED
    BY <1>4, <2>2, <2>5
<1>9. CASE SaveGoes(t)
  <2>1. /\ job'[t].op = "save" /\ job'[t].who = job[t].who /\ job'[t].at = "dump"
        /\ \A u \in Threads \ {t} : job'[u] = job[u]
        /\ page' = "zai"
    BY <1>0, <1>1, <1>9, GotoFacts DEF SaveGoes, Fail, Fine
  <2>2. HalfOf(t)
    BY <1>1, <1>9 DEF SaveGoes, At, Good, ProfilesAreOnes, Halving
  <2>3. ProfilesAreOnes(t)' /\ JobIsOnes(t)'
    BY <1>0, <1>1, <1>5, <2>1, <2>2 DEF ProfilesAreOnes, Halving, JobIsOnes, At
  <2>4. QED
    BY <1>4, <2>1, <2>3
<1>10. CASE SaveDumps(t)
  <2>1. page = "zai" /\ HalfOf(t) /\ UNCHANGED page
    BY <1>1, <1>10 DEF SaveDumps, At, Good, ProfilesAreOnes, Halving, JobIsOnes, browser
  <2>2. CASE job' = [job EXCEPT ![t].at = "origin2", ![t].storage = local[page]]
    <3>1. /\ job'[t].op = "save" /\ job'[t].who = job[t].who /\ job'[t].at = "origin2"
          /\ job'[t].storage = local["zai"]
          /\ \A u \in Threads \ {t} : job'[u] = job[u]
      BY <1>0, <1>1, <2>1, <2>2 DEF Job
    <3>2. ProfilesAreOnes(t)' /\ JobIsOnes(t)'
      BY <1>0, <1>1, <1>5, <2>1, <3>1 DEF ProfilesAreOnes, Halving, JobIsOnes, At
    <3>3. QED
      BY <1>4, <3>1, <3>2
  <2>3. CASE local[page] = NoOne /\ Goto(t, "back")
    <3>1. /\ job'[t].op = "save" /\ job'[t].at = "back"
          /\ \A u \in Threads \ {t} : job'[u] = job[u]
      BY <1>0, <1>1, <2>3, GotoFacts
    <3>2. jar = NoOne
      BY <1>3, <2>1, <2>3
    <3>3. AllWhole(state)
      BY <2>1, <3>2 DEF HalfOf, AllWhole, Whole
    <3>4. ProfilesAreOnes(t)' /\ JobIsOnes(t)'
      BY <1>0, <1>1, <1>6, <3>1, <3>3 DEF ProfilesAreOnes, Halving, JobIsOnes, At
    <3>5. QED
      BY <1>4, <3>1, <3>4
  <2>4. QED
    BY <1>0, <1>10, <2>2, <2>3 DEF SaveDumps, Fail, Fine
<1>11. CASE SaveLooksAgain(t)
  <2>1. /\ page = "zai" /\ HalfOf(t) /\ UNCHANGED page /\ job[t].storage = local["zai"]
        /\ job[t].at = "origin2"
    BY <1>1, <1>11 DEF SaveLooksAgain, At, Good, ProfilesAreOnes, Halving, JobIsOnes, browser
  <2>2. /\ job'[t].op = "save" /\ job'[t].who = job[t].who /\ job'[t].at = "update"
        /\ job'[t].storage = local["zai"]
        /\ \A u \in Threads \ {t} : job'[u] = job[u]
    <3>1. Goto(t, "update")
      BY <1>0, <1>11, <2>1 DEF SaveLooksAgain, Fail, Fine
    <3>2. QED
      BY <1>0, <1>1, <2>1, <3>1, GotoFacts
  <2>3. ProfilesAreOnes(t)' /\ JobIsOnes(t)'
    BY <1>0, <1>1, <1>5, <2>1, <2>2 DEF ProfilesAreOnes, Halving, JobIsOnes, At, storeVars
  <2>4. QED
    BY <1>4, <2>2, <2>3
<1>12. CASE SaveReturns(t)
  <2>1. AllWhole(state)
    BY <1>1, <1>12 DEF SaveReturns, At, Good, ProfilesAreOnes, Halving
  <2>2. job'[t].at = "idle" /\ job'[t].op = "none" /\ \A u \in Threads \ {t} : job'[u] = job[u]
    BY <1>1, <1>12, DoneFacts DEF SaveReturns
  <2>3. ProfilesAreOnes(t)' /\ JobIsOnes(t)'
    BY <1>0, <1>1, <1>6, <2>1, <2>2 DEF ProfilesAreOnes, Halving, JobIsOnes, At
  <2>4. QED
    BY <1>4, <2>2, <2>3
<1>13. QED
  BY <1>7, <1>8, <1>9, <1>10, <1>11, <1>12 DEF SaveCurrent

LEMMA OpenOrdered ==
  ASSUME TypeInv, Ordered, disturbed' = {}, NEW t \in Threads, Open(t) \/ Cookies(t)
  PROVE  Good(t)' /\ OnDisk'
<1>0. /\ disturbed = {} /\ Fine /\ UNCHANGED <<storeVars, restorer>>
      /\ job[t].op \in {"open", "reset", "savejar"}
      /\ job[t].at \in {"skip", "wipe", "script", "go", "clear", "file"}
      /\ Done(t) \/ \E place \in {"wipe", "script", "go"} : Goto(t, place)
      /\ UNCHANGED <<jar, local>> \/ (jar' = NoOne /\ (UNCHANGED local \/ Wipe))
  BY DEF Open, OpenSkips, OpenWipes, OpenAddsScript, OpenGoes, Cookies, ResetCookies, SaveCookies,
         LoadCookies, At, Fail, Fine, Wipe, browser, still, counts
<1>1. /\ Good(t) /\ OnDisk /\ job \in [Threads -> Job] /\ restorer[t].at = "off"
      /\ {"wipe", "script", "go"} \subseteq Places /\ AllWhole(state)
  BY <1>0, Alone DEF Good, JobIsOnes, ProfilesAreOnes, Halving, TypeInv, Kinds, Places
<1>2. OnDisk'
  BY <1>0, <1>1, StoreStays
<1>3. /\ job'[t].op # "switch" /\ job'[t].at \in {"idle", "wipe", "script", "go"}
      /\ \A u \in Threads \ {t} : job'[u] = job[u]
  BY <1>0, <1>1, GotoFacts, DoneFacts
<1>4. Sole(t)' /\ BrowserIsOnes(t)'
  BY <1>0, <1>1, <1>3, KeepsFilled
<1>5. ProfilesAreOnes(t)' /\ JobIsOnes(t)'
  BY <1>0, <1>1, <1>3 DEF ProfilesAreOnes, JobIsOnes, Halving, AllWhole, At, storeVars
<1>6. QED
  BY <1>2, <1>4, <1>5 DEF Good

\* A request finds the browser, and the profiles, at rest.
LEMMA RequestOrdered ==
  ASSUME TypeInv, Ordered, disturbed' = {}, NEW t \in Threads, Request(t)
  PROVE  Good(t)' /\ OnDisk'
<1>1. /\ disturbed = {} /\ ~Busy /\ ~Restores /\ UNCHANGED <<storeVars, browser, restorer>>
      /\ job[t] = Idle /\ restorer[t] = Off
  BY DEF Request, Overlap, Free
<1>2. OnDisk /\ Rest /\ holder = NoOne /\ job \in [Threads -> Job] /\ t # NoOne
  BY <1>1, AtRest, Constants DEF TypeInv, Kinds
<1>3. OnDisk'
  BY <1>1, <1>2, StoreStays
<1>4. PICK op \in Requests, who \in Ids \cup {NoOne}, as \in Names \cup {NoOne} :
        job' = [job EXCEPT ![t] = [Idle EXCEPT !.op = op, !.at = Entry(op), !.who = who, !.as = as]]
  BY DEF Request
<1>5. /\ job'[t].op = op /\ job'[t].at = Entry(op)
      /\ \A u \in Threads \ {t} : job'[u] = job[u]
  BY <1>2, <1>4 DEF Idle
<1>6. /\ job'[t].at \in {"activate", "snapshot", "skip", "clear", "edit", "file"}
      /\ ~At(t, "switch", "skip")'
  <2>1. op \in Ops
    BY SessionsAssumption
  <2>2. QED
    BY <1>5, <2>1 DEF Ops, Entry, At
<1>7. Sole(t)'
  BY <1>1, <1>5 DEF Sole, Busy, Restores
<1>8. ~Filling(t)' /\ ~Halving(t)'
  BY <1>1, <1>6 DEF Filling, Restoring, Halving, At, Off
<1>9. BrowserIsOnes(t)' /\ ProfilesAreOnes(t)'
  BY <1>1, <1>2, <1>8 DEF BrowserIsOnes, ProfilesAreOnes, Rest, AllWhole, browser, storeVars
<1>10. JobIsOnes(t)'
  BY <1>1, <1>6 DEF JobIsOnes, Off, At
<1>11. QED
  BY <1>3, <1>7, <1>9, <1>10 DEF Good

LEMMA UserOrdered ==
  ASSUME TypeInv, Ordered, disturbed' = {}, GoHome \/ \E a \in Accounts : LogIn(a)
  PROVE  Rest' /\ OnDisk'
<1>1. /\ disturbed = {} /\ ~Busy /\ ~Restores /\ UNCHANGED <<storeVars, job, restorer>>
      /\ \/ UNCHANGED <<jar, local>>
         \/ \E a \in Accounts : jar' = a /\ local' = [local EXCEPT !["zai"] = a]
      /\ local \in [Pages -> Logins]
  BY DEF GoHome, LogIn, Overlap, TypeInv, Kinds
<1>2. OnDisk /\ Rest
  BY <1>1, AtRest
<1>3. OnDisk'
  BY <1>1, <1>2, StoreStays
<1>4. local'["ui"] = NoOne /\ jar' \in {NoOne, local'["zai"]}
  BY <1>1, <1>2 DEF Rest, Pages
<1>5. QED
  BY <1>1, <1>2, <1>3, <1>4 DEF Rest, Busy, Restores, AllWhole, storeVars

LEMMA OrderedInit == ASSUME Init PROVE Ordered
<1>1. ~Busy /\ ~Restores
  BY DEF Init, Busy, Restores, Idle, Off
<1>2. AllWhole(state)
  BY DEF Init, StoreInit, Nothing, AllWhole
<1>3. Rest
  BY <1>1, <1>2 DEF Init, Rest, Pages
<1>4. disturbed = {} => OnDisk
  BY DEF Init, StoreInit, OnDisk
<1>5. QED
  BY <1>3, <1>4 DEF Ordered

LEMMA OrderedStep == ASSUME TypeInv, Ordered, [Next]_vars PROVE Ordered'
<1>0. TypeInv'
  BY TypeStep
<1>1. SUFFICES ASSUME disturbed' = {} PROVE OnDisk' /\ (Rest \/ \E t \in Threads : Good(t))'
  BY DEF Ordered
<1>2. ASSUME NEW t \in Threads, Request(t) \/ Serve(t) \/ Restore(t)
      PROVE  Good(t)' /\ OnDisk'
  BY <1>0, <1>1, <1>2, RequestOrdered, RestoreOrdered, CallOrdered, SwitchOrdered, SaveOrdered, OpenOrdered
     DEF Serve
<1>3. CASE GoHome \/ \E a \in Accounts : LogIn(a)
  BY <1>1, <1>3, UserOrdered
<1>4. CASE Crash
  BY <1>1, <1>4 DEF Crash, Fail
<1>5. CASE UNCHANGED vars
  <2>1. OnDisk /\ (Rest \/ \E t \in Threads : Good(t))
    BY <1>1, <1>5 DEF vars, Ordered
  <2>2. OnDisk'
    BY <1>5, <2>1, StoreStays DEF vars
  <2>3. CASE Rest
    BY <1>5, <2>2, <2>3 DEF vars, storeVars, browser, Rest, Busy, Restores, AllWhole
  <2>4. ASSUME NEW t \in Threads, Good(t) PROVE Good(t)'
    BY <1>5, <2>4 DEF vars, storeVars, browser, Good, Sole, BrowserIsOnes, ProfilesAreOnes, JobIsOnes,
                      Filling, Coming, Restoring, Halving, HalfOf, AllWhole, At
  <2>5. QED
    BY <2>1, <2>2, <2>3, <2>4
<1>6. QED
  BY <1>2, <1>3, <1>4, <1>5 DEF Next

\* One account at a time in the browser, and whole profiles in memory and on disk.
LEMMA OrderedIsApart == ASSUME TypeInv, Ordered PROVE AccountsApart
<1>1. SUFFICES ASSUME disturbed = {} PROVE Separate
  BY DEF AccountsApart
<1>2. \E login \in Logins : local["ui"] = NoOne /\ {jar, local["zai"]} \subseteq {login, NoOne}
  <2>1. jar \in Logins /\ local["zai"] \in Logins
    BY DEF TypeInv, Kinds, Pages
  <2>2. CASE Rest
    BY <2>1, <2>2 DEF Rest
  <2>3. ASSUME NEW t \in Threads, Good(t)
        PROVE  /\ local["ui"] = NoOne
               /\ jar \in {NoOne, local["zai"]} \/ local["zai"] = NoOne
    BY <2>3 DEF Good, BrowserIsOnes
  <2>4. QED
    BY <1>1, <2>1, <2>2, <2>3 DEF Ordered
<1>3. OneAccount(InBrowser)
  <2>1. PICK login \in Logins : local["ui"] = NoOne /\ {jar, local["zai"]} \subseteq {login, NoOne}
    BY <1>2
  <2>2. InBrowser \subseteq {login}
    BY <2>1 DEF InBrowser, Pages
  <2>3. QED
    BY <2>2, AtMostOne
<1>4. ASSUME ~Busy PROVE Apart(state) /\ Apart(file)
  <2>1. holder = NoOne
    BY <1>4 DEF TypeInv, StoreInv, StoreTypeOK, HeldByCaller, Calls, Busy
  <2>2. AllWhole(state)
    <3>1. ASSUME NEW t \in Threads, Good(t) PROVE AllWhole(state)
      BY <1>4, <3>1 DEF Busy, Good, ProfilesAreOnes, Halving
    <3>2. QED
      BY <1>1, <3>1 DEF Ordered, Rest
  <2>3. AllWhole(file)
    BY <1>1, <2>1, <2>2 DEF Ordered, OnDisk, AllWhole
  <2>4. QED
    BY <2>2, <2>3, WholeIsApart
<1>5. QED
  BY <1>3, <1>4 DEF Separate

(* As long as nothing disturbs it, the browser never holds the logins of   *)
(* two accounts and no profile pairs the cookies of one with the local-    *)
(* Storage of another: for profiles, names, accounts, goroutines and       *)
(* requests of any number.                                                 *)
THEOREM AccountsStayApart == Spec => []AccountsApart
<1>1. Spec => []Ordered
  BY OrderedInit, OrderedStep, TypeAlways, PTL DEF Spec
<1>2. QED
  BY <1>1, OrderedIsApart, TypeAlways, PTL
=============================================================================
