--------------------------- MODULE Processes_proof ---------------------------
(***************************************************************************)
(* What runs beside the agent server, for all values of the constants: the *)
(* spawned workers (TabWorkers), the login of a worker (TabLogin) and the  *)
(* cookies of the proxy (ProxyJar).  The three share no state and none of  *)
(* the theorems uses another's.                                            *)
(***************************************************************************)
EXTENDS TabWorkers, TabLogin, ProxyJar, TLAPS

(***************************************************************************)
(* TabLogin: as long as nothing disturbs it, each step of the goroutine    *)
(* leaves behind a part of the login that no later one takes away.         *)
(***************************************************************************)

\* The origins whose localStorage is in the browser as it was saved.
Restored(origins) == \A o \in origins : dir.storage[o] = given.storage[o]

HasCookies == given.cookies \in {"none", dir.cookies}

\* What the goroutine has done by the time it is at a place.
Progress ==
  /\ place \in {"get", "cookies"} => window = StartOrigin
  /\ place \in {"next", "write", "check", "reload"} => HasCookies
  /\ place \in {"next", "check", "reload"} => Restored(Holds(given) \ todo)
  /\ place = "write" => Restored(Holds(given) \ (todo \cup {origin})) /\ window = origin

LoginInv ==
  /\ LoginTypeOK
  /\ place \notin {"next", "write", "check"} => todo = {}
  /\ disturbed = FALSE => Progress

LEMMA LoginInvInit == LoginInit => LoginInv
<1> SUFFICES ASSUME LoginInit PROVE LoginInv
  OBVIOUS
<1>1. NoLogin \in Logged
  BY DEF NoLogin, Logged, Owned
<1>2. launches \in 0..MaxLaunches /\ uses \in 0..MaxUses
  BY LoginAssumption DEF LoginInit
<1>3. origin \in Origins
  BY LoginAssumption DEF LoginInit
<1>4. LoginTypeOK
  BY <1>1, <1>2, <1>3 DEF LoginInit, LoginTypeOK, Ended
<1>5. QED
  BY <1>4 DEF LoginInit, LoginInv, Progress

LEMMA LoginInvStep == LoginInv /\ [LoginNext]_loginVars => LoginInv'
<1> SUFFICES ASSUME LoginInv, [LoginNext]_loginVars PROVE LoginInv'
  OBVIOUS
<1> USE LoginAssumption
<1>1. CASE Launch
  <2>0. launches' \in 0..MaxLaunches
    BY <1>1 DEF Launch, LoginInv, LoginTypeOK
  <2>1. LoginTypeOK'
    BY <1>1, <2>0 DEF Launch, LoginInv, LoginTypeOK, Ended, Holds
  <2>2. QED
    BY <1>1, <2>1 DEF Launch, LoginInv, Progress
<1>2. CASE Connect
  BY <1>2 DEF Connect, LoginInv, LoginTypeOK, Progress, Ended, Holds
<1>3. CASE OpenStart
  BY <1>3 DEF OpenStart, LoginInv, LoginTypeOK, Progress, Ended, Holds, Goes, Fine, Fail
<1>4. CASE GetProfile
  BY <1>4 DEF GetProfile, LoginInv, LoginTypeOK, Progress, Ended, Holds, Fine, Fail
<1>5. CASE SetCookies
  BY <1>5 DEF SetCookies, LoginInv, LoginTypeOK, Progress, Ended, Holds, Fine, Fail,
     HasCookies, Restored, Logged
<1>6. CASE NextOrigin
  <2>1. LoginTypeOK'
    BY <1>6 DEF NextOrigin, LoginInv, LoginTypeOK, Ended, Holds, Fine, Fail
  <2>2. ASSUME disturbed' = FALSE PROVE Progress'
    BY <1>6, <2>2 DEF NextOrigin, LoginInv, Progress, Fine, Fail, HasCookies, Restored, Holds
  <2>3. QED
    BY <1>6, <2>1, <2>2 DEF NextOrigin, LoginInv
<1>7. CASE WriteStorage
  <2>1. LoginTypeOK'
    <3>1. given.storage[origin] \in Owned
      BY DEF LoginInv, LoginTypeOK, Logged
    <3>2. dir' \in Logged
      BY <1>7, <3>1 DEF WriteStorage, LoginInv, LoginTypeOK, Logged
    <3>3. QED
      BY <1>7, <3>2 DEF WriteStorage, LoginInv, LoginTypeOK, Ended, Holds, Fine, Fail
  <2>2. ASSUME disturbed' = FALSE PROVE Progress'
    <3>1. place' = "check" /\ dir'.cookies = dir.cookies
          /\ \A o \in Origins : dir'.storage[o] = IF o = window THEN given.storage[origin]
                                                  ELSE dir.storage[o]
      BY <1>7, <2>2 DEF WriteStorage, Fail, LoginInv, LoginTypeOK, Logged
    <3>2. QED
      BY <1>7, <2>2, <3>1 DEF WriteStorage, LoginInv, Progress, Fine, HasCookies, Restored, Holds
  <2>3. QED
    BY <1>7, <2>1, <2>2 DEF WriteStorage, LoginInv
<1>8. CASE CheckToken
  BY <1>8 DEF CheckToken, LoginInv, LoginTypeOK, Progress, Ended, Holds, Fine, Fail, Gone,
     HasCookies, Restored
<1>9. CASE Reload
  BY <1>9 DEF Reload, LoginInv, LoginTypeOK, Progress, Ended, Holds, Fine, Fail, Goes,
     HasCookies, Restored
<1>10. CASE SaveAgain \/ NavigatesAway
  <2>0. uses' \in 0..MaxUses
    BY <1>10 DEF SaveAgain, NavigatesAway, Uses, LoginInv, LoginTypeOK
  <2>1. LoginTypeOK'
    BY <1>10, <2>0 DEF SaveAgain, NavigatesAway, LoginInv, LoginTypeOK, Ended, Holds, Fail
  <2>2. QED
    BY <1>10, <2>1 DEF SaveAgain, NavigatesAway, LoginInv, Progress, Fail, HasCookies,
       Restored, Holds
<1>11. CASE LogsIn
  <2>0. PICK a \in Owners : dir' = [dir EXCEPT !.cookies = a, !.storage[window] = a]
    BY <1>11 DEF LogsIn
  <2>1. dir' \in Logged
    BY <2>0 DEF LoginInv, LoginTypeOK, Logged, Owned
  <2>2. LoginTypeOK'
    BY <1>11, <2>1 DEF LogsIn, Uses, LoginInv, LoginTypeOK, Ended, Fail, Holds
  <2>3. QED
    BY <1>11, <2>2 DEF LogsIn, LoginInv, Fail
<1>12. CASE WorkerGoes
  BY <1>12 DEF WorkerGoes, Gone, LoginInv, LoginTypeOK, Progress, Ended, Holds
<1>13. CASE UNCHANGED loginVars
  BY <1>13 DEF loginVars, LoginInv, LoginTypeOK, Progress, Ended, Holds, HasCookies, Restored
<1>14. QED
  BY <1>1, <1>2, <1>3, <1>4, <1>5, <1>6, <1>7, <1>8, <1>9, <1>10, <1>11, <1>12, <1>13
  DEF LoginNext, Inject

\* The step that ends an undisturbed injection finds the whole login in place.
LEMMA ReadyStep ==
  ASSUME LoginInv, LoginNext, place' = "ready", place # "ready", ~disturbed'
  PROVE  /\ given'.cookies \in {"none", dir'.cookies}
         /\ \A o \in Holds(given') : dir'.storage[o] = given'.storage[o]
         /\ window' = StartOrigin
<1> USE LoginAssumption
<1>1. CASE SetCookies
  BY <1>1 DEF SetCookies, LoginInv, LoginTypeOK, Progress, Holds, Fine, Fail, Logged
<1>2. CASE Reload
  BY <1>2 DEF Reload, LoginInv, LoginTypeOK, Progress, Goes, Fine, Fail, HasCookies, Restored,
     Holds
<1>3. CASE GetProfile
  BY <1>3 DEF GetProfile, Fail
<1>4. QED
  BY <1>1, <1>2, <1>3 DEF LoginNext, Inject, Launch, Connect, OpenStart, NextOrigin,
     WriteStorage, CheckToken, Gone, SaveAgain, NavigatesAway, LogsIn, WorkerGoes

\* Type correctness of the injection, for any origins, accounts and saved logins.
THEOREM LoginTypes == LoginSpec => []LoginTypeOK
<1>1. LoginInv => LoginTypeOK
  BY DEF LoginInv
<1>2. QED
  BY <1>1, LoginInvInit, LoginInvStep, PTL DEF LoginSpec

\* Whatever an earlier launch or account left behind, and in whatever order the
\* origins come: an injection that nothing disturbs leaves the whole login it read.
THEOREM LoginIsAsSaved == LoginSpec => LoginAsSaved
<1> DEFINE Step == place' = "ready" /\ place # "ready" /\ ~disturbed' =>
                     /\ given'.cookies \in {"none", dir'.cookies}
                     /\ \A o \in Holds(given') : dir'.storage[o] = given'.storage[o]
                     /\ window' = StartOrigin
<1>1. LoginInv /\ [LoginNext]_loginVars => [Step]_loginVars
  BY ReadyStep
<1>2. [][Step]_loginVars => LoginAsSaved
  BY PTL DEF LoginAsSaved
<1>3. QED
  BY <1>1, <1>2, LoginInvInit, LoginInvStep, PTL DEF LoginSpec

(***************************************************************************)
(* ProxyJar: types, and of what each of the three invariants relies on.    *)
(***************************************************************************)

\* A reset is a request: there are enough numbers for the jars.
JarTypes == ProxyTypeOK /\ jar <= requests + 1

\* Between the two assignments of ResetCookies.
Resetting == \E k \in Keepers : KeeperAt(k, "forget")

\* Clients that are there, and those that are being made, have the jar there is.
ClientsFollow ==
  \/ globalClient \in {0, jar} /\ \A f \in Fetches : FetchAt(f, "publish") => fetch[f].jar = jar
  \/ raced = TRUE
  \/ Resetting

\* Who has been asked has been noted.
HostsNoted ==
  /\ \A f \in Fetches : ~FetchAt(f, "idle") => fetch[f].host \in known \cup reached
  /\ NoCookieUnsaved

\* One goroutine at a time is at the temporary file: what it renames, it has written.
OneSaver ==
  crossed = FALSE =>
    /\ file.whole = TRUE
    /\ \A k, l \in Keepers : keeper[k].at \in {"write", "rename"}
                             /\ keeper[l].at \in {"write", "rename"} => k = l
    /\ \A k \in Keepers : KeeperAt(k, "write") => tmp.has = {}
    /\ \A k \in Keepers : KeeperAt(k, "rename") /\ tmp.there => tmp.whole = TRUE

ProxyInv == JarTypes /\ ClientsFollow /\ HostsNoted /\ OneSaver

LEMMA ProxyInvInit == ProxyInit => ProxyInv
<1> SUFFICES ASSUME ProxyInit PROVE ProxyInv
  OBVIOUS
<1>1. jar \in Jars /\ requests \in 0..MaxRequests /\ processes \in 1..MaxProcesses
  BY ProxyAssumption DEF ProxyInit, Jars
<1>2. JarTypes
  <2>1. file \in [whole : BOOLEAN, has : SUBSET Hosts]
    BY DEF ProxyInit, NoFile
  <2>2. tmp \in [there : BOOLEAN, whole : BOOLEAN, has : SUBSET Hosts, open : SUBSET Keepers]
    BY DEF ProxyInit, NoTmp
  <2>3. cookies \in [Hosts -> SUBSET Hosts]
    BY DEF ProxyInit, Empty
  <2>4. keeper \in [Keepers -> [at : {"idle", "forget", "walk", "open", "write", "rename", "set"},
                                todo : SUBSET Hosts, got : SUBSET Hosts]]
    BY DEF ProxyInit, NoKeeper
  <2>5. jar <= requests + 1 /\ globalClient \in {0} \cup Jars
    BY DEF ProxyInit
  <2>6. known \subseteq Hosts /\ reached \subseteq Hosts
    BY DEF ProxyInit
  <2>7. raced \in BOOLEAN /\ crossed \in BOOLEAN
    BY DEF ProxyInit
  <2>8. fetch \in [Fetches -> {NoFetch}]
    BY DEF ProxyInit
  <2>9. QED
    BY <1>1, <2>1, <2>2, <2>3, <2>4, <2>5, <2>6, <2>7, <2>8 DEF JarTypes, ProxyTypeOK
<1>3. ClientsFollow /\ HostsNoted /\ OneSaver
  BY DEF ProxyInit, ClientsFollow, HostsNoted, NoCookieUnsaved, OneSaver, Empty, NoFile, NoFetch,
     NoKeeper, FetchAt, KeeperAt
<1>4. QED
  BY <1>2, <1>3 DEF ProxyInv

\* A step of a request for /proxy.
LEMMA FetchStep ==
  ASSUME ProxyInv, NEW f \in Fetches, Fetch(f)
  PROVE  ProxyInv'
<1> USE ProxyAssumption
<1>1. CASE \E h \in Hosts : Visit(f, h)
  <2>1. PICK h \in Hosts : Visit(f, h)
    BY <1>1
  <2>2. JarTypes'
    BY <2>1 DEF Visit, Request, disk, history, ProxyInv, JarTypes, ProxyTypeOK, Jars
  <2>3. QED
    BY <2>1, <2>2 DEF Visit, disk, history, ProxyInv, ClientsFollow, HostsNoted, NoCookieUnsaved,
       OneSaver, Resetting, FetchAt, KeeperAt, JarTypes, ProxyTypeOK
<1>2. CASE GetClient(f)
  <2>1. JarTypes'
    BY <1>2 DEF GetClient, FetchAt, memory, disk, counts, history, ProxyInv, JarTypes,
       ProxyTypeOK, Jars, NoFetch
  <2>2. QED
    BY <1>2, <2>1 DEF GetClient, FetchAt, memory, disk, counts, history, ProxyInv,
       ClientsFollow, HostsNoted, NoCookieUnsaved, OneSaver, Resetting, KeeperAt, JarTypes,
       ProxyTypeOK, Jars, NoFetch
<1>3. CASE Publish(f)
  <2>0. fetch[f].jar \in Jars /\ [fetch[f] EXCEPT !.at = "do"] \in [at : {"publish", "do"}, host : Hosts, jar : Jars]
    BY <1>3 DEF Publish, FetchAt, ProxyInv, JarTypes, ProxyTypeOK, NoFetch
  <2>1. JarTypes'
    BY <1>3, <2>0 DEF Publish, FetchAt, disk, counts, history, ProxyInv, JarTypes,
       ProxyTypeOK, Jars, NoFetch
  <2>2. QED
    BY <1>3, <2>1 DEF Publish, FetchAt, disk, counts, history, ProxyInv,
       ClientsFollow, HostsNoted, NoCookieUnsaved, OneSaver, Resetting, KeeperAt, JarTypes,
       ProxyTypeOK, Jars, NoFetch
<1>4. CASE Do(f)
  <2>1. JarTypes'
    BY <1>4 DEF Do, FetchAt, disk, counts, ProxyInv, JarTypes, ProxyTypeOK, Jars, NoFetch
  <2>2. ClientsFollow' /\ OneSaver'
    BY <1>4 DEF Do, FetchAt, disk, counts, ProxyInv, ClientsFollow, OneSaver, Resetting,
       KeeperAt, NoFetch, JarTypes, ProxyTypeOK
  <2>3. HostsNoted'
    BY <1>4 DEF Do, FetchAt, ProxyInv, HostsNoted, NoCookieUnsaved, NoFetch, JarTypes,
       ProxyTypeOK
  <2>4. QED
    BY <2>1, <2>2, <2>3 DEF ProxyInv
<1>5. QED
  BY <1>1, <1>2, <1>3, <1>4 DEF Fetch

\* A step of ResetCookies.
LEMMA ResetStep ==
  ASSUME ProxyInv, NEW k \in Keepers, ResetJar(k) \/ ForgetClient(k)
  PROVE  ProxyInv'
<1> USE ProxyAssumption
<1>1. CASE ResetJar(k)
  <2>1. JarTypes'
    BY <1>1 DEF ResetJar, Request, KeeperAt, KeeperGoes, disk, history, ProxyInv, JarTypes,
       ProxyTypeOK, Jars, Empty
  <2>2. Resetting'
    BY <1>1 DEF ResetJar, KeeperGoes, KeeperAt, Resetting, ProxyInv, JarTypes, ProxyTypeOK
  <2>3. HostsNoted' /\ OneSaver'
    BY <1>1 DEF ResetJar, KeeperGoes, KeeperAt, FetchAt, disk, history, ProxyInv, HostsNoted,
       NoCookieUnsaved, OneSaver, Empty, JarTypes, ProxyTypeOK
  <2>4. QED
    BY <2>1, <2>2, <2>3 DEF ProxyInv, ClientsFollow
<1>2. CASE ForgetClient(k)
  <2>1. JarTypes'
    BY <1>2 DEF ForgetClient, KeeperAt, KeeperDone, NoKeeper, disk, counts, ProxyInv, JarTypes,
       ProxyTypeOK, Jars
  <2>2. ClientsFollow'
    BY <1>2 DEF ForgetClient, FetchAt, ProxyInv, ClientsFollow
  <2>3. HostsNoted' /\ OneSaver'
    BY <1>2 DEF ForgetClient, KeeperAt, FetchAt, KeeperDone, NoKeeper, disk, ProxyInv,
       HostsNoted, NoCookieUnsaved, OneSaver, JarTypes, ProxyTypeOK
  <2>4. QED
    BY <2>1, <2>2, <2>3 DEF ProxyInv
<1>3. QED
  BY <1>1, <1>2

\* A step of SaveCookies.
LEMMA SaveStep ==
  ASSUME ProxyInv, NEW k \in Keepers, Save(k)
  PROVE  ProxyInv'
<1> USE ProxyAssumption
<1>1. CASE SaveListsHosts(k)
  <2>1. JarTypes'
    BY <1>1 DEF SaveListsHosts, Request, KeeperAt, memory, disk, history, ProxyInv, JarTypes,
       ProxyTypeOK, Jars
  <2>2. ClientsFollow' /\ HostsNoted' /\ OneSaver'
    BY <1>1 DEF SaveListsHosts, KeeperAt, FetchAt, memory, disk, history, ProxyInv, ClientsFollow,
       HostsNoted, NoCookieUnsaved, OneSaver, Resetting, JarTypes, ProxyTypeOK
  <2>3. QED
    BY <2>1, <2>2 DEF ProxyInv
<1>2. CASE \E h \in Hosts : SaveReads(k, h)
  <2>0. PICK h \in Hosts : SaveReads(k, h)
    BY <1>2
  <2>1. JarTypes'
    <3>1. cookies[h] \subseteq Hosts
      BY DEF ProxyInv, JarTypes, ProxyTypeOK
    <3>2. keeper' \in [Keepers -> [at : {"idle", "forget", "walk", "open", "write", "rename", "set"},
                                   todo : SUBSET Hosts, got : SUBSET Hosts]]
      <4>1. keeper[k] \in [at : {"idle", "forget", "walk", "open", "write", "rename", "set"},
                           todo : SUBSET Hosts, got : SUBSET Hosts]
        BY DEF ProxyInv, JarTypes, ProxyTypeOK
      <4>2. keeper' = [keeper EXCEPT ![k] = [keeper[k] EXCEPT !.todo = keeper[k].todo \ {h},
                                                 !.got = keeper[k].got \cup cookies[h]]]
        BY <2>0 DEF SaveReads, ProxyInv, JarTypes, ProxyTypeOK
      <4>3. [keeper[k] EXCEPT !.todo = keeper[k].todo \ {h}, !.got = keeper[k].got \cup cookies[h]]
            \in [at : {"idle", "forget", "walk", "open", "write", "rename", "set"},
                 todo : SUBSET Hosts, got : SUBSET Hosts]
        BY <3>1, <4>1
      <4>4. QED
        BY <4>2, <4>3 DEF ProxyInv, JarTypes, ProxyTypeOK
    <3>3. QED
      BY <2>0, <3>2 DEF SaveReads, memory, disk, counts, history, ProxyInv, JarTypes,
         ProxyTypeOK
  <2>2. ClientsFollow' /\ HostsNoted' /\ OneSaver'
    BY <2>0 DEF SaveReads, KeeperAt, FetchAt, memory, disk, history, ProxyInv, ClientsFollow,
       HostsNoted, NoCookieUnsaved, OneSaver, Resetting, JarTypes, ProxyTypeOK
  <2>3. QED
    BY <2>1, <2>2 DEF ProxyInv
<1>3. CASE SaveHasRead(k)
  <2>0. \/ keeper' = [keeper EXCEPT ![k] = NoKeeper]
        \/ keeper' = [keeper EXCEPT ![k].at = "open"]
    BY <1>3 DEF SaveHasRead, KeeperGoes, KeeperDone
  <2>1. JarTypes'
    <3>1. keeper' \in [Keepers -> [at : {"idle", "forget", "walk", "open", "write", "rename", "set"},
                                   todo : SUBSET Hosts, got : SUBSET Hosts]]
      BY <2>0 DEF NoKeeper, ProxyInv, JarTypes, ProxyTypeOK
    <3>2. QED
      BY <1>3, <3>1 DEF SaveHasRead, memory, disk, counts, history, ProxyInv, JarTypes, ProxyTypeOK
  <2>2. ClientsFollow' /\ HostsNoted' /\ OneSaver'
    <3>1. \A j \in Keepers : keeper'[j].at # keeper[j].at =>
              keeper[j].at = "walk" /\ keeper'[j].at \in {"idle", "open"}
      BY <1>3, <2>0 DEF SaveHasRead, KeeperAt, NoKeeper, ProxyInv, JarTypes, ProxyTypeOK
    <3>2. QED
      BY <1>3, <3>1 DEF SaveHasRead, KeeperAt, FetchAt, memory, disk, history, ProxyInv,
         ClientsFollow, HostsNoted, NoCookieUnsaved, OneSaver, Resetting
  <2>3. QED
    BY <2>1, <2>2 DEF ProxyInv
<1>4. CASE SaveOpens(k)
  <2>1. JarTypes'
    BY <1>4 DEF SaveOpens, NewTmp, KeeperAt, KeeperGoes, memory, counts, Saving, ProxyInv,
       JarTypes, ProxyTypeOK, Jars
  <2>2. ClientsFollow' /\ HostsNoted'
    BY <1>4 DEF SaveOpens, KeeperAt, KeeperGoes, FetchAt, memory, ProxyInv, ClientsFollow,
       HostsNoted, NoCookieUnsaved, Resetting, JarTypes, ProxyTypeOK
  <2>3. ASSUME crossed' = FALSE PROVE crossed = FALSE /\ ~Saving
    BY <1>4, <2>3 DEF SaveOpens, ProxyInv, JarTypes, ProxyTypeOK, Saving
  <2>4. OneSaver'
    BY <1>4, <2>3 DEF SaveOpens, NewTmp, KeeperAt, KeeperGoes, Saving, ProxyInv, OneSaver,
       JarTypes, ProxyTypeOK
  <2>5. QED
    BY <2>1, <2>2, <2>4 DEF ProxyInv
<1>5. CASE SaveWrites(k)
  <2>1. JarTypes'
    <3>1. keeper[k].got \subseteq Hosts
      BY DEF ProxyInv, JarTypes, ProxyTypeOK
    <3>2. tmp' \in [there : BOOLEAN, whole : BOOLEAN, has : SUBSET Hosts, open : SUBSET Keepers]
      <4>1. PICK b \in BOOLEAN : tmp' = [tmp EXCEPT !.whole = b,
                                                   !.has = tmp.has \cup keeper[k].got,
                                                   !.open = tmp.open \ {k}]
        <5>1. (tmp.has \in {{}, keeper[k].got}) \in BOOLEAN
          OBVIOUS
        <5>2. QED
          BY <1>5, <5>1, Zenon DEF SaveWrites
      <4>2. QED
        BY <3>1, <4>1 DEF ProxyInv, JarTypes, ProxyTypeOK
    <3>3. keeper' = [keeper EXCEPT ![k].at = "rename"]
          /\ UNCHANGED <<memory, file, fetch, counts, history>>
      BY <1>5 DEF SaveWrites, KeeperGoes
    <3>4. QED
      BY <3>2, <3>3 DEF memory, counts, history, ProxyInv, JarTypes, ProxyTypeOK
  <2>2. ClientsFollow' /\ HostsNoted'
    BY <1>5 DEF SaveWrites, KeeperAt, KeeperGoes, FetchAt, memory, history, ProxyInv,
       ClientsFollow, HostsNoted, NoCookieUnsaved, Resetting, JarTypes, ProxyTypeOK
  <2>3. OneSaver'
    BY <1>5 DEF SaveWrites, KeeperAt, KeeperGoes, history, ProxyInv, OneSaver, JarTypes,
       ProxyTypeOK
  <2>4. QED
    BY <2>1, <2>2, <2>3 DEF ProxyInv
<1>6. CASE SaveRenames(k)
  <2>1. JarTypes'
    BY <1>6 DEF SaveRenames, NoTmp, KeeperAt, KeeperDone, NoKeeper, memory, counts, history,
       ProxyInv, JarTypes, ProxyTypeOK, Jars
  <2>2. ClientsFollow' /\ HostsNoted'
    BY <1>6 DEF SaveRenames, KeeperAt, KeeperDone, NoKeeper, FetchAt, memory, history, ProxyInv,
       ClientsFollow, HostsNoted, NoCookieUnsaved, Resetting, JarTypes, ProxyTypeOK
  <2>3. OneSaver'
    BY <1>6 DEF SaveRenames, NoTmp, KeeperAt, KeeperDone, NoKeeper, history, ProxyInv, OneSaver,
       JarTypes, ProxyTypeOK
  <2>4. QED
    BY <2>1, <2>2, <2>3 DEF ProxyInv
<1>7. CASE SaveFails(k)
  <2>1. JarTypes'
    BY <1>7 DEF SaveFails, KeeperDone, NoKeeper, memory, counts, history, ProxyInv, JarTypes,
       ProxyTypeOK, Jars
  <2>2. ClientsFollow' /\ HostsNoted'
    BY <1>7 DEF SaveFails, KeeperAt, KeeperDone, NoKeeper, FetchAt, memory, history, ProxyInv,
       ClientsFollow, HostsNoted, NoCookieUnsaved, Resetting, JarTypes, ProxyTypeOK
  <2>3. OneSaver'
    BY <1>7 DEF SaveFails, KeeperAt, KeeperDone, NoKeeper, history, ProxyInv, OneSaver, JarTypes,
       ProxyTypeOK
  <2>4. QED
    BY <2>1, <2>2, <2>3 DEF ProxyInv
<1>8. QED
  BY <1>1, <1>2, <1>3, <1>4, <1>5, <1>6, <1>7 DEF Save

\* A step of LoadCookies.
LEMMA LoadStep ==
  ASSUME ProxyInv, NEW k \in Keepers, Load(k)
  PROVE  ProxyInv'
<1> USE ProxyAssumption
<1>1. CASE LoadReads(k)
  <2>1. JarTypes'
    BY <1>1 DEF LoadReads, Request, KeeperAt, memory, disk, history, ProxyInv, JarTypes,
       ProxyTypeOK, Jars
  <2>2. ClientsFollow' /\ HostsNoted' /\ OneSaver'
    BY <1>1 DEF LoadReads, KeeperAt, FetchAt, memory, disk, history, ProxyInv, ClientsFollow,
       HostsNoted, NoCookieUnsaved, OneSaver, Resetting, JarTypes, ProxyTypeOK
  <2>3. QED
    BY <2>1, <2>2 DEF ProxyInv
<1>2. CASE \E c \in Hosts : LoadSets(k, c)
  <2>0. PICK c \in Hosts : LoadSets(k, c)
    BY <1>2
  <2>1. /\ cookies' \in [Hosts -> SUBSET Hosts]
        /\ \A h \in Hosts : cookies'[h] = cookies[h] \/ h \in known
    BY <2>0 DEF LoadSets, Placed, ProxyInv, JarTypes, ProxyTypeOK
  <2>2. JarTypes'
    BY <2>0, <2>1, SMTT(30) DEF LoadSets, KeeperAt, disk, counts, history, ProxyInv, JarTypes,
       ProxyTypeOK, Jars
  <2>3. HostsNoted'
    BY <2>0, <2>1 DEF LoadSets, FetchAt, history, ProxyInv, HostsNoted, NoCookieUnsaved
  <2>4. ClientsFollow' /\ OneSaver'
    BY <2>0 DEF LoadSets, KeeperAt, FetchAt, disk, history, ProxyInv, ClientsFollow,
       OneSaver, Resetting, JarTypes, ProxyTypeOK
  <2>5. QED
    BY <2>2, <2>3, <2>4 DEF ProxyInv
<1>3. CASE LoadReturns(k)
  <2>1. JarTypes'
    BY <1>3 DEF LoadReturns, KeeperDone, NoKeeper, memory, disk, counts, history, ProxyInv,
       JarTypes, ProxyTypeOK, Jars
  <2>2. ClientsFollow' /\ HostsNoted' /\ OneSaver'
    BY <1>3 DEF LoadReturns, KeeperAt, KeeperDone, NoKeeper, FetchAt, memory, disk, history,
       ProxyInv, ClientsFollow, HostsNoted, NoCookieUnsaved, OneSaver, Resetting, JarTypes,
       ProxyTypeOK
  <2>3. QED
    BY <2>1, <2>2 DEF ProxyInv
<1>4. QED
  BY <1>1, <1>2, <1>3 DEF Load

LEMMA ProxyRestartStep ==
  ASSUME ProxyInv, ProxyRestarts
  PROVE  ProxyInv'
<1> USE ProxyAssumption
<1>1. JarTypes'
  <2>1. tmp' \in [there : BOOLEAN, whole : BOOLEAN, has : SUBSET Hosts, open : SUBSET Keepers]
    BY DEF ProxyRestarts, ProxyInv, JarTypes, ProxyTypeOK
  <2>2. jar' \in Jars /\ jar' <= requests' + 1 /\ processes' \in 1..MaxProcesses
    BY DEF ProxyRestarts, ProxyInv, JarTypes, ProxyTypeOK, Jars
  <2>3. cookies' \in [Hosts -> SUBSET Hosts]
    BY DEF ProxyRestarts, Empty
  <2>4. QED
    BY <2>1, <2>2, <2>3 DEF ProxyRestarts, NoKeeper, ProxyInv, JarTypes, ProxyTypeOK
<1>2. ClientsFollow' /\ HostsNoted' /\ OneSaver'
  BY DEF ProxyRestarts, Empty, NoFetch, NoKeeper, FetchAt, KeeperAt, ProxyInv, ClientsFollow,
     HostsNoted, NoCookieUnsaved, OneSaver
<1>3. QED
  BY <1>1, <1>2 DEF ProxyInv

LEMMA ProxyInvStep == ProxyInv /\ [ProxyNext]_proxyVars => ProxyInv'
<1> SUFFICES ASSUME ProxyInv, [ProxyNext]_proxyVars PROVE ProxyInv'
  OBVIOUS
<1>1. CASE UNCHANGED proxyVars
  BY <1>1 DEF proxyVars, memory, disk, counts, history, ProxyInv, JarTypes, ProxyTypeOK,
     ClientsFollow, HostsNoted, NoCookieUnsaved, OneSaver, Resetting, FetchAt, KeeperAt
<1>2. QED
  BY <1>1, FetchStep, ResetStep, SaveStep, LoadStep, ProxyRestartStep DEF ProxyNext

\* Type correctness of the jar, its file and its clients; that no request goes on without a client.
THEOREM ProxyTypes == ProxySpec => []ProxyTypeOK
<1>1. ProxyInv => ProxyTypeOK
  BY DEF ProxyInv, JarTypes
<1>2. QED
  BY <1>1, ProxyInvInit, ProxyInvStep, PTL DEF ProxySpec

\* Any number of requests at once share one jar, but for a reset that runs into the
\* making of a client.
THEOREM OneJarForAll == ProxySpec => []OneJar
<1>1. ProxyInv => OneJar
  BY DEF ProxyInv, ClientsFollow, Resetting, OneJar
<1>2. QED
  BY <1>1, ProxyInvInit, ProxyInvStep, PTL DEF ProxySpec

\* Cookies are only ever of hosts that SaveCookies knows, or that a redirect led to.
THEOREM SavesMissNothing == ProxySpec => []NoCookieUnsaved
<1>1. ProxyInv => NoCookieUnsaved
  BY DEF ProxyInv, HostsNoted
<1>2. QED
  BY <1>1, ProxyInvInit, ProxyInvStep, PTL DEF ProxySpec

\* Wherever the process ends, any number of times, cookies.json is one save's whole
\* output, as long as saves came one after the other.
THEOREM FileIsWhole == ProxySpec => []FileStaysWhole
<1>1. ProxyInv => FileStaysWhole
  BY DEF ProxyInv, JarTypes, ProxyTypeOK, OneSaver, FileStaysWhole
<1>2. QED
  BY <1>1, ProxyInvInit, ProxyInvStep, PTL DEF ProxySpec

(***************************************************************************)
(* TabWorkers.  SpawnTab kills the worker that the registry names, so what *)
(* has to be shown is whom the registry does not name: those it lost at a  *)
(* restart, and those whose entry went with the goroutine of another.      *)
(***************************************************************************)

Lost == left \cup unlisted

\* Spawns to come have left no trace.
Unborn ==
  /\ \A w \in Spawns : w > count => worker[w] = "none" /\ reaper[w] = "none" /\ w \notin Lost
  /\ lock.at # "free" => lock.id = count /\ lock.id \notin Lost /\ reaper[lock.id] = "none"
  /\ lock.at = "free" => lock = Free

\* Whoever is in the registry is there once, has a goroutine, and is not lost.
Waited ==
  \A p \in Profiles : registry[p].id # 0 =>
    /\ profile[registry[p].id] = p
    /\ reaper[registry[p].id] = "waiting"
    /\ registry[p].id \notin Lost

\* While a worker is being spawned, no other of its profile runs but a lost one.
Alone ==
  /\ lock.at = "start" => worker[lock.id] = "none"
  /\ lock.at # "free" => \A w \in Spawns :
       profile[w] = profile[lock.id] /\ worker[w] \in Alive => w = lock.id \/ w \in Lost

TabInv == TypeOK /\ Unborn /\ Waited /\ Alone /\ WorkersAccountedFor

LEMMA TabInvInit == Init => TabInv
<1> SUFFICES ASSUME Init PROVE TabInv
  OBVIOUS
<1>1. TypeOK
  BY TabAssumption DEF Init, TypeOK, NoEntry, Process, Free
<1>2. Unborn /\ Waited /\ Alone /\ WorkersAccountedFor
  BY DEF Init, Free, NoEntry, Entry, Alive, Unborn, Waited, Alone, WorkersAccountedFor, Spawns,
     Lost
<1>3. QED
  BY <1>1, <1>2 DEF TabInv

\* The types hold of their own accord.
LEMMA TabTypesStep == TypeOK /\ [Next]_vars => TypeOK'
<1> SUFFICES ASSUME TypeOK, [Next]_vars PROVE TypeOK'
  OBVIOUS
<1> USE TabAssumption DEF tabHistory
<1>1. CASE Lock
  <2>1. count' \in 0..MaxSpawns /\ count' \in Spawns
    BY <1>1 DEF Lock, TypeOK, Spawns
  <2>2. lock' \in [at : {"start", "port", "register"}, id : Spawns, port : 0..MaxSpawns]
    BY <1>1, <2>1 DEF Lock
  <2>3. worker' \in [Spawns -> Process]
    BY <1>1 DEF Lock, TypeOK, Kill, Process
  <2>4. QED
    BY <1>1, <2>1, <2>2, <2>3 DEF Lock, TypeOK
<1>2. CASE Start
  BY <1>2 DEF Start, TypeOK, Free, Process
<1>3. CASE ReadPort
  <2>1. lock \in [at : {"start", "port", "register"}, id : Spawns, port : 0..MaxSpawns]
    BY <1>3 DEF ReadPort, TypeOK, Free
  <2>2. portfile[profile[lock.id]] \in 0..MaxSpawns
    BY <2>1 DEF TypeOK
  <2>3. lock' \in [at : {"start", "port", "register"}, id : Spawns, port : 0..MaxSpawns]
    BY <1>3, <2>1, <2>2 DEF ReadPort
  <2>4. QED
    BY <1>3, <2>3 DEF ReadPort, TypeOK
<1>4. CASE Register
  BY <1>4 DEF Register, TypeOK, Free, Spawns
<1>5. ASSUME NEW w \in Spawns, WritePort(w) PROVE TypeOK'
  BY <1>5 DEF WritePort, TypeOK, Spawns, Process
<1>6. ASSUME NEW w \in Spawns, WorkerExits(w) PROVE TypeOK'
  BY <1>6 DEF WorkerExits, TypeOK, Process
<1>7. ASSUME NEW w \in Spawns, Reap(w) PROVE TypeOK'
  <2>1. unlisted' \subseteq Spawns
    <3>1. Entry(w).id \in Spawns \cup {0}
      BY DEF TypeOK, Entry, NoEntry
    <3>2. QED
      BY <1>7, <3>1 DEF Reap, TypeOK
  <2>2. bridge' \in [Spawns -> Process]
    BY <1>7 DEF Reap, TypeOK, Kill, Process, Alive
  <2>3. QED
    BY <1>7, <2>1, <2>2 DEF Reap, TypeOK
<1>8. ASSUME NEW w \in Spawns, StartBridge(w) PROVE TypeOK'
  BY <1>8 DEF StartBridge, TypeOK, Process
<1>9. ASSUME NEW w \in Spawns, StoreBridge(w) PROVE TypeOK'
  <2>1. CASE Entry(w) = NoEntry
    BY <1>9, <2>1 DEF StoreBridge, TypeOK
  <2>2. CASE Entry(w) # NoEntry
    <3>1. Entry(w) \in [id : Spawns, port : 0..MaxSpawns, bridge : 0..MaxSpawns]
      BY <2>2 DEF TypeOK, Entry
    <3>2. registry' = [registry EXCEPT ![profile[w]] = [Entry(w) EXCEPT !.bridge = w]]
      BY <1>9, <2>2 DEF StoreBridge, Entry, TypeOK
    <3>3. [Entry(w) EXCEPT !.bridge = w] \in [id : Spawns, port : 0..MaxSpawns, bridge : 0..MaxSpawns]
      BY <3>1 DEF Spawns
    <3>4. QED
      BY <1>9, <3>2, <3>3 DEF StoreBridge, TypeOK
  <2>3. QED
    BY <2>1, <2>2
<1>10. ASSUME NEW w \in Spawns, BridgeExits(w) PROVE TypeOK'
  BY <1>10 DEF BridgeExits, TypeOK, Process
<1>11. CASE MainRestarts
  BY <1>11 DEF MainRestarts, TypeOK, Free
<1>12. CASE UNCHANGED vars
  BY <1>12 DEF vars, TypeOK
<1>13. QED
  BY <1>1, <1>2, <1>3, <1>4, <1>5, <1>6, <1>7, <1>8, <1>9, <1>10, <1>11, <1>12
  DEF Next, SpawnStep

\* The steps of SpawnTab.
LEMMA SpawnSteps ==
  ASSUME TabInv, TypeOK', Lock \/ SpawnStep
  PROVE  TabInv'
<1> USE TabAssumption DEF TabInv, tabHistory
<1>1. CASE Lock
  <2>1. /\ count' = count + 1 /\ count' \in Spawns /\ lock'.at = "start" /\ lock'.id = count'
        /\ UNCHANGED <<profile, registry, reaper, left, unlisted>> /\ Lost' = Lost
    BY <1>1 DEF Lock, TypeOK, Spawns, Lost
  <2>2. \A w \in Spawns :
          \/ worker'[w] = worker[w]
          \/ w = Entry(count').id /\ worker'[w] = "killed" /\ worker[w] \in Alive
    <3>1. CASE Entry(count').id = 0
      BY <1>1, <3>1 DEF Lock, Entry
    <3>2. CASE Entry(count').id # 0
      <4>1. worker' = Kill(worker, Entry(count').id)
        BY <1>1, <3>2 DEF Lock, Entry
      <4>2. QED
        BY <4>1 DEF Kill, TypeOK, Entry
    <3>3. QED
      BY <3>1, <3>2
  <2>3. ASSUME NEW w \in Spawns, w \notin Lost, profile[w] = profile[count'], worker'[w] \in Alive
        PROVE  FALSE
    <3>1. worker[w] \in Alive /\ Entry(w).id = w
      BY <1>1, <2>2, <2>3 DEF Lock, Free, Alive, WorkersAccountedFor, Spawns, Lost
    <3>2. worker' = Kill(worker, w)
      BY <1>1, <2>3, <3>1 DEF Lock, Entry, Spawns
    <3>3. QED
      BY <2>3, <3>1, <3>2 DEF Kill, Alive, TypeOK
  <2>4. Unborn'
    <3>1. count \in Nat /\ \A w \in Spawns : w > count' => w > count
      BY <2>1 DEF TypeOK, Spawns
    <3>2. \A w \in Spawns : w > count' => worker'[w] = "none"
      BY <2>2, <3>1 DEF Unborn, Alive
    <3>3. reaper[count'] = "none" /\ count' \notin Lost
      BY <2>1, <3>1 DEF Unborn
    <3>4. QED
      BY <2>1, <3>1, <3>2, <3>3 DEF Unborn
  <2>5. Waited'
    BY <2>1 DEF Waited
  <2>6. worker'[count'] = "none"
    BY <2>1, <2>2 DEF Unborn, Alive, TypeOK
  <2>7. Alone'
    BY <2>1, <2>3, <2>6 DEF Alone
  <2>8. WorkersAccountedFor'
    BY <1>1, <2>1, <2>2, <2>6 DEF Lock, WorkersAccountedFor, Alive, Entry, Free, Spawns
  <2>9. QED
    BY <2>4, <2>5, <2>7, <2>8
<1>2. CASE Start
  <2>1. lock.id \in Spawns /\ lock.at = "start"
    BY <1>2 DEF Start, TypeOK, Free
  <2>2. CASE worker' = [worker EXCEPT ![lock.id] = "starting"] /\ lock' = [lock EXCEPT !.at = "port"]
    <3>1. lock'.at = "port" /\ lock'.id = lock.id
      BY <2>1, <2>2 DEF TypeOK, Free
    <3>2. Unborn' /\ Waited' /\ Alone'
      BY <1>2, <2>1, <2>2, <3>1 DEF Start, Unborn, Waited, Alone, Alive, TypeOK, Spawns, Lost
    <3>3. WorkersAccountedFor'
      BY <1>2, <2>1, <2>2, <3>1 DEF Start, Unborn, Alone, WorkersAccountedFor, Entry, Alive,
         TypeOK, Lost
    <3>4. QED
      BY <3>2, <3>3
  <2>3. CASE lock' = Free /\ UNCHANGED worker
    BY <1>2, <2>1, <2>3 DEF Start, Unborn, Waited, Alone, WorkersAccountedFor, Entry, Alive, Free,
       Spawns, Lost
  <2>4. QED
    BY <1>2, <2>2, <2>3 DEF Start
<1>3. CASE ReadPort
  <2>1. lock'.at = "register" /\ lock'.id = lock.id /\ lock.at = "port"
    BY <1>3 DEF ReadPort, TypeOK, Free
  <2>2. QED
    BY <1>3, <2>1 DEF ReadPort, Unborn, Waited, Alone, WorkersAccountedFor, Entry, Lost
<1>4. CASE Register
  <2> DEFINE w == lock.id
             p == profile[lock.id]
  <2>1. w \in Spawns /\ p \in Profiles /\ w # 0 /\ lock.at = "register" /\ lock' = Free
    BY <1>4 DEF Register, TypeOK, Free, Spawns
  <2>2. /\ \A q \in Profiles : registry'[q].id = IF q = p THEN w ELSE registry[q].id
        /\ \A v \in Spawns : reaper'[v] = IF v = w THEN "waiting" ELSE reaper[v]
        /\ UNCHANGED <<count, profile, worker, left, unlisted>> /\ Lost' = Lost
    BY <1>4, <2>1 DEF Register, TypeOK, Lost
  <2>3. w \notin Lost /\ \A v \in Spawns :
          profile[v] = p /\ worker[v] \in Alive => v = w \/ (v \in Lost /\ registry[p].id # v)
    BY <2>1 DEF Unborn, Alone, Waited, Spawns
  <2>4. Unborn'
    BY <2>1, <2>2 DEF Unborn, Free, TypeOK, Spawns
  <2>5. Waited'
    <3>1. ASSUME NEW q \in Profiles, registry'[q].id # 0
          PROVE  /\ profile[registry'[q].id] = q /\ reaper'[registry'[q].id] = "waiting"
                 /\ registry'[q].id \notin Lost
      <4>1. CASE q = p
        BY <2>1, <2>2, <2>3, <4>1
      <4>2. CASE q # p
        <5>1. registry'[q].id = registry[q].id /\ registry[q].id \in Spawns
          BY <2>2, <3>1, <4>2 DEF TypeOK, NoEntry
        <5>2. QED
          BY <2>2, <3>1, <4>2, <5>1 DEF Waited
      <4>3. QED
        BY <4>1, <4>2
    <3>2. QED
      BY <2>2, <3>1 DEF Waited
  <2>6. WorkersAccountedFor'
    <3>1. ASSUME NEW v \in Spawns, worker[v] \in Alive
          PROVE  registry'[profile[v]].id = v <=> v \notin Lost
      <4>1. CASE profile[v] = p
        BY <2>1, <2>2, <2>3, <3>1, <4>1
      <4>2. CASE profile[v] # p
        <5>1. v # w /\ registry'[profile[v]].id = registry[profile[v]].id
          BY <2>2, <4>2 DEF TypeOK
        <5>2. QED
          BY <3>1, <5>1 DEF WorkersAccountedFor, Entry, Lost
      <4>3. QED
        BY <4>1, <4>2
    <3>2. QED
      BY <2>1, <2>2, <3>1 DEF WorkersAccountedFor, Entry, Free, Lost, Spawns
  <2>7. QED
    BY <2>1, <2>4, <2>5, <2>6 DEF Alone, Free
<1>5. QED
  BY <1>1, <1>2, <1>3, <1>4 DEF SpawnStep

\* The steps of processes, and of the goroutines that wait for them.
LEMMA ProcessSteps ==
  ASSUME TabInv, TypeOK', NEW w \in Spawns,
         WritePort(w) \/ WorkerExits(w) \/ Reap(w) \/ StartBridge(w) \/ StoreBridge(w) \/ BridgeExits(w)
  PROVE  TabInv'
<1> USE DEF TabInv, tabHistory, Lost
<1>1. CASE WritePort(w)
  BY <1>1 DEF WritePort, Unborn, Waited, Alone, WorkersAccountedFor, Entry, Alive, TypeOK
<1>2. CASE WorkerExits(w)
  BY <1>2 DEF WorkerExits, Unborn, Waited, Alone, WorkersAccountedFor, Entry, Alive, TypeOK
<1>3. CASE Reap(w)
  <2> DEFINE p == profile[w]
             o == registry[p].id
  <2>1. reaper[w] = "waiting" /\ worker[w] = "exited" /\ p \in Profiles
    BY <1>3 DEF Reap, TypeOK
  <2>2. \A q \in Profiles : registry'[q].id = IF q = p THEN 0 ELSE registry[q].id
    BY <1>3 DEF Reap, NoEntry, TypeOK
  <2>3. \A v \in Spawns : reaper'[v] = IF v = w THEN "done" ELSE reaper[v]
    BY <1>3 DEF Reap, TypeOK
  <2>4. /\ UNCHANGED <<count, lock, profile, worker, left>>
        /\ unlisted' = unlisted \cup ({o} \ {0, w})
    BY <1>3 DEF Reap, Entry
  <2>5. o # 0 => o \in Spawns /\ profile[o] = p /\ reaper[o] = "waiting"
    BY <2>1 DEF TypeOK, NoEntry, Waited
  <2>6. Unborn' /\ Alone'
    BY <2>1, <2>3, <2>4, <2>5 DEF Unborn, Alone, TypeOK, Free
  <2>7. Waited'
    <3>1. ASSUME NEW q \in Profiles, registry'[q].id # 0
          PROVE  /\ profile[registry'[q].id] = q /\ reaper'[registry'[q].id] = "waiting"
                 /\ registry'[q].id \notin Lost'
      <4>1. q # p /\ registry'[q].id = registry[q].id /\ registry[q].id \in Spawns
        BY <2>2, <3>1 DEF TypeOK, NoEntry
      <4>2. registry[q].id # w /\ registry[q].id # o
        BY <2>5, <3>1, <4>1 DEF Waited
      <4>3. QED
        BY <2>3, <2>4, <3>1, <4>1, <4>2 DEF Waited
    <3>2. QED
      BY <2>4, <3>1 DEF Waited
  <2>8. WorkersAccountedFor'
    <3>1. ASSUME NEW v \in Spawns, worker[v] \in Alive
          PROVE  registry'[profile[v]].id = v \/ lock.id = v <=> v \notin Lost'
      <4>1. v # w /\ profile[v] \in Profiles
        BY <2>1, <3>1 DEF Alive, TypeOK
      <4>2. lock.id = v => reaper[v] = "none"
        BY <3>1 DEF Unborn, Free, TypeOK, Spawns
      <4>3. CASE v = o
        BY <2>2, <2>4, <2>5, <4>1, <4>2, <4>3 DEF Spawns
      <4>4. CASE v # o
        <5>1. registry'[profile[v]].id = v <=> registry[profile[v]].id = v
          BY <2>2, <4>1, <4>4 DEF Spawns
        <5>2. QED
          BY <2>4, <3>1, <4>4, <5>1 DEF WorkersAccountedFor, Entry
      <4>5. QED
        BY <4>3, <4>4
    <3>2. QED
      BY <2>4, <3>1 DEF WorkersAccountedFor, Entry
  <2>9. QED
    BY <2>6, <2>7, <2>8
<1>4. CASE StartBridge(w) \/ BridgeExits(w)
  BY <1>4 DEF StartBridge, BridgeExits, Unborn, Waited, Alone, WorkersAccountedFor, Entry
<1>5. CASE StoreBridge(w)
  <2>1. \A q \in Profiles : registry'[q].id = registry[q].id
    BY <1>5 DEF StoreBridge, TypeOK, NoEntry
  <2>2. QED
    BY <1>5, <2>1 DEF StoreBridge, Unborn, Waited, Alone, WorkersAccountedFor, Entry, TypeOK
<1>6. QED
  BY <1>1, <1>2, <1>3, <1>4, <1>5

LEMMA TabInvStep == TabInv /\ [Next]_vars => TabInv'
<1> SUFFICES ASSUME TabInv, [Next]_vars PROVE TabInv'
  OBVIOUS
<1>1. TypeOK'
  BY TabTypesStep DEF TabInv
<1>2. CASE MainRestarts
  <2>1. /\ \A p \in Profiles : registry'[p].id = 0
        /\ lock' = Free /\ left' = {w \in Spawns : worker[w] \in Alive}
        /\ UNCHANGED <<count, profile, worker, unlisted>>
        /\ \A w \in Spawns : reaper[w] = "none" => reaper'[w] = "none"
    BY <1>2 DEF MainRestarts, NoEntry
  <2>2. Unborn'
    <3>1. \A w \in Spawns : w > count =>
            worker[w] = "none" /\ reaper'[w] = "none" /\ w \notin Lost'
      BY <2>1 DEF TabInv, Unborn, Lost, Alive
    <3>2. lock'.at = "free"
      BY <2>1 DEF Free
    <3>3. QED
      BY <2>1, <3>1, <3>2 DEF Unborn, Free
  <2>3. Waited' /\ Alone'
    BY <2>1 DEF Waited, Alone, Free
  <2>4. WorkersAccountedFor'
    <3>1. \A w \in Spawns : w # 0 /\ profile[w] \in Profiles
      BY TabAssumption DEF Spawns, TabInv, TypeOK
    <3>2. \A w \in Spawns : worker[w] \in Alive => w \in left'
      BY <2>1
    <3>3. QED
      BY <2>1, <3>1, <3>2 DEF WorkersAccountedFor, Entry, Free
  <2>5. QED
    BY <1>1, <2>2, <2>3, <2>4 DEF TabInv
<1>3. CASE UNCHANGED vars
  BY <1>1, <1>3 DEF vars, TabInv, Unborn, Waited, Alone, WorkersAccountedFor, Entry, Lost
<1>4. QED
  BY <1>1, <1>2, <1>3, SpawnSteps, ProcessSteps DEF Next

\* Type correctness of the registry and the processes, for any spawns and restarts.
THEOREM TabTypes == Spec => []TypeOK
<1>1. Init => TypeOK
  BY TabInvInit DEF TabInv
<1>2. QED
  BY <1>1, TabTypesStep, PTL DEF Spec

\* For any number of profiles, spawns and restarts, and however late the goroutine of
\* a killed worker is: a running worker is in the registry or being spawned, unless it
\* ran at a restart or its entry was deleted by the goroutine of another; and a
\* profile has two only if one of them is such a worker.
THEOREM NoWorkerIsLost == Spec => []WorkersAccountedFor
<1>1. TabInv => WorkersAccountedFor
  BY DEF TabInv
<1>2. QED
  BY <1>1, TabInvInit, TabInvStep, PTL DEF Spec

(***************************************************************************)
(* OneBridgePerProfile fails: a bridge that outlives the entry it was      *)
(* meant for is nobody's.  It fails in no other way than the three of      *)
(* Orderly.                                                                *)
(***************************************************************************)

\* The main process was not restarted; a worker stays in the registry for as long as
\* the goroutine that starts its bridge has not stored it there, and until the
\* goroutine that waits for it deletes its entry (no later worker is registered
\* before).
Orderly ==
  /\ restarts = 0
  /\ \A w \in Spawns : starter[w] \in {"sleeping", "storing"} => Entry(w).id = w
  /\ \A w \in Spawns : reaper[w] = "waiting" => Entry(w).id = w

\* A bridge that runs is of the worker its profile has, and in the entry or about to be.
BridgeInv ==
  /\ TabInv
  /\ \A v \in Spawns : bridge[v] = "running" =>
       Entry(v).id = v /\ (Entry(v).bridge = v \/ starter[v] = "storing")

\* What a step may do to bridges without disturbing them: no new one runs, and
\* the entries of those that do are as they were.
LEMMA BridgesQuiet ==
  ASSUME BridgeInv, TabInv', UNCHANGED profile,
         \A v \in Spawns : bridge'[v] = "running" =>
           /\ bridge[v] = "running"
           /\ registry'[profile[v]] = registry[profile[v]]
           /\ starter'[v] = starter[v]
  PROVE  BridgeInv'
  BY DEF BridgeInv, Entry

\* A worker is registered only when its profile has no entry.
LEMMA RegisterFindsNone ==
  ASSUME BridgeInv, Orderly', Register
  PROVE  registry[profile[lock.id]].id = 0
<1> DEFINE p == profile[lock.id]
           o == registry[p].id
<1>1. lock.id \in Spawns /\ p \in Profiles /\ lock.at = "register"
  BY DEF Register, BridgeInv, TabInv, TypeOK, Free
<1>2. reaper[lock.id] = "none"
  BY <1>1 DEF BridgeInv, TabInv, Unborn
<1>3. SUFFICES ASSUME o # 0 PROVE FALSE
  OBVIOUS
<1>4. o \in Spawns /\ profile[o] = p /\ reaper[o] = "waiting"
  BY <1>1, <1>3 DEF BridgeInv, TabInv, TypeOK, Waited, NoEntry
<1>5. reaper'[o] = "waiting" /\ registry'[p].id = lock.id /\ profile' = profile
  BY <1>1, <1>2, <1>4 DEF Register, BridgeInv, TabInv, TypeOK
<1>6. QED
  BY <1>2, <1>4, <1>5 DEF Orderly, Entry

LEMMA BridgeInvSpawn ==
  ASSUME BridgeInv, Orderly', TabInv', Lock \/ SpawnStep
  PROVE  BridgeInv'
<1>1. CASE Lock \/ Start \/ ReadPort
  BY <1>1, BridgesQuiet DEF Lock, Start, ReadPort
<1>2. CASE Register
  <2>1. lock.id \in Spawns /\ profile[lock.id] \in Profiles
    BY <1>2 DEF Register, BridgeInv, TabInv, TypeOK, Free
  <2>2. registry[profile[lock.id]].id = 0
    BY <1>2, RegisterFindsNone
  <2>3. ASSUME NEW v \in Spawns, bridge[v] = "running"
        PROVE  profile[v] # profile[lock.id]
    BY <2>2, <2>3 DEF BridgeInv, Entry, Spawns
  <2>4. QED
    BY <1>2, <2>1, <2>3, BridgesQuiet DEF Register, BridgeInv, TabInv, TypeOK
<1>3. QED
  BY <1>1, <1>2 DEF SpawnStep

LEMMA BridgeInvProcess ==
  ASSUME BridgeInv, Orderly, Orderly', TabInv', NEW w \in Spawns,
         WritePort(w) \/ WorkerExits(w) \/ Reap(w) \/ StartBridge(w) \/ StoreBridge(w) \/ BridgeExits(w)
  PROVE  BridgeInv'
<1> USE DEF BridgeInv, TabInv
<1>1. CASE WritePort(w) \/ WorkerExits(w)
  BY <1>1, BridgesQuiet DEF WritePort, WorkerExits
<1>2. CASE BridgeExits(w)
  BY <1>2, BridgesQuiet DEF BridgeExits, TypeOK
<1>3. CASE Reap(w)
  <2>1. Entry(w).id = w /\ profile[w] \in Profiles /\ registry'[profile[w]] = NoEntry
    BY <1>3 DEF Reap, Orderly, TypeOK
  <2>2. \A v \in Spawns : profile[v] # profile[w] => registry'[profile[v]] = registry[profile[v]]
    BY <1>3 DEF Reap, TypeOK
  <2>3. ASSUME NEW v \in Spawns, bridge'[v] = "running"
        PROVE  bridge[v] = "running" /\ profile[v] # profile[w]
    <3>1. bridge[v] = "running"
      BY <1>3, <2>3 DEF Reap, Kill, TypeOK
    <3>2. CASE profile[v] = profile[w]
      <4>1. v = w /\ starter[w] # "storing"
        BY <1>3, <2>1, <3>1, <3>2 DEF Reap, Orderly, Entry, NoEntry, Spawns
      <4>2. Entry(w).bridge = w
        BY <3>1, <4>1
      <4>3. bridge' = Kill(bridge, w)
        BY <1>3, <4>2 DEF Reap, Spawns
      <4>4. QED
        BY <2>3, <3>1, <4>1, <4>3 DEF Kill, Alive, TypeOK
    <3>3. QED
      BY <3>1, <3>2
  <2>4. QED
    BY <1>3, <2>2, <2>3, BridgesQuiet DEF Reap
<1>4. CASE StartBridge(w)
  <2>1. /\ UNCHANGED <<profile, registry>>
        /\ starter[w] = "sleeping" /\ Entry(w).id = w
        /\ \A v \in Spawns : v # w => starter'[v] = starter[v] /\ bridge'[v] = bridge[v]
    BY <1>4 DEF StartBridge, Orderly, TypeOK
  <2>2. bridge'[w] = "running" => starter'[w] = "storing" \/ (bridge[w] = "running" /\ Entry(w).bridge = w)
    <3>1. CASE starter' = [starter EXCEPT ![w] = "storing"]
      BY <3>1 DEF TypeOK
    <3>2. CASE UNCHANGED bridge
      BY <2>1, <3>2
    <3>3. QED
      BY <1>4, <3>1, <3>2 DEF StartBridge
  <2>3. QED
    BY <2>1, <2>2 DEF Entry
<1>5. CASE StoreBridge(w)
  <2>1. Entry(w).id = w /\ Entry(w) # NoEntry /\ profile[w] \in Profiles
    BY <1>5 DEF StoreBridge, Orderly, TypeOK, NoEntry, Spawns
  <2>2. /\ UNCHANGED <<profile, bridge>>
        /\ \A v \in Spawns : v # w => starter'[v] = starter[v]
        /\ \A v \in Spawns : profile[v] # profile[w] => registry'[profile[v]] = registry[profile[v]]
    BY <1>5, <2>1 DEF StoreBridge, TypeOK
  <2>3. Entry(w) \in [id : Spawns, port : 0..MaxSpawns, bridge : 0..MaxSpawns]
    BY <2>1 DEF TypeOK, Entry
  <2>4. registry'[profile[w]] = [Entry(w) EXCEPT !.bridge = w]
    BY <1>5, <2>1 DEF StoreBridge, TypeOK, Entry
  <2>5. registry'[profile[w]].id = w /\ registry'[profile[w]].bridge = w
    BY <2>1, <2>3, <2>4
  <2>6. ASSUME NEW v \in Spawns, bridge[v] = "running", profile[v] = profile[w]
        PROVE  v = w
    BY <2>1, <2>6 DEF Entry
  <2>7. QED
    BY <2>2, <2>5, <2>6 DEF Entry
<1>6. QED
  BY <1>1, <1>2, <1>3, <1>4, <1>5

LEMMA BridgeInvInit == Init => BridgeInv
  BY TabInvInit DEF Init, BridgeInv

LEMMA BridgeInvStep ==
  BridgeInv /\ Orderly /\ Orderly' /\ [Next]_vars => BridgeInv'
<1> SUFFICES ASSUME BridgeInv, Orderly, Orderly', [Next]_vars PROVE BridgeInv'
  OBVIOUS
<1>1. TabInv'
  BY TabInvStep DEF BridgeInv
<1>2. CASE MainRestarts
  <2>1. restarts' = restarts + 1 /\ restarts = 0 /\ restarts' = 0
    BY <1>2 DEF MainRestarts, Orderly
  <2>2. QED
    BY <2>1
<1>3. CASE UNCHANGED vars
  BY <1>1, <1>3, BridgesQuiet DEF vars
<1>4. QED
  BY <1>1, <1>2, <1>3, BridgeInvSpawn, BridgeInvProcess DEF Next

\* For any number of profiles and spawns: as long as the main process lives, no bridge
\* is started or stored for a worker that is no longer registered, and no worker is
\* registered before the goroutine of the last one is done, a profile has one bridge.
THEOREM OneBridgeWhileOrderly == Spec /\ []Orderly => []OneBridgePerProfile
<1>1. BridgeInv => OneBridgePerProfile
  BY DEF BridgeInv, Entry, OneBridgePerProfile
<1>2. QED
  BY <1>1, BridgeInvInit, BridgeInvStep, PTL DEF Spec

=============================================================================
