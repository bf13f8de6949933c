------------------------------ MODULE ProxyJar ------------------------------
(***************************************************************************)
(* The cookie jar of the proxy (internal/proxy/proxy.go).  Requests for    *)
(* /proxy share one http.Client, made when it is first wanted, and through *)
(* it one cookie jar.  The agent server's requests reset the jar, save it  *)
(* to cookies.json and load it from there; so does the start of the        *)
(* process.  Nothing locks the two global pointers.                        *)
(*                                                                         *)
(* A cookie is the host that set it: what matters is where it is kept.     *)
(* What a jar hands out (http.Cookie) has a name and a value, and no       *)
(* Domain: a saved cookie does not say whose it was.                       *)
(***************************************************************************)
EXTENDS Naturals

CONSTANTS Hosts,        \* the hosts that pages are fetched from
          Fetches,      \* requests for /proxy served at the same time
          Keepers,      \* requests that reset, save or load served at the same time
          MaxRequests,  \* bound: requests of either kind
          MaxProcesses  \* bound: starts of the process

ASSUME ProxyAssumption == MaxRequests \in Nat /\ MaxProcesses \in Nat \ {0}

Jars == 1..(MaxRequests + 1)

VARIABLES
  cookies,    \* what globalJar has: the cookies given to each host
  jar,        \* which jar that is: they are numbered as they are made
  globalClient,  \* the jar it was made with; 0 when nil
  known,      \* knownHostsSet
  file,       \* cookies.json
  tmp,        \* cookies.json.tmp, and who has it open
  fetch,      \* the request for /proxy of each goroutine
  keeper,     \* the request of the agent server of each goroutine
  requests, processes,  \* how many there were, for the bounds
  reached,    \* history: the hosts that redirects led to
  raced,      \* history: a client was being made while the jar was reset
  crossed     \* history: two goroutines used cookies.json.tmp at once

memory    == <<cookies, jar, globalClient, known>>
disk      == <<file, tmp>>
counts    == <<requests, processes>>
history   == <<reached, raced, crossed>>
proxyVars == <<memory, disk, fetch, keeper, counts, history>>

Empty    == [h \in Hosts |-> {}]
NoFile   == [whole |-> TRUE, has |-> {}]
NoTmp    == [there |-> FALSE, whole |-> FALSE, has |-> {}, open |-> {}]
NewTmp(k) == [there |-> TRUE, whole |-> FALSE, has |-> {}, open |-> tmp.open \cup {k}]
NoFetch  == [at |-> "idle", host |-> "none", jar |-> 0]
NoKeeper == [at |-> "idle", todo |-> {}, got |-> {}]

\* No request goes on without a client.  A file is whole when it is JSON: all of what
\* one save wrote, and no more.
ProxyTypeOK ==
  /\ cookies \in [Hosts -> SUBSET Hosts]
  /\ jar \in Jars /\ globalClient \in {0} \cup Jars
  /\ known \subseteq Hosts
  /\ file \in [whole : BOOLEAN, has : SUBSET Hosts]
  /\ tmp \in [there : BOOLEAN, whole : BOOLEAN, has : SUBSET Hosts, open : SUBSET Keepers]
  /\ fetch \in [Fetches -> {NoFetch}
                           \cup [at : {"client"}, host : Hosts, jar : {0}]
                           \cup [at : {"publish", "do"}, host : Hosts, jar : Jars]]
  /\ keeper \in [Keepers -> [at : {"idle", "forget", "walk", "open", "write", "rename", "set"},
                             todo : SUBSET Hosts, got : SUBSET Hosts]]
  /\ requests \in 0..MaxRequests /\ processes \in 1..MaxProcesses
  /\ reached \subseteq Hosts /\ raced \in BOOLEAN /\ crossed \in BOOLEAN

ProxyInit ==
  /\ cookies = Empty /\ jar = 1 /\ globalClient = 0
  /\ known = {}
  /\ file = NoFile /\ tmp = NoTmp
  /\ fetch = [f \in Fetches |-> NoFetch]
  /\ keeper = [k \in Keepers |-> NoKeeper]
  /\ requests = 0 /\ processes = 1
  /\ reached = {} /\ raced = FALSE /\ crossed = FALSE

\* A request comes in.
Request == requests < MaxRequests /\ requests' = requests + 1

FetchAt(f, place)  == fetch[f].at = place
KeeperAt(k, place) == keeper[k].at = place
KeeperGoes(k, place) == keeper' = [keeper EXCEPT ![k].at = place]
KeeperDone(k)        == keeper' = [keeper EXCEPT ![k] = NoKeeper]

-----------------------------------------------------------------------------
(* ServeHTTP and getClient. *)

\* Mutant of Visit: only hosts that have set a cookie are tracked.
VisitUntracked(f, h) ==
  /\ FetchAt(f, "idle") /\ Request
  /\ fetch' = [fetch EXCEPT ![f] = [at |-> "client", host |-> h, jar |-> 0]]
  /\ known' = IF cookies[h] = {} THEN known ELSE known \cup {h}
  /\ UNCHANGED <<cookies, jar, globalClient, disk, keeper, processes, history>>

\* The host is tracked before anything is fetched from it.
Visit(f, h) ==
  /\ FetchAt(f, "idle") /\ Request
  /\ fetch' = [fetch EXCEPT ![f] = [at |-> "client", host |-> h, jar |-> 0]]
  /\ known' = known \cup {h}
  /\ UNCHANGED <<cookies, jar, globalClient, disk, keeper, processes, history>>

\* The client there is, or a new one with the jar there is.
GetClient(f) ==
  /\ FetchAt(f, "client")
  /\ fetch' = [fetch EXCEPT ![f].at = IF globalClient # 0 THEN "do" ELSE "publish",
                            ![f].jar = IF globalClient # 0 THEN globalClient ELSE jar]
  /\ UNCHANGED <<memory, disk, keeper, counts, history>>

\* globalClient = c, whatever has become of globalJar.
Publish(f) ==
  /\ FetchAt(f, "publish")
  /\ globalClient' = fetch[f].jar
  /\ fetch' = [fetch EXCEPT ![f].at = "do"]
  /\ UNCHANGED <<cookies, jar, known, disk, keeper, counts, history>>

\* A response of client.Do: the client's jar keeps the cookie it sets, if any comes.
\* Nobody looks into a jar that is not the global one any more.  The client follows
\* redirects itself, and nobody tracks where they lead.
Do(f) ==
  /\ FetchAt(f, "do")
  /\ \/ /\ fetch[f].jar = jar
        /\ cookies' = [cookies EXCEPT ![fetch[f].host] = @ \cup {fetch[f].host}]
     \/ UNCHANGED cookies
  /\ \/ fetch' = [fetch EXCEPT ![f] = NoFetch] /\ UNCHANGED reached
     \/ \E h \in Hosts \ {fetch[f].host} : /\ fetch' = [fetch EXCEPT ![f].host = h]
                                           /\ reached' = reached \cup {h}
  /\ UNCHANGED <<jar, globalClient, known, disk, keeper, counts, raced, crossed>>

Fetch(f) == (\E h \in Hosts : Visit(f, h)) \/ GetClient(f) \/ Publish(f) \/ Do(f)

-----------------------------------------------------------------------------
(* ResetCookies. *)

ResetJar(k) ==
  /\ KeeperAt(k, "idle") /\ Request
  /\ jar' = jar + 1 /\ cookies' = Empty
  /\ KeeperGoes(k, "forget")
  /\ UNCHANGED <<globalClient, known, disk, fetch, processes, history>>

\* Mutant of ForgetClient: the client stays.
ForgetNothing(k) ==
  /\ KeeperAt(k, "forget")
  /\ raced' = (raced \/ \E f \in Fetches : FetchAt(f, "publish") /\ fetch[f].jar # jar)
  /\ KeeperDone(k)
  /\ UNCHANGED <<cookies, jar, globalClient, known, disk, fetch, counts, reached, crossed>>

ForgetClient(k) ==
  /\ KeeperAt(k, "forget")
  /\ globalClient' = 0
  /\ raced' = (raced \/ \E f \in Fetches : FetchAt(f, "publish") /\ fetch[f].jar # jar)
  /\ KeeperDone(k)
  /\ UNCHANGED <<cookies, jar, known, disk, fetch, counts, reached, crossed>>

-----------------------------------------------------------------------------
(* SaveCookies. *)

SaveListsHosts(k) ==
  /\ KeeperAt(k, "idle") /\ Request
  /\ keeper' = [keeper EXCEPT ![k] = [at |-> "walk", todo |-> known, got |-> {}]]
  /\ UNCHANGED <<memory, disk, fetch, processes, history>>

\* The cookies of one more host, of the jar that is the global one by then.
SaveReads(k, h) ==
  /\ KeeperAt(k, "walk") /\ h \in keeper[k].todo
  /\ keeper' = [keeper EXCEPT ![k].todo = @ \ {h}, ![k].got = @ \cup cookies[h]]
  /\ UNCHANGED <<memory, disk, fetch, counts, history>>

\* Without cookies nothing is written, and what was saved earlier stays.
SaveHasRead(k) ==
  /\ KeeperAt(k, "walk") /\ keeper[k].todo = {}
  /\ IF keeper[k].got = {} THEN KeeperDone(k) ELSE KeeperGoes(k, "open")
  /\ UNCHANGED <<memory, disk, fetch, counts, history>>

\* Somebody is between opening the temporary file and renaming it.
Saving == \E k \in Keepers : keeper[k].at \in {"write", "rename"}

\* Mutant of SaveOpens: there is no temporary file to begin with.
SaveOpensFile(k) ==
  /\ KeeperAt(k, "open")
  /\ file' = [whole |-> FALSE, has |-> {}]
  /\ tmp' = NewTmp(k)
  /\ crossed' = (crossed \/ Saving)
  /\ KeeperGoes(k, "write")
  /\ UNCHANGED <<memory, fetch, counts, reached, raced>>

\* os.WriteFile opens the file, and truncates it ...
SaveOpens(k) ==
  /\ KeeperAt(k, "open")
  /\ tmp' = NewTmp(k)
  /\ crossed' = (crossed \/ Saving)
  /\ KeeperGoes(k, "write")
  /\ UNCHANGED <<memory, file, fetch, counts, reached, raced>>

\* ... and writes.  Somebody else may have written since, from the start as well.
SaveWrites(k) ==
  /\ KeeperAt(k, "write")
  /\ tmp' = [tmp EXCEPT !.whole = tmp.has \in {{}, keeper[k].got},
                         !.has = @ \cup keeper[k].got,
                         !.open = @ \ {k}]
  /\ KeeperGoes(k, "rename")
  /\ UNCHANGED <<memory, file, fetch, counts, history>>

\* Windows renames no file that is open, nor one that is gone.
SaveRenames(k) ==
  /\ KeeperAt(k, "rename")
  /\ tmp.there /\ tmp.open = {}
  /\ file' = [whole |-> tmp.whole, has |-> tmp.has]
  /\ tmp' = NoTmp
  /\ KeeperDone(k)
  /\ UNCHANGED <<memory, fetch, counts, history>>

\* An error of any of the calls is returned; a write that failed leaves some of it.
SaveFails(k) ==
  /\ keeper[k].at \in {"open", "write", "rename"}
  /\ tmp' = [tmp EXCEPT !.open = @ \ {k}]
  /\ KeeperDone(k)
  /\ UNCHANGED <<memory, file, fetch, counts, history>>

Save(k) ==
  \/ SaveListsHosts(k) \/ (\E h \in Hosts : SaveReads(k, h)) \/ SaveHasRead(k)
  \/ SaveOpens(k) \/ SaveWrites(k) \/ SaveRenames(k) \/ SaveFails(k)

-----------------------------------------------------------------------------
(* LoadCookies. *)

\* A file that is not JSON is an error.
LoadReads(k) ==
  /\ KeeperAt(k, "idle") /\ Request /\ file.whole
  /\ keeper' = [keeper EXCEPT ![k] = [at |-> "set", todo |-> file.has, got |-> {}]]
  /\ UNCHANGED <<memory, disk, fetch, processes, history>>

\* A cookie goes to the first of the known hosts, in no order: any of them, whoever
\* set it.  When no host is known it is dropped.
Placed(c) ==
  IF known = {} THEN {cookies}
  ELSE {[cookies EXCEPT ![h] = @ \cup {c}] : h \in known}

LoadSets(k, c) ==
  /\ KeeperAt(k, "set") /\ c \in keeper[k].todo
  /\ cookies' \in Placed(c)
  /\ keeper' = [keeper EXCEPT ![k].todo = @ \ {c}]
  /\ UNCHANGED <<jar, globalClient, known, disk, fetch, counts, history>>

LoadReturns(k) ==
  /\ KeeperAt(k, "set") /\ keeper[k].todo = {}
  /\ KeeperDone(k)
  /\ UNCHANGED <<memory, disk, fetch, counts, history>>

Load(k) == LoadReads(k) \/ (\E c \in Hosts : LoadSets(k, c)) \/ LoadReturns(k)

-----------------------------------------------------------------------------
\* The process ends, at any step, and is started again: init makes a jar and
\* loads cookies.json, when no host is known yet.
ProxyRestarts ==
  /\ processes < MaxProcesses
  /\ processes' = processes + 1
  /\ cookies' = Empty /\ jar' = 1 /\ globalClient' = 0
  /\ known' = {}
  /\ tmp' = [tmp EXCEPT !.open = {}]
  /\ fetch' = [f \in Fetches |-> NoFetch]
  /\ keeper' = [k \in Keepers |-> NoKeeper]
  /\ raced' = FALSE /\ reached' = {}
  /\ UNCHANGED <<file, requests, crossed>>

ProxyNext ==
  \/ \E f \in Fetches : Fetch(f)
  \/ \E k \in Keepers : ResetJar(k) \/ ForgetClient(k) \/ Save(k) \/ Load(k)
  \/ ProxyRestarts

ProxySpec == ProxyInit /\ [][ProxyNext]_proxyVars

-----------------------------------------------------------------------------
(* Properties. *)

\* Requests keep their cookies in the jar that is saved, loaded and reset: the
\* client never holds on to an earlier one, or every login after a reset would be
\* lost.  Resetting while a client is being made is what the code does not survive.
OneJar ==
  globalClient \in {0, jar} \/ raced \/ \E k \in Keepers : KeeperAt(k, "forget")

\* SaveCookies asks the jar only for the hosts it knows.  It misses no cookie for it,
\* whatever jar and client the cookie came through, but those of hosts that nobody
\* asked for and a redirect led to.
NoCookieUnsaved == \A h \in Hosts : cookies[h] # {} => h \in known \cup reached

\* "The file is written atomically (temp file + rename) so a crash mid-write cannot
\* corrupt the cookie store" (proxy.go:198-199): wherever the process ends,
\* cookies.json can be read, unless two saves ran into each other.
FileStaysWhole == file.whole \/ crossed
=============================================================================
