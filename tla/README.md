# TLA+ models of SamWeb

SamWeb is a desktop browser (Go, WebView2 through wails) that keeps one signed-in session per
profile. Every profile has a *tab worker* process showing `chat.z.ai`, and a Python *bridge* process
that relays the messages of AICQ friends to that page and streams the page's answers back. This
directory holds TLA+ models of the parts where processes, goroutines, timers, files and a remote page
meet, TLC configurations that check them on small instances, and TLAPS proofs of what matters most
for every size.

Contents: 1 the system · 2 modules and their code · 3 runs · 4 bounds and reductions · 5 fairness ·
6 proofs · 7 disagreements with the repository · 8 what is not modelled · 9 plan.

## 1. The system

Paths are relative to `src/`.

| Component | State | Operations | What makes it correct |
|---|---|---|---|
| CDP client, commands (`internal/cdp/client.go`) | one WebSocket, the `pending` table, `nextID`, a reader goroutine | `send` (one retry), `sendNoRetry`, `Reconnect`, `readLoop` | a reply goes to its command; nobody blocks while holding the mutex; the table leaks nothing; each call returns |
| CDP client, Fetch capture | `fetchEnabled`, `fetchPaused` (offsets), `fetchChunks` | `handleFetchPaused` and its goroutines, enable, disable, finish, poll, `GetFetchChunks` | no byte of a body is lost; the page's fetch does not hang |
| CDP client, network and SSE capture | `requestMap`, captured requests, SSE messages | enable, disable, get, clear, `handleEvent` | a body belongs to its request |
| CDP client, page input (`mouse.go`, `touch.go`) | none | click, type, drag, touch | — |
| Tab workers (`wails_backend.go`, `tab_worker.go`) | `tabWorkerRegistry`, `portAllocMu`, the `agent_port` files, processes | `SpawnTab`, reaping, `spawnAICQBridge`, automatic spawn at start | one worker per profile (they share a user-data-dir), one bridge per profile, no dead entries |
| Tab worker, login injection (`tab_worker.go`) | the worker's window, cookies and localStorage | the goroutine of `runTabWorker`, `injectProfileStorage` | a worker comes up signed in as its profile |
| Backend, dispatch (`wails_backend.go`, `callback_handler.go`, `browser.go`) | `pend`, `reqCounter`, the script in the page | `dispatch`, `HandleCallback`, the page's post | a result reaches the request that asked for it, once |
| Backend, profiles and cookies (`wails_backend.go`) | `skipNextClearOnNav`, the browser's cookies and localStorage, `cdp-cookies.json` | `SwitchToProfile`, `SaveCurrentCookiesToProfile`, `CDPNavigateTop`, `ResetCookies`, ... | the login of one profile is never mixed with another's |
| Profile store (`profiles.go`) | the profiles, in memory and in `profiles.json` | load, save, create, rename, delete, activate, update | no update is lost, the file is always whole |
| AICQ bridge (`scripts/aicq_bridge.py`) | two queues, `chat_map`, the state of one answer | message callbacks, main loop, `/new`, `/release`, relay of an answer, usage-limit bypass, groups, auto-stream at start | everyone is answered, with the right text, from the right chat |
| Agent HTTP server (`internal/agent`) | none of its own | token, decode, call the backend or the CDP client, encode | every request is answered |
| Proxy (`internal/proxy`) | shared client, cookie jar, known hosts, `cookies.json` | fetch, `ResetCookies`, `SaveCookies`, `LoadCookies` | logins survive; the file is readable |
| UI (`internal/browser/ui/app.js`) | tabs, histories | desktop window | — |
| go-webview2 patch, scripts, search, breakthrough, entry points | — | vendored bindings, tools, stateless helpers | — |

How they interact:

    AICQ friend <-> AICQ core (Python) <-> bridge process        one per profile
                                              | HTTP /agent/*
                                           tab worker process    one per profile
                                              | agent server -> Backend -> dispatch -> own page
                                              |                        \-> CDP client
                                              | WebSocket
                                           WebView2 (z.ai page)
    main process: SpawnTab starts workers and bridges; switches, saves and loads profiles;
                  profiles.json is shared with the workers, which read it

What is hard about it:

- *Concurrency inside a process.* Every HTTP request, JavaScript callback, reader and Fetch
  goroutine shares one CDP client, one profile store, one cookie jar and one window. Reconnecting
  gives up the mutex while it dials; the proxy's two global pointers have no mutex at all.
- *Time.* Almost every wait is a sleep or a timer: 10 s for a command, 60 s for a script, 20 s before
  a bridge is started, 3 s before a page is taken to be loaded, 720 polls of 5 s for an answer. What
  was true before the wait need not be true after it.
- *A page that is not under control.* z.ai refuses, rewrites its answers, reuses elements, deletes
  chats; SamWeb's own page may be reloaded or left while it runs a script.
- *Several processes and files.* The registry lives in memory only; profiles and cookies are loaded
  once and saved whole, through temporary files; a worker's browser data outlives the worker.

`PROJECT.json` lists the hazards at their lines, with the properties aimed at each.

## 2. Modules and their code

Each component is a module, with an `MC_` module for TLC and, where theorems exist, a `_proof`
module that extends it. An operator keeps the name of the function it stands for where there is one;
operators called "Mutant of X" are plausible bugs that are used nowhere in the specifications and
serve to test the properties.

**CDPConn** — `send`, `sendNoRetry`, `Reconnect`, `readLoop`. A member of `Calls` is one invocation
of `send`; each of its two attempts has a channel of capacity 1. Every section under `c.mu` is one
step (`Write`, `Timeout`, `Reset`, `Install`, ...); dialling and waiting are steps of their own.
`readLoop` has the three places where it can be interrupted: the top, where it picks up whatever
connection is current, `ReadMessage`, and the send into a channel after the mutex was released. Two
readers on one connection, which Reconnect makes possible, may tear a frame (`TornRead`). `wire`
holds commands whose reply was not read; the browser may answer late, or never, in any order.

**Rpc** — the abstract specification of a command: what a caller of `send` may rely on. It has no
connections, ids, tables or readers; a call is about to write, waits, or is back, and the browser may
still answer what was written. The command is written at most twice, the second time only after the
first attempt was given up, and a reply ends only the attempt it is the reply to. CDPConn implements
it (`ServesCalls`); that a command *runs* once is not part of it, since a command that timed out may
have run.

**FetchCapture** — the Fetch domain from `Fetch.requestPaused` to `Fetch.continueResponse`. Threads
are the goroutines that `handleFetchPaused` starts and the HTTP handlers; each section under
`fetchMu` is one step and each CDP command another. A command succeeds or fails; CDPConn shows that
it returns. A chunk is an interval of a body, so lost and repeated bytes are visible. `failed` is the
set of responses whose own `Fetch.continueResponse` failed (its error is not looked at), and "other"
for any other failure. An event that finds capture off is dropped ("dropped").

**Dispatch** — a request of `/agent/*` that runs JavaScript in SamWeb's own page, from the token to
the status line. `Routes` is the table of handlers in `server.go`: what each decodes, checks, passes
on and answers to an error. `dispatch` is `Register`, `Execute`, and the select (`Receive`, `GiveUp`
and `Leave`); `HandleCallback` is `Callback`, under the lock, and `Send`, outside it. The page may
not have its script yet, may be left and come back (`Move`), and its post may be lost or late.

**ProxyJar** — the shared `http.Client` and cookie jar of the proxy: `getClient`'s check and its
assignment are two steps, `ResetCookies` is two (jar, then client), and a save lists hosts, reads
each from the jar, opens, writes and renames `cookies.json.tmp`. Jars are numbered, so a client made
with an old one is visible. The process may end between any two steps.

**TabWorkers** — the main process's spawn lock, registry, reaping goroutines and delayed bridge
start, with the worker and bridge processes, which may end at any time, and restarts of the main
process. Nobody waits for the goroutine of a killed worker, so it may come after the next worker was
registered, and then deletes that one's entry. Two history variables name the workers that the
registry has lost: `left`, those that ran when the main process restarted, and `unlisted`, those whose
entry the goroutine of another worker deleted.

**TabLogin** — inside one worker: connecting, opening the start page, reading the profile, cookies,
then each origin of its localStorage in any order, the check of the token whose short reply ends the
worker (`CheckToken`), and the reload. Others save the profile, log in or navigate meanwhile. The
`dir` survives the worker, so a launch may find what an earlier one left half done.

**Profiles**, **ProfileBook**, **ProfileStore** — `Profiles` has every method of the store as a
function from a store to the set of stores it may leave (none when it returns an error).
`ProfileBook` is the abstract specification: each call is one step that is saved, unsaved or refused,
and a restart goes back to what is on disk. `ProfileStore` is the code: `load` at the head of each
method, the edit under `s.mu`, and a save in three system calls, each of which may fail or be the
last of the process. It implements `ProfileBook` under the refinement mapping `Book` (what callers
see is the state before the edit that is still under the mutex, or the file when nothing was loaded).

**Sessions** — extends ProfileStore with the requests of the backend that use it: `SwitchToProfile`
with the goroutine it leaves behind, `SaveCurrentCookiesToProfile`, `RenameProfile`,
`DeleteProfile`, `CDPNavigateTop` with its count of wipes to skip, `ResetCookies`, `SaveCookies`,
`LoadCookies`. A CDP command is one step and may fail. A login is the account it belongs to, so
cookies of one account beside the localStorage of another are visible.

**AnswerStream** — the relay of one message by `run_bridge`: sending with its presses of Enter, the
baseline, and the poll loop with the Fetch buffer, the stop button, the two readers (DOM and eval),
the error kinds and their recovery (release of workspaces, bypass), the incremental stream,
stability, and the last look when the polls run out. A text is a sequence of pieces that name the
answer they belong to; the page may append a message, reuse the last one, let it grow or rewrite it.

**Turn** — the abstract specification of that relay, as the main loop and the friend see it: the text
is typed, perhaps again after a bypass; something is streamed; and it is over when the stream was
ended or the friend was told that the text could not be sent, one of the two and once. Only a failing
call of the AICQ core may cost the end, or end the bridge. AnswerStream implements it
(`KeepsContract`).

**AutoStream** — step 3b of `run_bridge`: a bridge that starts while z.ai is writing goes on with
that answer until its text is stable, unreadable, or the cycles run out. It reads without a
baseline, so it may read the message before. The listeners for messages are registered only after it
(1901), so no message waits for it.

**Bridge** — the main loop of `run_bridge`: which chat a message goes to. It has both queues,
`chat_map`, `/new`, `/release`, first messages, continued chats, the usage-limit bypass and group
messages. The relay of one answer is one step with the outcomes that Turn has (over, down, typed
again after a bypass, or not typed again and the relay goes on); sending it again after a release of
workspaces stays in the same chat. `/new` and the bypass delete all chats or only those they can
(`zai_delete_all_chats` gives up after a dozen failing tries), so a chat may outlive its deletion and
still be shown.

**Mailbox** — the abstract specification of the main loop: private messages are answered one at a
time, in the order they came, each once, whatever group messages, new chats, deleted chats and
bypasses come between; the bridge may end over one. Bridge implements it (`InOrder`).

How the modules compose: `Sessions` contains `ProfileStore` (its actions are the store's, joined with
the request's own state) and inherits its refinement. The others compose by contract, and the
contract is an abstract specification that one side implements: FetchCapture, TabLogin and Sessions
assume of a command what Rpc says, and that it returns (CDPConn's `ServesCalls`, `EveryCallReturns`);
Bridge's steps of a relay are those of Turn (AnswerStream's `KeepsContract`), and that it ends is
`EveryAnswerEnds`. A worker of TabWorkers may go at any time, which covers every way a worker of
TabLogin ends.

## 3. Runs

| Run | Distinct states | Question and answer |
|---|---|---|
| cdpconn | 1.74 M | two calls, three connections, one fault: senders never block (`NoSenderBlocks`), replies match (`RepliesReachTheirCommand`), the table is exact (`PendingHasItsWaiter`) and forgets nobody (`NoWaiterForgotten`), a client whose redial failed stays dead (`LostForGood`: the code never dials on "not connected"), callers are served as Rpc says (`ServesCalls`), and every call returns |
| cdpconn_single | violation | two calls reconnect at once, one connection leaks |
| agent | 0.37 M | three independent parts. *Bodies*: one response, its goroutine, any sequence of handlers, failing commands, a lost connection: no bytes skipped, and a held response is let go unless its own `Fetch.continueResponse` failed (`HeldResponsesContinue`). *Scripts*: two calls from one of each kind of route, a page that goes and comes back: own answers only, once, the map of channels does not grow, callbacks return, every call is answered. *Cookies*: fetches, resets, saves, loads and a restart: fetches stay on the jar that is saved, no host's cookies are missed by a save, the file stays readable |
| agent_params | violation | a request with parameters is never called back |
| fetch_twice | violation | a poll that overlaps the goroutine hands out bytes twice |
| tabs | 0.25 M | *Workers*: three spawns, two profiles, one restart: a running worker is listed, or being spawned, or one of those the registry is known to lose, and only one of these shares a user-data-dir with another (`WorkersAccountedFor`); the lock is given back, dead entries go. *Login*: two launches, two origins: an injection that was not disturbed leaves the whole login, whatever an earlier launch left half done; it ends. *Resume*: a bridge starts while z.ai writes: the auto-stream's differences add up on the screen (`AutoScreen`), its stream is ended, and the bridge gets to its main loop (`QueueIsReached`) |
| tabs_bridges | violation | two spawns within 20 s leave two bridges |
| sessions | 0.33 M | sequences of three requests (two when they overlap), two accounts, one failing command, save or crash: accounts stay apart while nothing overlapped or failed, what the store returned without error is on disk, the store implements the book, every request ends |
| sessions_switch | violation | a second switch while the goroutine of the first sleeps mixes two accounts |
| answer | 2.06 M | one message, every kind of refusal, the stop button, rewriting: the screen shows what the bridge believes, the relay keeps to the contract of Turn (`KeepsContract`: one end, or one notice), and it ends |
| answer_old | violation | the two readers count differently and an old answer is streamed |
| bridge | 1.72 M | two friends, a group, three chats, one fault, chats that cannot be deleted: contexts are kept and apart, messages are answered in order (`InOrder`), each of them some day |

`LostForGood` describes what the code does, wanted or not: it is what an operator of the system has
to know (restart the worker when a redial has failed).

Some properties except what the code does not survive, by name, so that the exception is part of the
statement: `OneJar` says "unless a client was being made during a reset" (`raced`), `FileStaysWhole`
"unless two saves used the temporary file at once" (`crossed`), `NoCookieUnsaved` "but for hosts only
a redirect led to" (`reached`), `OnlyEarlyCallsLeak` "but for calls before there was a context",
`AccountsApart` "as long as nothing overlapped or failed, no cookie file was loaded, and the saved
profiles were whole" (`disturbed`),
`HeldResponsesContinue` "unless its own `Fetch.continueResponse` failed" (`failed`),
`WorkersAccountedFor` "but for those lost at a restart or by another's goroutine" (`left`, `unlisted`;
the property also says that these *are* lost), `ContextKept` "unless somebody else's `/new` or a usage
limit deleted the chats" (`wiped`). Dropping any of these makes the property false.

Type invariants that are proved for every size are left to the proofs where the run has more to say
(those of CDPConn, Dispatch, ProxyJar and TabLogin); the others stay in their runs.

`CHECK_DEADLOCK FALSE` is set everywhere because all of these systems may come to rest: calls
return, mail stops, spawns end. What has to go on is stated as a liveness property instead.

Every property of a passing run has a mutant under "mutants" in `PROJECT.json` which makes TLC
report it violated in the same run.

## 4. Bounds and reductions

| Bound | Value | Why it is enough |
|---|---|---|
| `Calls` (CDPConn) | 2 | interference in the client is pairwise: two Reconnects, two readers on one socket, a retry against a late reply. Each call has two attempts, so four commands are under way. The proofs are for any set |
| `MaxFaults` (CDPConn) | 1 | timeouts, late replies and failing dials are not faults and stay unbounded |
| `ReplyKinds` | `{"result"}` in cdpconn | an error reply ends or retries a call like a timeout does, which every call may have; the proofs are for all three kinds |
| `Requests`, `Handlers` (FetchCapture) | 1, 1 | a chunk's offset depends on its own request only; the race is one goroutine against one handler. The proof is for any number |
| `MaxBody`, `MaxChunks` | 3, 3 | a body seen in three growing pieces, recorded over several sessions |
| `Calls`, `Served`, `MaxMoves` (Dispatch) | 2, five methods, 2 | a late callback against another call; the methods are one of each kind: without parameters, with parameters, unknown to the page, a status of its own (504, 200); the page leaves and comes back. Proofs for any calls and methods |
| `Hosts`, `Fetches`, `Keepers`, `MaxRequests`, `MaxProcesses` (ProxyJar) | 2, 1, 2, 4, 2 | one host known and one only redirected to; a fetch against a reset; two saves at once, or a save against a load or a reset; a save cut off by a restart, then loaded. Proofs for any numbers, several fetches at once among them |
| `MaxSpawns`, `MaxRestarts` | 3, 1 | a respawn over a respawn, and another profile between; the third spawn is for a profile without an AICQ identity (`TabInit`), so two bridges at most. The proofs are for any numbers |
| `MaxLaunches`, `MaxUses`, `Saves` (TabLogin) | 2, 2, four logins | a launch over what another left half done, of the same or another account; a profile with both origins, one, none; one origin that keeps no token |
| `MaxRequests`, `MaxTogether`, `MaxLogins`, `MaxFaults` (Sessions) | 3, 2, 1, 1 | switch, use and save as another profile; overlap needs two; a failure at every step of every request |
| `Ids`, `Names`, `Candidates` | 2, 2, both names make the same first id | the numbering of ids and its collision; a name that exists already |
| `HashLen`, `StablePolls`, `MaxPolls`, `MaxTries` | 1, 2, 3, 1 instead of 500, 3, 720, 20 | constants of the code made small: with three polls an answer is read, resent and read again, or runs out |
| `MaxSends`, `MaxLen`, `MaxFails` (AnswerStream) | 2, 2, 1 | accepted again once; a text that grows and is rewritten |
| `ShortLen`, `StableCycles`, `MissedCycles`, `MaxCycles` (AutoStream) | 1, 2, 2, 6 instead of 20, 4, 3, 720 | every way out of the loop, each after something was streamed and rewritten |
| `LongestText`, `MaxRaises` | 3, 2 | growth beyond the short text, rewriting, and a raise both in a difference and at the end |
| `MaxChats`, `MaxMail`, `MaxGroupMail`, `MaxFaults` (Bridge) | 3, 3, 2, 1 | an old chat, one for the other friend, one more for `/new` or a bypass; three messages give every order of a friend's text, the other's `/new` or text, and the friend's next |

*Composed runs.* `MC_Agent` and `MC_TabWorkers` hold modules that share no state. A
behaviour of such a run is a behaviour of one of them, which the variable `part` says, and the others
rest in an initial state; interleaving them would multiply states and show nothing. A module that
rests has no fair step enabled, so its fairness takes no behaviour of the others away (the mutants of
the liveness properties, one in each part, are found).

*Sessions.* Three requests one after the other are checked while nothing has disturbed them, two once
something has (`MaxTogether`): `AccountsApart` speaks of the first case, and the interference of the
second is pairwise. A goroutine takes its next request when the restorer it left has ended, so at
most one restorer per goroutine runs.

*Independence.* AICQ's messages arrive, and z.ai's page changes, only where the bridge is about to
look at them (`Zai`, `Cancel`, `on_message`, `WritesOn`). Any other step of the bridge neither reads
nor writes what they change, so a behaviour in which they act earlier has the same observations.

At the bound of z.ai's chats, `Fault` stays possible, so that the loop of Bridge is never stuck for
lack of chats. Group mail is bounded: as long as group messages kept arriving, `GroupMore` would
keep the loop from private ones, and `EveryMessageAnswered` says nothing of that case.

That z.ai may accept a message once more when an Enter that timed out is pressed again
(`aicq_bridge.py:1290`) is in AnswerStream (`Press`), and its properties hold in spite of it; none of them says that a message
is accepted once, since the code does not ensure it.

TabLogin and Sessions take a navigation that returned no error to have happened by the end of the
sleep that follows it (2 to 5 s in the code), and a CDP command to act when it returns.

## 5. Fairness

- CDPConn: weak fairness of each call (`WF` of `CallStep(c)`; each of its steps changes the call's
  `pc`): the Go scheduler runs goroutines, and the 10 s timer, the 5 s write deadline and the
  handshake timeout fire. The readers, the browser and the network need not do anything.
- FetchCapture: weak fairness of goroutines and handlers. Nobody has to poll, and the browser owes
  nothing.
- Dispatch: each call's handler, whose select has a 60 s timer, and each callback's send. Nothing is
  asked of the page, of its posts, or of clients.
- ProxyJar: no liveness is stated.
- TabWorkers: SpawnTab's steps, the reaping goroutine, the bridge starter, and the death of a
  process that was killed. Other processes need not end; no one has to call SpawnTab.
- TabLogin: the goroutine's steps, whose commands return (CDPConn) and whose tries are counted.
- Sessions: each request's goroutine. Nobody has to make a request, and the restorers, for which no
  liveness is stated, are not fair.
- AnswerStream, AutoStream: weak fairness of the bridge: every await has a timeout. z.ai and the
  friend may stay silent.
- Bridge: weak fairness of the loop, on the same grounds and by `EveryAnswerEnds`. Mail need not
  come.

No strong fairness is used.

## 6. Proofs

`tlapm` checks some nine thousand obligations in eight modules, with Z3, Zenon and LS4. The assumptions are
only the modules' own on their constants (`CallsAssumption`, `StoreAssumption`, ...), which hold of
the code's values.

**CDPConn_proof**, for any set of calls and any number of faults. The inductive invariant `IInv`
adds three facts to the properties: ids are never used twice, so an id names one channel in the
table and on the wire (`IdsNameOneChannel`); the channel of an attempt that has not begun is empty
(`FreshChannels`); the reader of a connection is started once (`ReadersStartOnce`). Without them a
late reply could meet a reused id or a full channel. From `IInv`: `TypeCorrect`,
`SendersNeverBlock`, `RepliesMatch`, `TableMatchesWaiters`, `NobodyForgotten`, and the action
property `DeadClientStaysDead`.
`Refinement` shows that CDPConn implements Rpc. It needs one fact more, `AttemptsOnce`: an attempt is
on the wire at most once and only when it has begun, and a channel holds one answer at most. Under
the mapping a reply is "held" from the moment a reader has taken its channel out of the table until
the call takes it or moves on; a reconnect that fails the table, a torn frame and a closed socket are
Rpc's `Loses`, and everything a reader does without a waiter is a stutter.
`OneSocketUnlessReconnectsOverlap` is the other half of the first disagreement of section 7: in every
behaviour in which no two calls are between the two sections of `Reconnect` at once, `SingleSocket`
holds. The invariant is that there is no current connection between the two sections; `Install` keeps
it only because nobody else is there.

**FetchCapture_proof**, for any number of responses and handlers. `NothingSkipped` rests on
`OffsetsAreEnds`: an offset in the map is 0 or the end of a chunk recorded in this session. The
heart is that whatever a goroutine believes about the body, `Store` looks the offset up and appends
in one section under the lock, and that `Reset` empties map and chunks together. `TypeCorrect`
includes that `body[prev:]` is never evaluated with `prev` behind the end.
`HeldOnlyByFailure` is the safety part of `HeldResponsesContinue`, for any number of responses: once a
response's goroutine has ended, the response is held only if its own `Fetch.continueResponse` failed.
Its invariant `LetGoOrFailed` adds that a goroutine works for its own response only.
`OnlyNewWhileCalm` says what the second disagreement of section 7 comes from: bytes are handed out
twice only when a command failed, or when an answer of the browser is still to be stored while its
request leaves the map (`Calm` excludes both). The invariant `NewInv` says that the offset in the map
is behind all that was recorded of a request (`BelowOffset`), that a recorded request that has left
the map is continued in the browser and no answer about it is under way (`LeftForGood`), and that
nobody knows of a request before its own section of `handleFetchPaused`, which sets the offset to 0
(`KnownLater`).

**Dispatch_proof**, for any number of calls, any methods and any moves of the page. The invariant
adds that ids are fresh, that a call's id in the map is its own, and that what is on its way to a
channel was posted for it. `AnswersOnce` is what keeps a callback from blocking on a full channel: a
channel is in the map, in one callback's hands, or holds its answer, and only one of the three.
`AnswersAreOwn`, `NothingElseLeaks` and `DispatchTypes` follow from the same invariant. On top of it
`PagesInv` follows a call's script through the page: what throws has parameters, and what runs, is
posted or has come back has none. So no request with parameters is ever answered by the page
(`ParametersNeverArrive`), and one without is dropped by nothing but a page that goes away, a
callback that gets lost or a timer that comes first (`OthersCallBack`): the fifth disagreement of
section 7 is that of all requests with parameters, and of no others.

**ProfileStore_proof**. `EditsKeepSound` goes through every method: what it makes of a sound list of
profiles is sound (Create's numbering keeps ids unique; Delete leaves no dangling active profile).
`Reliability` needs the invariant `StoreInv`, which says in what relation `file`, `written`, `state`
and `before` stand at each stage of a save. `Refinement` shows that every step of ProfileStore is a
step of ProfileBook or a stutter: the rename is the abstract save, a failure the abstract unsaved
call, everything before either of them invisible.

**Sessions_proof**: every behaviour of Sessions is one of ProfileStore on the store's variables
(`StoreAmongRequests`), so reliability and refinement hold among any number of concurrent requests.
`SessionTypes` has the types of every request's local state. `AccountsStayApart` proves
`AccountsApart` for any number of goroutines, profiles, accounts and requests. `AccountsApart` looks
at moments of rest and is far from inductive: a switch has cleared the browser and holds the new
profile's localStorage in a goroutine's hands, a save has put the cookies into the profile and not
yet the localStorage. The invariant `Ordered` says, as long as nothing is disturbed, that memory and
file agree when the mutex is free (`OnDisk`) and that either everything rests or exactly one goroutine
is at work (`Sole`), and for each place of its request what the browser holds (`BrowserIsOnes`, with
the localStorage that is still to come), which profile is half saved (`ProfilesAreOnes`), and that
what the request read before a wait is still so after it (`JobIsOnes`).

**Processes_proof** has three components.
*TabWorkers*: `NoWorkerIsLost` proves `WorkersAccountedFor` for any number of profiles, spawns and
restarts, with no assumption on how long the goroutine of a killed worker takes. It is not inductive:
`TabInv` adds that a worker that was not started has no process and no goroutine (`Unborn`), that an
entry is of its profile's worker, which is not lost and has a goroutine waiting for it (`Waited`), and
that while a worker is being spawned no other of its profile runs but a lost one (`Alone`).
`OneBridgeWhileOrderly` proves `OneBridgePerProfile`, which fails in general (section 7), for the
behaviours in which the main process lives, no bridge is started or stored for a worker that is no
longer registered, and no worker is registered before the goroutine of the last one of its profile is
done (`Orderly`): then a bridge that runs belongs to the worker its profile has, and `Register` finds
no entry of the profile to overwrite.
*TabLogin*: `LoginIsAsSaved` proves `LoginAsSaved` from `LoginInv`, which says at each place of the
goroutine which part of the login is in the browser already (`Progress`), as long as nothing
disturbed it.
*ProxyJar*: `OneJarForAll`, `SavesMissNothing` and `FileIsWhole` from `ProxyInv`: clients have the
global jar or a reset is about to forget them (`ClientsFollow`), hosts are noted before they are
fetched from (`HostsNoted`), and unless two saves crossed, one goroutine at most has the temporary
file (`OneSaver`).

**AnswerStream_proof**, for any thresholds and texts of any length. `Types` adds to `TypeOK` that
polls remain wherever the loop goes on; `ScreenFollows` needs two lemmas on sequences (a prefix
completed by the rest is the whole; the text appended last is a suffix) and, for each of the ways to
send again, that the reset of `last_sent_text` leaves the empty suffix. `EndsAtMostOnce` goes
through every error path. `Refinement` shows that AnswerStream implements Turn, step by step: a
release of workspaces that sends again stays inside the relay, while a bypass goes back to typing;
that the friend is told only while nothing was shown is an invariant of its own, since the notice
belongs to the first sending. `EveryTurnIsReliable` proves of Turn, and so of every relay, that it is
over with one end or one notice, or after a failing call, and that a bridge that is down has ended
nothing.

**Bridge_proof**, for any number of friends, groups, chats and messages. `ChatsApart` is not
inductive: the text about to be typed must land in a chat that is nobody else's (`PageIsOwn`), and
chats not yet born must be empty (`Types`), so that a new id is fresh in every sense. `ContextKept`
needs `Continues(f)`, for each friend whose chat nobody has deleted: `chat_map[f]` still exists and
is the chat of the friend's last text, and while that text is being typed the page shows it.

`EveryMessageIsOwed` counts: a friend's unanswered messages (`waiting`) are those in the inbox and the
one in the loop's hands, so none is answered twice, dropped or forgotten by `/new`, `/release`, a
bypass or a group message. `TypeCorrect`, whose bound on `waiting` rests on this count, and
`MessagesInOrder` (Bridge implements Mailbox) follow; the mapping puts the message in hand before the
inbox, so that taking one out of the queue is a stutter. `AutoScreenFollows` proves `AutoScreen` of
the auto-stream for texts of any length.

Only model-checked: the liveness properties, because fairness and ENABLED are out of TLAPS's reach.
Every invariant, action property and refinement of a passing run is proved. What a violation run
shows needs no proof; for four of the six a theorem says under what condition the property holds.

## 7. Where the code and what the repository says of it disagree

Shown by a run:

1. `client.go:25-27` promises one WebSocket; concurrent Reconnects leak one (`cdpconn_single`).
2. `client.go:1170-1171` promises only new chunks; a poll racing the request's goroutine returns the
   body again (`fetch_twice`).
3. `README.md:11-12` (of the repository) says one bridge per profile; respawning within 20 s leaves
   two (`tabs_bridges`).
4. `aicq_bridge.py:2136-2138` says only new responses are streamed; the fallback reader counts
   elements differently and may stream an old one (`answer_old`).
5. `wails_backend.go:86-87` says the page calls back; its script runs `JSON.parse` on parameters that
   are an object already (`browser.go:737-738`), so every request with parameters times out
   (`agent_params`).
6. `wails_backend.go:1025-1026` promises a clean slate; the goroutine of the switch before, which had
   returned, writes its localStorage after the wipe (`sessions_switch`).

Seen while reading, and not claimed by a run:

- *Groups*: `_processed_group_msg_ids` is made local by an assignment (`aicq_bridge.py:1959`), so a
  group message with an id raises and is dropped, though 1905 handles them; answers to messages of
  several groups all go to the group of the first one (1567-1640).
- *Bridge*: after a bypass `chat_map` still names the deleted chat, so the friend's next message
  starts without context (`ContextKept` excepts it through `wiped`); the click that keeps the page
  awake takes the first chat of the sidebar for the current one (2205, an assumption about z.ai that
  Bridge shares); the auto-stream ends its stream twice (1816 or 1845, and 1861).
- *Fetch capture*: `client.go:1106-1108` says "paused requests are NOT auto-continued. The bridge MUST
  call FinishFetchRequest(requestId) or FinishAllFetchRequests() when done", and 906-908 that a
  streaming response is kept paused. `handleFetchPaused` starts a goroutine for every response,
  streaming or not, that takes one snapshot and continues it at once (984-987, 994-997; the comment
  above it, 959-962, says so too), so it is let go though no bridge does anything
  (`HeldResponsesContinue` shows it, whether polls and handlers come or not). What a streaming
  response brings after it is continued is captured by nobody.
  1113-1114 say that `EnableFetchCapture` resumes leftovers; but a response whose `continueResponse`
  failed has left the map (1064-1067, the error is dropped), and one whose event found capture off
  (916-919) never was in it. Both stay held until the Fetch domain ends: in the first case the
  exception that `HeldResponsesContinue` names, in the second one that it does not speak of (its
  premise is that the event found capture on).
- *CDP client*: a timed-out command may run twice in the browser, a click or a key too (Rpc says no
  more than that its reply is not mixed up); Reconnect does not enable the Fetch
  domain again; `CDPEval` does not look at the context of `server.go:700-705`'s 15 s.
- *Dispatch*: the page's table lacks `networkEnable`, `getRequests`, `getCookies`, `cdpMouse`,
  `drag*`, `breakthrough`, `screenshot` and others that routes dispatch; `WindowExecJS` with a
  context that is not wails's ends the process; the element endpoint decodes `{element: ...}` while
  the page returns the element itself.
- *Workers*: `browser.go:212-214` says that the auto-spawn checks "which profiles are already running
  (avoid duplicate spawns if samweb restarts while tab workers are still alive)". What it asks,
  `ListTabWorkers`, reads a registry that is in memory only (`wails_backend.go:303-309`): after a
  restart it is empty, every profile is spawned again, and a second worker starts on the
  user-data-dir of the one that lives. `wails_backend.go:303` says "tracks all spawned tab worker
  processes"; besides those of a restart it loses the worker whose entry the goroutine of the one
  before deletes when it comes after `Register` (464 deletes by profile; 336-344 sleep 500 ms for it,
  and 411-430 for the new worker), after which the next spawn does not kill it. `WorkersAccountedFor`
  says of exactly these workers that they are lost, and of no others.
- *Workers*, further: `agent_port` is never removed, so the read after "Wait for the child process to write
  its agent port" (`wails_backend.go:393`) usually finds the port of the worker before; the 20 s that
  the bridge waits for the login (482-483) may be less than the injection takes.
- *Login*: `tab_worker.go:35-39` and 200-201 speak of the first launch only, 169-171 inject at each;
  `string(token)[:100]` (247) panics on every reply shorter than that and ends the worker.
- *Profiles*: the second skip of `wails_backend.go:1055`, "for our internal navigate", is not used up
  by that navigation, so it spares a later wipe; `server.go:1212` says cookies are kept as they are
  when no profile is active, while `SwitchToProfile("")` clears everything; saving a profile is two
  saves, and the second is left out when there is no localStorage to save: saved over an existing
  profile, that leaves the new cookies beside the old localStorage (`AccountsApart` starts from whole
  profiles, none with cookies alone); two processes share `profiles.json.tmp`, and nothing is synced before the rename.
- *Proxy*: "sessions survive process restarts" (`proxy.go:89-92`), but at the start no host is known,
  so every loaded cookie is dropped, and a later load gives each cookie to an arbitrary known host
  (300) though 189-190 speak of host-only cookies; 257-258 say that a malformed file returns nil, and
  it returns an error; redirects are not tracked though 330-331 say every request; a save after a
  reset leaves the old file.

## 8. What is not modelled, and why

- *CDP network capture*: of its operations only `EnableSSECapture` and `GetSSEMessages` have callers,
  one command and one eval each, with their state in the page; the buffer of requests is kept for
  nobody.
- *CDP client, the rest*: `sendAsync` (used by mouse and touch) writes and forgets: it has no state.
  `sendWithSession`, `AttachToTarget`, `ConnectToIframe` and `DispatchRawSession` are called by
  nothing. Page input is a sequence of commands.
- *Agent server*: the handlers that make one CDP command or one eval are CDPConn's `send` between
  decoding and encoding. The test client and mock backend are for tests.
- *UI* (`app.js`): one thread of JavaScript whose order of events is the browser's own (frame loads,
  timers); a model would be one of iframes and not of this code.
- *AICQ bridge*: file transfer and the registration of an identity, which happen once and in order.
- Parsing of SSE bodies and of z.ai's HTML: the models keep what the properties tell apart (which
  answer a piece belongs to, which reader produced it, and whether it is an error). Rewriting of
  proxied headers and bodies keeps no state.
- Search, breakthrough, deployment scripts, flags and routes: no shared state that a checker would
  reach.
- Two processes over one `profiles.json`: tab workers only read it, and nothing in the repository
  says what two main processes may expect. Power failure: nothing is synced, so nothing is promised.
- The WebView2 bindings in `go-webview2-patch` are vendored and generated, and are by far the largest
  part of the Go code: the models cover the program and not its bindings.

## 9. Plan

Done, the most important first: CDPConn, FetchCapture, TabWorkers, AnswerStream, Bridge; then
ProfileStore with its abstract specification, Sessions, Dispatch, TabLogin, ProxyJar and AutoStream;
then the abstract specifications Rpc, Turn and Mailbox, and a proof of every invariant, action
property and refinement that the runs check.

What could follow:

1. The stale `agent_port` read, in TabWorkers: which worker a registered port belongs to.
2. An abstract specification of Dispatch, a call answered once by its own callback or by its timer,
   and one of FetchCapture, a log of new bytes.
3. Conditions for the other two disagreements: when the two readers of an answer count alike, when a
   restorer has ended.
4. Two processes over one store, once the repository says what they may expect.
