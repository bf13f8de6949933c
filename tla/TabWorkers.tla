----------------------------- MODULE TabWorkers -----------------------------
(***************************************************************************)
(* The processes of SamWeb (internal/browser/wails_backend.go): SpawnTab   *)
(* starts a tab worker for a profile, and later an AICQ bridge for it, and *)
(* keeps both in tabWorkerRegistry until a goroutine finds the worker      *)
(* gone.                                                                   *)
(*                                                                         *)
(* A spawn is one call of SpawnTab; the worker and the bridge it starts    *)
(* are named after it, and so is the agent port of the worker.             *)
(***************************************************************************)
EXTENDS Integers

CONSTANTS Profiles,
          WithIdentity,   \* the profiles with an AICQ identity
          MaxSpawns,      \* bound: calls of SpawnTab
          MaxRestarts     \* bound: restarts of the main process

ASSUME TabAssumption ==
  /\ WithIdentity \subseteq Profiles
  /\ MaxSpawns \in Nat /\ MaxRestarts \in Nat

Spawns  == 1..MaxSpawns
NoEntry == [id |-> 0, port |-> 0, bridge |-> 0]

VARIABLES
  count,      \* how many calls of SpawnTab there were
  lock,       \* portAllocMu, and how far the SpawnTab that holds it is
  profile,    \* the profile of each spawn
  registry,   \* tabWorkerRegistry.workers: the spawn, its port, its bridgeCmd
  worker,     \* the worker process of each spawn
  reaper,     \* the goroutine that waits for it
  bridge,     \* the bridge process of each spawn
  starter,    \* the goroutine running spawnAICQBridge
  portfile,   \* <user-data-dir>/agent_port of each profile: 0, or who wrote it
  left,       \* history: the workers running when the main process restarted
  unlisted,   \* history: those whose entry another worker's goroutine deleted
  restarts    \* how often it did, for the bound

vars == <<count, lock, profile, registry, worker, reaper, bridge, starter,
          portfile, left, unlisted, restarts>>
tabHistory == <<left, unlisted, restarts>>

\* A worker is starting until it has written its port.
Process == {"none", "starting", "running", "killed", "exited"}
Alive   == {"starting", "running"}
Free    == [at |-> "free", id |-> 0, port |-> 0]

TypeOK ==
  /\ count \in 0..MaxSpawns
  /\ lock \in {Free} \cup [at : {"start", "port", "register"}, id : Spawns, port : 0..MaxSpawns]
  /\ profile \in [Spawns -> Profiles]
  /\ registry \in [Profiles -> {NoEntry} \cup
                               [id : Spawns, port : 0..MaxSpawns, bridge : 0..MaxSpawns]]
  /\ worker \in [Spawns -> Process]
  /\ reaper \in [Spawns -> {"none", "waiting", "done"}]
  /\ bridge \in [Spawns -> Process]
  /\ starter \in [Spawns -> {"none", "sleeping", "storing", "done"}]
  /\ portfile \in [Profiles -> 0..MaxSpawns]
  /\ left \subseteq Spawns
  /\ unlisted \subseteq Spawns
  /\ restarts \in 0..MaxRestarts

Init ==
  /\ count = 0
  /\ lock = Free
  /\ profile \in [Spawns -> Profiles]    \* whom each call will be for
  /\ registry = [p \in Profiles |-> NoEntry]
  /\ worker = [w \in Spawns |-> "none"]
  /\ reaper = [w \in Spawns |-> "none"]
  /\ bridge = [w \in Spawns |-> "none"]
  /\ starter = [w \in Spawns |-> "none"]
  /\ portfile = [p \in Profiles |-> 0]
  /\ left = {}
  /\ unlisted = {}
  /\ restarts = 0

Entry(w) == registry[profile[w]]

\* Process.Kill does nothing to a process that is gone.
Kill(procs, w) == [procs EXCEPT ![w] = IF @ \in Alive THEN "killed" ELSE @]

-----------------------------------------------------------------------------
(* SpawnTab, under portAllocMu. *)

\* Mutant of Lock: the worker the profile has is left alone.
LockOnly ==
  /\ lock = Free
  /\ count < MaxSpawns
  /\ count' = count + 1
  /\ lock' = [at |-> "start", id |-> count', port |-> 0]
  /\ UNCHANGED <<profile, registry, worker, reaper, bridge, starter, portfile, tabHistory>>

\* The lock is taken and the worker that the profile has is killed.  Who calls:
\* a request for any profile, or the auto-spawn of browser.go:188-242 for those
\* that ListTabWorkers does not name.
Lock ==
  /\ lock = Free
  /\ count < MaxSpawns
  /\ count' = count + 1
  /\ lock' = [at |-> "start", id |-> count', port |-> 0]
  /\ LET old == Entry(count').id IN
     worker' = IF old = 0 THEN worker ELSE Kill(worker, old)
  /\ UNCHANGED <<profile, registry, reaper, bridge, starter, portfile, tabHistory>>

\* cmd.Start, or an error on the way to it.
Start ==
  /\ lock.at = "start"
  /\ \/ /\ worker' = [worker EXCEPT ![lock.id] = "starting"]
        /\ lock' = [lock EXCEPT !.at = "port"]
     \/ lock' = Free /\ UNCHANGED worker
  /\ UNCHANGED <<count, profile, registry, reaper, bridge, starter, portfile, tabHistory>>

\* The file is read until it has a number in it, or for 9 s.  Nobody removed
\* the one that the last worker of the profile wrote.
ReadPort ==
  /\ lock.at = "port"
  /\ lock' = [lock EXCEPT !.at = "register", !.port = portfile[profile[lock.id]]]
  /\ UNCHANGED <<count, profile, registry, worker, reaper, bridge, starter, portfile, tabHistory>>

\* Mutant of Register: it waits until the worker is up, however long that takes.
RegisterWhenUp ==
  /\ lock.at = "register"
  /\ LET w == lock.id
         p == profile[lock.id]
     IN /\ worker[w] = "running"
        /\ registry' = [registry EXCEPT ![p] = [id |-> w, port |-> lock.port, bridge |-> 0]]
        /\ reaper' = [reaper EXCEPT ![w] = "waiting"]
        /\ starter' = [starter EXCEPT ![w] = IF p \in WithIdentity THEN "sleeping" ELSE @]
  /\ lock' = Free
  /\ UNCHANGED <<count, profile, worker, bridge, portfile, tabHistory>>

\* The wait for the CDP port ends after 30 s at most, whether the worker is up
\* or not; it is registered and the two goroutines start.  Nobody waits for the
\* goroutine of the worker that was killed: it may come after this.
Register ==
  /\ lock.at = "register"
  /\ LET w == lock.id
         p == profile[lock.id]
     IN /\ registry' = [registry EXCEPT ![p] = [id |-> w, port |-> lock.port, bridge |-> 0]]
        /\ reaper' = [reaper EXCEPT ![w] = "waiting"]
        /\ starter' = [starter EXCEPT ![w] = IF p \in WithIdentity THEN "sleeping" ELSE @]
  /\ lock' = Free
  /\ UNCHANGED <<count, profile, worker, bridge, portfile, tabHistory>>

SpawnStep == Start \/ ReadPort \/ Register

-----------------------------------------------------------------------------
(* The worker, and the goroutine that waits for it. *)

\* runTabWorker chooses its agent port and writes it down.
WritePort(w) ==
  /\ worker[w] = "starting"
  /\ worker' = [worker EXCEPT ![w] = "running"]
  /\ portfile' = [portfile EXCEPT ![profile[w]] = w]
  /\ UNCHANGED <<count, lock, profile, registry, reaper, bridge, starter, tabHistory>>

\* A worker is killed, crashes, or its window is closed.
WorkerExits(w) ==
  /\ worker[w] \in Alive \cup {"killed"}
  /\ worker' = [worker EXCEPT ![w] = "exited"]
  /\ UNCHANGED <<count, lock, profile, registry, reaper, bridge, starter, portfile, tabHistory>>

\* Mutant of Reap: only a worker with a bridge leaves the registry.
ReapBridged(w) ==
  /\ reaper[w] = "waiting"
  /\ worker[w] = "exited"
  /\ LET e == Entry(w) IN
     IF e.bridge # 0
     THEN /\ bridge' = Kill(bridge, e.bridge)
          /\ registry' = [registry EXCEPT ![profile[w]] = NoEntry]
          /\ unlisted' = unlisted \cup ({e.id} \ {0, w})
     ELSE UNCHANGED <<bridge, registry, unlisted>>
  /\ reaper' = [reaper EXCEPT ![w] = "done"]
  /\ UNCHANGED <<count, lock, profile, worker, starter, portfile, left, restarts>>

\* After cmd.Wait: whatever bridge the profile's entry has is killed and
\* whatever entry the profile has is deleted.
Reap(w) ==
  /\ reaper[w] = "waiting"
  /\ worker[w] = "exited"
  /\ LET e == Entry(w) IN
     /\ bridge' = IF e.bridge = 0 THEN bridge ELSE Kill(bridge, e.bridge)
     /\ unlisted' = unlisted \cup ({e.id} \ {0, w})
  /\ registry' = [registry EXCEPT ![profile[w]] = NoEntry]
  /\ reaper' = [reaper EXCEPT ![w] = "done"]
  /\ UNCHANGED <<count, lock, profile, worker, starter, portfile, left, restarts>>

-----------------------------------------------------------------------------
(* spawnAICQBridge, and the bridge process. *)

\* After 20 s the bridge is started, whatever became of the worker; or there is
\* no Python, or no script.
StartBridge(w) ==
  /\ starter[w] = "sleeping"
  /\ \/ /\ bridge' = [bridge EXCEPT ![w] = "running"]
        /\ starter' = [starter EXCEPT ![w] = "storing"]
     \/ starter' = [starter EXCEPT ![w] = "done"] /\ UNCHANGED bridge
  /\ UNCHANGED <<count, lock, profile, registry, worker, reaper, portfile, tabHistory>>

\* Mutant of StoreBridge: nobody looks whether the profile has an entry.
StoreBridgeAnyway(w) ==
  /\ starter[w] = "storing"
  /\ registry' = [registry EXCEPT ![profile[w]].bridge = w]
  /\ starter' = [starter EXCEPT ![w] = "done"]
  /\ UNCHANGED <<count, lock, profile, worker, reaper, bridge, portfile, tabHistory>>

\* It is stored in the entry that the profile has by then, if it has one.
StoreBridge(w) ==
  /\ starter[w] = "storing"
  /\ registry' = IF Entry(w) = NoEntry THEN registry
                 ELSE [registry EXCEPT ![profile[w]].bridge = w]
  /\ starter' = [starter EXCEPT ![w] = "done"]
  /\ UNCHANGED <<count, lock, profile, worker, reaper, bridge, portfile, tabHistory>>

\* Nobody restarts a bridge: its end is only logged.
BridgeExits(w) ==
  /\ bridge[w] \in {"running", "killed"}
  /\ bridge' = [bridge EXCEPT ![w] = "exited"]
  /\ UNCHANGED <<count, lock, profile, registry, worker, reaper, starter, portfile, tabHistory>>

-----------------------------------------------------------------------------
\* The main process ends and is started again: its registry and goroutines are
\* gone, the child processes are not.
MainRestarts ==
  /\ restarts < MaxRestarts
  /\ restarts' = restarts + 1
  /\ registry' = [p \in Profiles |-> NoEntry]
  /\ lock' = Free
  /\ reaper' = [w \in Spawns |-> IF reaper[w] = "waiting" THEN "done" ELSE reaper[w]]
  /\ starter' = [w \in Spawns |-> IF starter[w] = "none" THEN "none" ELSE "done"]
  /\ left' = {w \in Spawns : worker[w] \in Alive}
  /\ UNCHANGED <<count, profile, worker, bridge, portfile, unlisted>>

Next ==
  \/ Lock \/ SpawnStep \/ MainRestarts
  \/ \E w \in Spawns : \/ WritePort(w) \/ WorkerExits(w) \/ Reap(w)
                       \/ StartBridge(w) \/ StoreBridge(w) \/ BridgeExits(w)

Spec == Init /\ [][Next]_vars

\* Goroutines run, sleeps end, and a killed process ends.  No other process has
\* to end, and no one has to call SpawnTab.
Fairness ==
  /\ WF_vars(SpawnStep)
  /\ \A w \in Spawns : /\ WF_vars(worker[w] = "killed" /\ WorkerExits(w))
                       /\ WF_vars(Reap(w))
                       /\ WF_vars(StartBridge(w) \/ StoreBridge(w))

FairSpec == Spec /\ Fairness

-----------------------------------------------------------------------------
(* Properties. *)

\* A worker that runs, and that nobody has killed, is the one its profile's
\* entry names, or is being spawned: it can be listed, and the next SpawnTab for
\* the profile will kill it.  SamWeb has lost exactly those that ran when the main
\* process restarted, since the registry is not kept (browser.go:212-214 would
\* find them in it), and those whose entry was deleted by the goroutine of the
\* worker before them, which deletes by profile (wails_backend.go:464).  Two
\* workers share a user-data-dir only when one of them is lost.
WorkersAccountedFor ==
  \A w \in Spawns : worker[w] \in Alive =>
    /\ (Entry(w).id = w \/ lock.id = w) <=> w \notin left \cup unlisted
    /\ \A v \in Spawns : worker[v] \in Alive /\ profile[v] = profile[w] /\ v # w
                         => {v, w} \cap (left \cup unlisted) # {}

\* "AICQ bridges: one per profile with an AICQ identity" (README.md:11); their
\* messages would be answered twice.
OneBridgePerProfile ==
  \A v, w \in Spawns : bridge[v] = "running" /\ bridge[w] = "running"
                       /\ profile[v] = profile[w] => v = w

\* portAllocMu is never held for good: SpawnTab returns even when the worker
\* dies before it has written its port or opened its CDP port.
SpawnReturns == lock # Free ~> lock = Free

\* The entry of a worker that is gone does not stay in the registry, even when
\* it went before it was registered.
DeadEntriesGo ==
  \A w \in Spawns : Entry(w).id = w /\ worker[w] = "exited" ~> Entry(w).id # w

=============================================================================
