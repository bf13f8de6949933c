---------------------------- MODULE MC_TabWorkers ----------------------------
(***************************************************************************)
(* The tab workers and bridges as the main process sees them (TabWorkers), *)
(* what goes on inside a worker when it starts (TabLogin), and inside a    *)
(* bridge when it starts (AutoStream).  The three share no state (a worker *)
(* or a bridge of TabWorkers may go at any time, whatever the reason), so  *)
(* a behaviour of this run is one of them, which `part` says; where they   *)
(* rest, the other two have nothing to do, and their fairness asks nothing.*)
(***************************************************************************)
EXTENDS TabWorkers, TabLogin, AutoStream

VARIABLE part

Login(account, zai, auth) ==
  [cookies |-> account, storage |-> [o \in {"zai", "auth"} |-> IF o = "zai" THEN zai ELSE auth]]

\* Logins of two accounts: with both origins, with one, with none.
MCSaves == {Login("a", "a", "none"), Login("a", "a", "a"), Login("b", "b", "b"),
            Login("b", "none", "none")}

Workers == part = "workers" /\ Next /\ UNCHANGED <<loginVars, autoVars, part>>
Logins  == part = "login" /\ LoginNext /\ UNCHANGED <<vars, autoVars, part>>
Resumes == part = "resume" /\ AutoNext /\ UNCHANGED <<vars, loginVars, part>>

\* The third spawn is for a profile without an AICQ identity, to keep the run short.
TabInit ==
  /\ Init /\ LoginInit /\ AutoInit
  /\ part \in {"workers", "login", "resume"}
  /\ part = "workers" => \A w \in Spawns : w > 2 => profile[w] \notin WithIdentity
  /\ part # "workers" => profile = [w \in Spawns |-> CHOOSE p \in Profiles : TRUE]
  /\ part # "login" => saved = Login("a", "a", "a")
  /\ IF part = "resume" THEN auto = "look" ELSE auto = "idle" /\ answer.len = 0

TabSpec ==
  /\ TabInit
  /\ [][Workers \/ Logins \/ Resumes]_<<vars, loginVars, autoVars, part>>
  /\ Fairness /\ LoginFairness /\ AutoFairness
=============================================================================
