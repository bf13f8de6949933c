---------------------------- MODULE ProfileStore ----------------------------
(***************************************************************************)
(* The ProfileStore of one process (internal/browser/profiles.go): a copy  *)
(* of profiles.json in memory, loaded by the first call, edited under s.mu *)
(* and written whole through a temporary file.                             *)
(*                                                                         *)
(* Threads are the goroutines that call it.  A method that edits holds     *)
(* s.mu from its first look at the state to the end of save, so the        *)
(* goroutine that holds it is the only one that can see the states between. *)
(***************************************************************************)
EXTENDS Profiles

CONSTANTS Threads,
          Stores      \* what profiles.json may hold when the process starts

ASSUME StoreAssumption ==
  /\ NoOne \notin Threads
  /\ \A s \in Stores : s \in Store /\ Sound(s)

VARIABLES
  file,     \* profiles.json; a missing one is read as Nothing
  tmp,      \* profiles.json.tmp: "none", "torn" (being written), "whole"
  written,  \* the content of a whole profiles.json.tmp
  state,    \* s.state
  loaded,   \* s.loaded
  holder,   \* the goroutine that holds s.mu for writing
  stage,    \* how far its save is
  before,   \* history: s.state when it took s.mu
  answer    \* what the last call that edits returned

storeVars == <<file, tmp, written, state, loaded, holder, stage, before, answer>>

StoreTypeOK ==
  /\ file \in Store
  /\ tmp \in {"none", "torn", "whole"}
  /\ written \in Store
  /\ state \in Store
  /\ loaded \in BOOLEAN
  /\ holder \in Threads \cup {NoOne}
  /\ stage \in {"idle", "open", "write", "rename"}
  /\ before \in Store
  /\ answer \in {"none", "ok", "error"}
  /\ (holder = NoOne) <=> (stage = "idle")

StoreInit ==
  /\ file \in Stores \cup {Nothing}
  /\ tmp = "none" /\ written = Nothing
  /\ state = Nothing /\ loaded = FALSE
  /\ holder = NoOne /\ stage = "idle"
  /\ before = Nothing
  /\ answer = "none"

\* load, at the head of every method.
Load ==
  /\ ~loaded /\ holder = NoOne
  /\ loaded' = TRUE
  /\ state' = file
  /\ UNCHANGED <<file, tmp, written, holder, stage, before, answer>>

\* A method that returns an error and edits nothing: load failed, or there is no
\* such profile.
Refuse ==
  /\ holder = NoOne
  /\ answer' = "error"
  /\ UNCHANGED <<file, tmp, written, state, loaded, holder, stage, before>>

\* The edit of a method, under s.mu.
Edit(t, new) ==
  /\ loaded /\ holder = NoOne
  /\ new \in Edits(state)
  /\ holder' = t /\ stage' = "open"
  /\ state' = new
  /\ before' = state
  /\ UNCHANGED <<file, tmp, written, loaded, answer>>

\* The mutex is released as the method returns.
Return(result) ==
  /\ holder' = NoOne /\ stage' = "idle"
  /\ before' = Nothing
  /\ answer' = result

\* Mutant of OpenTmp: save writes into profiles.json itself, which is empty until
\* the content is there.
OpenInPlace(t) ==
  /\ holder = t /\ stage = "open"
  /\ file' = Nothing
  /\ tmp' = "torn" /\ stage' = "write"
  /\ UNCHANGED <<written, state, loaded, holder, before, answer>>

\* os.WriteFile empties the temporary file ...
OpenTmp(t) ==
  /\ holder = t /\ stage = "open"
  /\ tmp' = "torn" /\ stage' = "write"
  /\ UNCHANGED <<file, written, state, loaded, holder, before, answer>>

\* ... and writes it.
WriteTmp(t) ==
  /\ holder = t /\ stage = "write"
  /\ tmp' = "whole" /\ written' = state /\ stage' = "rename"
  /\ UNCHANGED <<file, state, loaded, holder, before, answer>>

RenameTmp(t) ==
  /\ holder = t /\ stage = "rename"
  /\ file' = written
  /\ tmp' = "none" /\ written' = Nothing
  /\ Return("ok")
  /\ UNCHANGED <<state, loaded>>

\* Mutant of SaveFails: the caller is not told.
SaveFailsSilently(t) ==
  /\ holder = t
  /\ Return("ok")
  /\ UNCHANGED <<file, tmp, written, state, loaded>>

\* MkdirAll, WriteFile or Rename failed: the edit stays in memory, and the
\* temporary file as it is.
SaveFails(t) ==
  /\ holder = t
  /\ Return("error")
  /\ UNCHANGED <<file, tmp, written, state, loaded>>

\* The process ends, wherever its goroutines are, and is started again.
StoreCrash ==
  /\ state' = Nothing /\ loaded' = FALSE
  /\ holder' = NoOne /\ stage' = "idle"
  /\ before' = Nothing
  /\ answer' = "none"
  /\ UNCHANGED <<file, tmp, written>>

StoreNext ==
  \/ Load \/ Refuse \/ StoreCrash
  \/ \E t \in Threads :
       \/ \E new \in Edits(state) : Edit(t, new)
       \/ OpenTmp(t) \/ WriteTmp(t) \/ RenameTmp(t) \/ SaveFails(t)

StoreSpec == StoreInit /\ [][StoreNext]_storeVars

-----------------------------------------------------------------------------
\* What a caller sees: the state before the call that is under way, and before
\* anything was loaded, what load would read.
Seen == IF ~loaded THEN file ELSE IF holder # NoOne THEN before ELSE state

Book == INSTANCE ProfileBook
          WITH seen <- Seen, kept <- file, answer <- answer,
               Stores <- Stores \cup {Nothing}

(* The store implements the book of profiles: through lazy loading, a save *)
(* in three system calls that may each fail, and crashes between any two   *)
(* of them, every method is one step, and profiles.json always holds a     *)
(* whole store that some method left (profiles.go:111, "atomically").      *)
Implements == Book!Spec

(* Ids stay unique and the active profile exists, in memory and on disk,   *)
(* and when a method has returned no error the file has all of its edits   *)
(* and those of the earlier methods whose save failed.                     *)
StoreReliable == Book!Reliable
=============================================================================
