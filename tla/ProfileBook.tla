----------------------------- MODULE ProfileBook -----------------------------
(***************************************************************************)
(* What ProfileStore promises to its one process: a book of profiles in    *)
(* which every call is one step.  A call that returns no error is on disk; *)
(* one that fails to save has changed what the process sees and says so; a *)
(* restart goes back to what is on disk.                                   *)
(***************************************************************************)
EXTENDS Profiles

CONSTANT Stores      \* what may be on disk when the process starts

VARIABLES seen,      \* what the methods work on
          kept,      \* what a restart would find
          answer     \* what the last call that edits returned

book == <<seen, kept, answer>>

Init == /\ kept \in Stores
        /\ seen = kept
        /\ answer = "none"

Saved == /\ seen' \in Edits(seen)
         /\ kept' = seen'
         /\ answer' = "ok"

Unsaved == /\ seen' \in Edits(seen)
           /\ answer' = "error"
           /\ UNCHANGED kept

Refused == /\ answer' = "error"
           /\ UNCHANGED <<seen, kept>>

Restart == /\ seen' = kept
           /\ answer' = "none"
           /\ UNCHANGED kept

Next == Saved \/ Unsaved \/ Refused \/ Restart

Spec == Init /\ [][Next]_book

\* What a caller relies on: both copies are sound, and after a call that
\* returned no error the disk has everything the process sees.
Reliable ==
  /\ Sound(seen) /\ Sound(kept)
  /\ answer = "ok" => kept = seen
=============================================================================
