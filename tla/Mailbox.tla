------------------------------ MODULE Mailbox ------------------------------
(***************************************************************************)
(* What the AICQ bridge promises to those who write to the agent: private  *)
(* messages are answered one at a time, in the order they came, and each   *)
(* once.  The bridge may end over a message; the ones behind it then stay  *)
(* unanswered.                                                             *)
(***************************************************************************)
EXTENDS Sequences

CONSTANT Mail

VARIABLES pending,   \* the messages without an answer, the oldest first
          up         \* the bridge runs

Init == pending = <<>> /\ up = TRUE

Arrives == /\ up
           /\ \E m \in Mail : pending' = Append(pending, m)
           /\ UNCHANGED up

Answered == /\ up /\ pending # <<>>
            /\ pending' = Tail(pending)
            /\ UNCHANGED up

Ends == /\ up /\ pending # <<>>
        /\ pending' = Tail(pending)
        /\ up' = FALSE

Next == Arrives \/ Answered \/ Ends

Spec == Init /\ [][Next]_<<pending, up>>
=============================================================================
