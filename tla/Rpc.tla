-------------------------------- MODULE Rpc --------------------------------
(***************************************************************************)
(* What a caller of Client.send may rely on.  Its command is written to    *)
(* the browser at most twice, the second time only when the first attempt  *)
(* was given up; it returns with the browser's reply to the attempt it is  *)
(* at, or with an error; and a reply to an attempt that was given up       *)
(* reaches nobody.  That the command is executed once is not promised.     *)
(***************************************************************************)
EXTENDS Integers

CONSTANT Calls

VARIABLES phase,   \* where each call is: about to write, waiting, or back; and its attempt
          sent,    \* attempts that the browser may still answer
          held     \* attempts whose reply was read and not yet taken, nor dropped

rpc == <<phase, sent, held>>

Before(n) == [at |-> "before", attempt |-> n]
Out(n)    == [at |-> "out", attempt |-> n]
Back      == [at |-> "back", attempt |-> 0]

Init ==
  /\ phase = [c \in Calls |-> Before(1)]
  /\ sent = {} /\ held = {}

Attempt(c) == <<c, phase[c].attempt>>

\* Connections are closed, frames torn, replies read that nobody waits for.
Loses ==
  /\ sent' \subseteq sent
  /\ UNCHANGED <<phase, held>>

\* The command is written; the write may go to a peer that is gone.
Writes(c) ==
  /\ phase[c].at = "before"
  /\ phase' = [phase EXCEPT ![c].at = "out"]
  /\ sent' \in {sent, sent \cup {Attempt(c)}}
  /\ UNCHANGED held

\* The reply to a command on the wire is read while its call waits for it.
Reads(c) ==
  /\ phase[c].at = "out"
  /\ Attempt(c) \in sent
  /\ sent' = sent \ {Attempt(c)}
  /\ held' = held \cup {Attempt(c)}
  /\ UNCHANGED phase

\* The first attempt failed, unwritten or unanswered, or with an error of the
\* browser that looks like that.
Retries(c) ==
  /\ phase[c] \in {Before(1), Out(1)}
  /\ phase' = [phase EXCEPT ![c] = Before(2)]
  /\ held' \in {held, held \ {Attempt(c)}}
  /\ UNCHANGED sent

ReturnsReply(c) ==
  /\ phase[c].at = "out"
  /\ Attempt(c) \in held
  /\ phase' = [phase EXCEPT ![c] = Back]
  /\ held' = held \ {Attempt(c)}
  /\ UNCHANGED sent

ReturnsError(c) ==
  /\ phase[c] # Back
  /\ phase' = [phase EXCEPT ![c] = Back]
  /\ UNCHANGED <<sent, held>>

Next ==
  \/ Loses
  \/ \E c \in Calls : Writes(c) \/ Reads(c) \/ Retries(c) \/ ReturnsReply(c) \/ ReturnsError(c)

Spec == Init /\ [][Next]_rpc
=============================================================================
