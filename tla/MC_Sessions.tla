---------------------------- MODULE MC_Sessions ----------------------------
(* Two names that make the same first id, and a file with the profiles of  *)
(* two accounts.                                                           *)
EXTENDS Sessions, TLC

CONSTANTS i1, i2, n1, n2, a, b

MCCandidates == (n1 :> <<i1, i2>>) @@ (n2 :> <<i1, i2>>)

Saved(id, name, account) ==
  [id |-> id, name |-> name, cookies |-> account, storage |-> account]

MCStores ==
  {[profiles |-> <<Saved(i1, n1, a), Saved(i2, n2, b)>>, active |-> NoOne]}
=============================================================================
