------------------------------ MODULE Profiles ------------------------------
(***************************************************************************)
(* What profiles.json holds, and what the methods of ProfileStore make of  *)
(* it (internal/browser/profiles.go).                                      *)
(*                                                                         *)
(* A login (the cookies, or the localStorage, of a site where somebody is  *)
(* logged in) is the account it belongs to; NoOne stands for none, and for *)
(* the empty id.  Names are compared as equalFoldName does: names that     *)
(* differ only in case are one member of Names.                            *)
(***************************************************************************)
EXTENDS Integers, Sequences

CONSTANTS Ids, Names, Accounts, NoOne,
          Candidates   \* the ids made from a name, in the order they are tried

ASSUME ProfilesAssumption ==
  /\ NoOne \notin Ids \cup Accounts
  /\ Candidates \in [Names -> Seq(Ids)]

Logins  == Accounts \cup {NoOne}
Profile == [id : Ids, name : Names, cookies : Logins, storage : Logins]
Store   == [profiles : Seq(Profile), active : Ids \cup {NoOne}]

Nothing == [profiles |-> <<>>, active |-> NoOne]

IdsOf(s) == {s.profiles[i].id : i \in DOMAIN s.profiles}

\* Where the first profile with that id, or name, is: no place or one.
First(s, field, value) ==
  {i \in DOMAIN s.profiles : /\ s.profiles[i][field] = value
                             /\ \A j \in 1..(i - 1) : s.profiles[j][field] # value}

-----------------------------------------------------------------------------
(* Each method as the set of stores it may leave: none when it returns an  *)
(* error.                                                                  *)

\* Mutant of Unused: the first id made from a name is taken for free.
UnusedUnchecked(s, name) == {Candidates[name][n] : n \in DOMAIN Candidates[name] \cap {1}}

\* The first id of a name that no profile has.  Candidates ends somewhere, and
\* with it the bound on profiles; slugify never runs out.
Unused(s, name) ==
  {Candidates[name][n] : n \in {n \in DOMAIN Candidates[name] :
      /\ Candidates[name][n] \notin IdsOf(s)
      /\ \A m \in 1..(n - 1) : Candidates[name][m] \in IdsOf(s)}}

\* The name of an existing profile stands for that profile: its cookies are
\* replaced, and its localStorage stays.
Create(s, name, cookies) ==
  IF First(s, "name", name) # {}
  THEN {[s EXCEPT !.profiles[i].cookies = cookies] : i \in First(s, "name", name)}
  ELSE {[s EXCEPT !.profiles = Append(@, [id |-> id, name |-> name, cookies |-> cookies,
                                          storage |-> NoOne])] : id \in Unused(s, name)}

\* Nobody asks whether another profile has the name.
Rename(s, id, name) ==
  {[s EXCEPT !.profiles[i].name = name] : i \in First(s, "id", id)}

\* Mutant of Delete: the active profile may be one that is gone.
DeleteOnly(s, id) ==
  {[s EXCEPT !.profiles = SubSeq(@, 1, i - 1) \o SubSeq(@, i + 1, Len(@))]
     : i \in First(s, "id", id)}

Delete(s, id) ==
  {[profiles |-> SubSeq(s.profiles, 1, i - 1) \o SubSeq(s.profiles, i + 1, Len(s.profiles)),
    active |-> IF s.active = id THEN NoOne ELSE s.active] : i \in First(s, "id", id)}

Activate(s, id) ==
  {[s EXCEPT !.active = i] : i \in {id} \cap (IdsOf(s) \cup {NoOne})}

UpdateCookies(s, id, cookies) ==
  {[s EXCEPT !.profiles[i].cookies = cookies] : i \in First(s, "id", id)}

UpdateLocalStorage(s, id, storage) ==
  {[s EXCEPT !.profiles[i].storage = storage] : i \in First(s, "id", id)}

\* Get: the profile, if there is one.
Get(s, id) == {s.profiles[i] : i \in First(s, "id", id)}

\* Everything that a call can make of a store.
Edits(s) ==
  UNION ({Create(s, name, login) : name \in Names, login \in Logins}
    \cup {Rename(s, id, name) : id \in Ids, name \in Names}
    \cup {Delete(s, id) : id \in Ids}
    \cup {Activate(s, id) : id \in Ids \cup {NoOne}}
    \cup {UpdateCookies(s, id, login) : id \in Ids, login \in Logins}
    \cup {UpdateLocalStorage(s, id, login) : id \in Ids, login \in Logins})

\* A store that Get, Rename, Delete and SwitchToProfile can rely on: an id names
\* one profile, and the active profile exists.
Sound(s) ==
  /\ \A i, j \in DOMAIN s.profiles : s.profiles[i].id = s.profiles[j].id => i = j
  /\ s.active \in IdsOf(s) \cup {NoOne}
=============================================================================
