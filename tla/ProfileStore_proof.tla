------------------------- MODULE ProfileStore_proof -------------------------
(***************************************************************************)
(* Proofs about ProfileStore, for any profiles, names, accounts, goroutines*)
(* and contents of profiles.json: it implements ProfileBook, and what it   *)
(* holds, in memory and on disk, is sound.                                 *)
(***************************************************************************)
EXTENDS ProfileStore, TLAPS, SequenceTheorems

LEMMA Constants ==
  /\ NoOne \notin Ids \cup Accounts
  /\ NoOne \notin Threads
  /\ \A name \in Names : Candidates[name] \in Seq(Ids)
  /\ \A s \in Stores : s \in Store /\ Sound(s)
  BY ProfilesAssumption, StoreAssumption

-----------------------------------------------------------------------------
(* What the methods make of a sound store. *)

\* A change of a field that is not the id leaves a store sound.
LEMMA FieldChange ==
  ASSUME NEW s \in Store, Sound(s), NEW i \in DOMAIN s.profiles,
         NEW new \in Store, new.active = s.active,
         Len(new.profiles) = Len(s.profiles),
         \A j \in DOMAIN s.profiles : new.profiles[j].id = s.profiles[j].id
  PROVE  Sound(new)
<1>1. s.profiles \in Seq(Profile) /\ new.profiles \in Seq(Profile)
  BY DEF Store
<1>2. DOMAIN new.profiles = DOMAIN s.profiles
  BY <1>1
<1>3. IdsOf(new) = IdsOf(s)
  BY <1>2 DEF IdsOf
<1>4. QED
  BY <1>2, <1>3 DEF Sound

LEMMA FirstIsPlace ==
  ASSUME NEW s, NEW field, NEW value, NEW i \in First(s, field, value)
  PROVE  i \in DOMAIN s.profiles /\ s.profiles[i][field] = value
  BY DEF First

LEMMA ProfileFields ==
  ASSUME NEW s \in Store, NEW i \in DOMAIN s.profiles
  PROVE  /\ s.profiles \in Seq(Profile)
         /\ s.profiles[i] \in Profile
         /\ i \in 1..Len(s.profiles)
  BY DEF Store

\* Rename, UpdateCookies, UpdateLocalStorage and Create under a known name.
LEMMA ChangeName ==
  ASSUME NEW s \in Store, Sound(s), NEW i \in DOMAIN s.profiles, NEW name \in Names
  PROVE  LET new == [s EXCEPT !.profiles[i].name = name] IN new \in Store /\ Sound(new)
<1> DEFINE new == [s EXCEPT !.profiles[i].name = name]
<1>1. s.profiles \in Seq(Profile) /\ s.profiles[i] \in Profile
  BY ProfileFields
<1>2. [s.profiles[i] EXCEPT !.name = name] \in Profile
  BY <1>1 DEF Profile
<1>3. [s.profiles EXCEPT ![i].name = name] \in Seq(Profile)
  BY <1>1, <1>2
<1>4. new \in Store
  BY <1>3 DEF Store
<1>5. /\ new.active = s.active
      /\ Len(new.profiles) = Len(s.profiles)
      /\ \A j \in DOMAIN s.profiles : new.profiles[j].id = s.profiles[j].id
  BY <1>1, <1>2 DEF Store, Profile
<1>6. Sound(new)
  BY <1>4, <1>5, FieldChange
<1>7. QED
  BY <1>4, <1>6

LEMMA ChangeCookies ==
  ASSUME NEW s \in Store, Sound(s), NEW i \in DOMAIN s.profiles, NEW login \in Logins
  PROVE  LET new == [s EXCEPT !.profiles[i].cookies = login] IN new \in Store /\ Sound(new)
<1> DEFINE new == [s EXCEPT !.profiles[i].cookies = login]
<1>1. s.profiles \in Seq(Profile) /\ s.profiles[i] \in Profile
  BY ProfileFields
<1>2. [s.profiles[i] EXCEPT !.cookies = login] \in Profile
  BY <1>1 DEF Profile
<1>3. [s.profiles EXCEPT ![i].cookies = login] \in Seq(Profile)
  BY <1>1, <1>2
<1>4. new \in Store
  BY <1>3 DEF Store
<1>5. /\ new.active = s.active
      /\ Len(new.profiles) = Len(s.profiles)
      /\ \A j \in DOMAIN s.profiles : new.profiles[j].id = s.profiles[j].id
  BY <1>1, <1>2 DEF Store, Profile
<1>6. Sound(new)
  BY <1>4, <1>5, FieldChange
<1>7. QED
  BY <1>4, <1>6

LEMMA ChangeStorage ==
  ASSUME NEW s \in Store, Sound(s), NEW i \in DOMAIN s.profiles, NEW login \in Logins
  PROVE  LET new == [s EXCEPT !.profiles[i].storage = login] IN new \in Store /\ Sound(new)
<1> DEFINE new == [s EXCEPT !.profiles[i].storage = login]
<1>1. s.profiles \in Seq(Profile) /\ s.profiles[i] \in Profile
  BY ProfileFields
<1>2. [s.profiles[i] EXCEPT !.storage = login] \in Profile
  BY <1>1 DEF Profile
<1>3. [s.profiles EXCEPT ![i].storage = login] \in Seq(Profile)
  BY <1>1, <1>2
<1>4. new \in Store
  BY <1>3 DEF Store
<1>5. /\ new.active = s.active
      /\ Len(new.profiles) = Len(s.profiles)
      /\ \A j \in DOMAIN s.profiles : new.profiles[j].id = s.profiles[j].id
  BY <1>1, <1>2 DEF Store, Profile
<1>6. Sound(new)
  BY <1>4, <1>5, FieldChange
<1>7. QED
  BY <1>4, <1>6

\* The profile that Create appends has an id of its own.
LEMMA Appended ==
  ASSUME NEW s \in Store, Sound(s), NEW p \in Profile, p.id \notin IdsOf(s)
  PROVE  LET new == [s EXCEPT !.profiles = Append(@, p)] IN new \in Store /\ Sound(new)
<1> DEFINE new == [s EXCEPT !.profiles = Append(@, p)]
           n   == Len(s.profiles)
<1>1. s.profiles \in Seq(Profile) /\ n \in Nat
  BY DEF Store
<1>2. /\ new.profiles = Append(s.profiles, p)
      /\ new.active = s.active
      /\ new.profiles \in Seq(Profile)
  BY <1>1 DEF Store
<1>3. new \in Store
  BY <1>2 DEF Store
<1>4. /\ DOMAIN new.profiles = 1..(n + 1)
      /\ DOMAIN s.profiles = 1..n
      /\ new.profiles[n + 1] = p
      /\ \A i \in 1..n : new.profiles[i] = s.profiles[i]
  BY <1>1, <1>2
<1>5. IdsOf(s) \subseteq IdsOf(new)
  BY <1>4 DEF IdsOf
<1>6. \A i, j \in DOMAIN new.profiles : new.profiles[i].id = new.profiles[j].id => i = j
  <2>1. \A i \in 1..n : s.profiles[i].id \in IdsOf(s)
    BY <1>4 DEF IdsOf
  <2>2. \A i \in 1..n : new.profiles[i].id # p.id
    BY <1>4, <2>1
  <2>3. \A i \in 1..(n + 1) : i \in 1..n \/ i = n + 1
    BY <1>1
  <2>4. \A i, j \in 1..n : new.profiles[i].id = new.profiles[j].id => i = j
    BY <1>4 DEF Sound
  <2>5. QED
    BY <1>4, <2>2, <2>3, <2>4
<1>7. QED
  BY <1>2, <1>3, <1>5, <1>6 DEF Sound

\* A sequence without its i-th element.
LEMMA WithoutOne ==
  ASSUME NEW S, NEW q \in Seq(S), NEW i \in DOMAIN q
  PROVE  LET n    == Len(q)
             rest == SubSeq(q, 1, i - 1) \o SubSeq(q, i + 1, n)
         IN  /\ rest \in Seq(S) /\ Len(rest) = n - 1 /\ DOMAIN rest = 1..(n - 1)
             /\ \A k \in 1..(n - 1) : /\ (IF k < i THEN k ELSE k + 1) \in 1..n
                                      /\ rest[k] = q[IF k < i THEN k ELSE k + 1]
<1> DEFINE n    == Len(q)
           rest == SubSeq(q, 1, i - 1) \o SubSeq(q, i + 1, n)
           old(k) == IF k < i THEN k ELSE k + 1
<1>1. n \in Nat /\ i \in 1..n /\ DOMAIN q = 1..n
  OBVIOUS
<1>2. /\ SubSeq(q, 1, i - 1) \in Seq(S)
      /\ Len(SubSeq(q, 1, i - 1)) = i - 1
      /\ \A k \in 1..(i - 1) : SubSeq(q, 1, i - 1)[k] = q[k]
  BY <1>1
<1>3. /\ SubSeq(q, i + 1, n) \in Seq(S)
      /\ Len(SubSeq(q, i + 1, n)) = n - i
      /\ \A k \in 1..(n - i) : SubSeq(q, i + 1, n)[k] = q[k + i]
  BY <1>1
<1> HIDE DEF rest
<1>4. /\ rest \in Seq(S)
      /\ Len(rest) = n - 1
      /\ DOMAIN rest = 1..(n - 1)
  <2>1. rest \in Seq(S)
    BY <1>2, <1>3, ConcatProperties DEF rest
  <2>2. Len(rest) = (i - 1) + (n - i)
    BY <1>2, <1>3, ConcatProperties DEF rest
  <2>3. QED
    BY <1>1, <2>1, <2>2
<1>5. \A k \in 1..(n - 1) : old(k) \in 1..n /\ rest[k] = q[old(k)]
  <2> SUFFICES ASSUME NEW k \in 1..(n - 1)
               PROVE  old(k) \in 1..n /\ rest[k] = q[old(k)]
    OBVIOUS
  <2>1. CASE k < i
    BY <1>1, <1>2, <1>3, <2>1 DEF rest
  <2>2. CASE ~(k < i)
    <3>1. k - (i - 1) \in 1..(n - i)
      BY <1>1, <2>2
    <3>2. rest[k] = SubSeq(q, i + 1, n)[k - (i - 1)]
      BY <1>1, <1>2, <1>3, <2>2, SMTT(30) DEF rest
    <3>3. SubSeq(q, i + 1, n)[k - (i - 1)] = q[k - (i - 1) + i]
      BY <1>3, <3>1
    <3>4. k - (i - 1) + i = k + 1
      BY <1>1
    <3>5. QED
      BY <1>1, <2>2, <3>2, <3>3, <3>4
  <2>3. QED
    BY <2>1, <2>2
<1>6. QED
  BY <1>4, <1>5 DEF rest

\* Removing a profile keeps the others' ids apart, and Delete forgets the active
\* profile when it is the one removed.
LEMMA Removed ==
  ASSUME NEW s \in Store, Sound(s), NEW i \in DOMAIN s.profiles
  PROVE  LET new == [profiles |-> SubSeq(s.profiles, 1, i - 1)
                                    \o SubSeq(s.profiles, i + 1, Len(s.profiles)),
                     active |-> IF s.active = s.profiles[i].id THEN NoOne ELSE s.active]
         IN  new \in Store /\ Sound(new)
<1> DEFINE n    == Len(s.profiles)
           rest == SubSeq(s.profiles, 1, i - 1) \o SubSeq(s.profiles, i + 1, n)
           new  == [profiles |-> rest,
                    active |-> IF s.active = s.profiles[i].id THEN NoOne ELSE s.active]
           old(k) == IF k < i THEN k ELSE k + 1
<1>1. s.profiles \in Seq(Profile) /\ n \in Nat /\ i \in 1..n /\ DOMAIN s.profiles = 1..n
  BY DEF Store
<1>2. /\ rest \in Seq(Profile) /\ Len(rest) = n - 1 /\ DOMAIN rest = 1..(n - 1)
      /\ \A k \in 1..(n - 1) : old(k) \in 1..n /\ rest[k] = s.profiles[old(k)]
  BY <1>1, WithoutOne
<1> HIDE DEF rest
<1>3. new \in Store
  BY <1>2 DEF Store
<1>4. \A k, l \in DOMAIN rest : rest[k].id = rest[l].id => k = l
  <2> SUFFICES ASSUME NEW k \in 1..(n - 1), NEW l \in 1..(n - 1), rest[k].id = rest[l].id
               PROVE  k = l
    BY <1>2
  <2>1. /\ old(k) \in DOMAIN s.profiles /\ old(l) \in DOMAIN s.profiles
        /\ s.profiles[old(k)].id = s.profiles[old(l)].id
    BY <1>1, <1>2
  <2> HIDE DEF old
  <2>2. old(k) = old(l)
    BY <2>1 DEF Sound
  <2>3. QED
    BY <1>1, <2>2 DEF old
<1>5. new.active \in IdsOf(new) \cup {NoOne}
  <2>1. CASE s.active \in IdsOf(s) /\ s.active # s.profiles[i].id
    <3>1. PICK j \in 1..n : s.profiles[j].id = s.active
      BY <1>1, <2>1 DEF IdsOf
    <3>2. j # i
      BY <2>1, <3>1
    <3> DEFINE k == IF j < i THEN j ELSE j - 1
    <3>3. k \in 1..(n - 1) /\ old(k) = j
      BY <1>1, <3>2
    <3>4. rest[k] = s.profiles[j]
      BY <1>2, <3>3
    <3>5. rest[k].id \in IdsOf(new)
      BY <1>2, <3>3 DEF IdsOf
    <3>6. QED
      BY <2>1, <3>1, <3>4, <3>5
  <2>2. QED
    BY <2>1 DEF Sound
<1>6. QED
  BY <1>3, <1>4, <1>5 DEF Sound, rest

LEMMA CreateKeeps ==
  ASSUME NEW s \in Store, Sound(s), NEW name \in Names, NEW login \in Logins,
         NEW new \in Create(s, name, login)
  PROVE  new \in Store /\ Sound(new)
<1>1. CASE First(s, "name", name) # {}
  <2>1. PICK i \in First(s, "name", name) : new = [s EXCEPT !.profiles[i].cookies = login]
    BY <1>1 DEF Create
  <2>2. QED
    BY <2>1, FirstIsPlace, ChangeCookies
<1>2. CASE First(s, "name", name) = {}
  <2>1. PICK id \in Unused(s, name) :
          new = [s EXCEPT !.profiles = Append(@, [id |-> id, name |-> name, cookies |-> login,
                                                  storage |-> NoOne])]
    BY <1>2 DEF Create
  <2>2. Candidates[name] \in Seq(Ids)
    BY Constants
  <2>3. id \in Ids /\ id \notin IdsOf(s)
    BY <2>1, <2>2 DEF Unused
  <2> DEFINE p == [id |-> id, name |-> name, cookies |-> login, storage |-> NoOne]
  <2>4. p \in Profile /\ p.id = id
    BY <2>3 DEF Profile, Logins
  <2>5. new = [s EXCEPT !.profiles = Append(@, p)]
    BY <2>1
  <2> HIDE DEF p
  <2>6. QED
    BY <2>3, <2>4, <2>5, Appended
<1>3. QED
  BY <1>1, <1>2

LEMMA DeleteKeeps ==
  ASSUME NEW s \in Store, Sound(s), NEW id \in Ids, NEW new \in Delete(s, id)
  PROVE  new \in Store /\ Sound(new)
<1>1. PICK i \in First(s, "id", id) :
        new = [profiles |-> SubSeq(s.profiles, 1, i - 1)
                              \o SubSeq(s.profiles, i + 1, Len(s.profiles)),
               active |-> IF s.active = id THEN NoOne ELSE s.active]
  BY DEF Delete
<1>2. i \in DOMAIN s.profiles /\ s.profiles[i]["id"] = id
  BY FirstIsPlace
<1>3. s.profiles[i].id = id
  BY <1>2
<1>4. QED
  BY <1>1, <1>2, <1>3, Removed

LEMMA ActivateKeeps ==
  ASSUME NEW s \in Store, Sound(s), NEW id \in Ids \cup {NoOne}, NEW new \in Activate(s, id)
  PROVE  new \in Store /\ Sound(new)
<1>1. /\ new = [s EXCEPT !.active = id]
      /\ id \in IdsOf(s) \cup {NoOne}
  BY DEF Activate
<1>2. /\ new.profiles = s.profiles /\ new.active = id
      /\ new \in Store
  BY <1>1 DEF Store
<1>3. IdsOf(new) = IdsOf(s)
  BY <1>2 DEF IdsOf
<1>4. QED
  BY <1>1, <1>2, <1>3 DEF Sound

(* Every edit of a sound store is a sound store: Create finds an id that   *)
(* nobody has, Delete takes the active profile with it, Activate looks.    *)
THEOREM EditsKeepSound ==
  ASSUME NEW s \in Store, Sound(s), NEW new \in Edits(s)
  PROVE  new \in Store /\ Sound(new)
<1>1. CASE \E name \in Names, login \in Logins : new \in Create(s, name, login)
  BY <1>1, CreateKeeps
<1>2. CASE \E id \in Ids, name \in Names : new \in Rename(s, id, name)
  <2>1. PICK id \in Ids, name \in Names : new \in Rename(s, id, name)
    BY <1>2
  <2>2. PICK i \in First(s, "id", id) : new = [s EXCEPT !.profiles[i].name = name]
    BY <2>1 DEF Rename
  <2>3. QED
    BY <2>2, FirstIsPlace, ChangeName
<1>3. CASE \E id \in Ids : new \in Delete(s, id)
  BY <1>3, DeleteKeeps
<1>4. CASE \E id \in Ids \cup {NoOne} : new \in Activate(s, id)
  BY <1>4, ActivateKeeps
<1>5. CASE \E id \in Ids, login \in Logins : new \in UpdateCookies(s, id, login)
  <2>1. PICK id \in Ids, login \in Logins : new \in UpdateCookies(s, id, login)
    BY <1>5
  <2>2. PICK i \in First(s, "id", id) : new = [s EXCEPT !.profiles[i].cookies = login]
    BY <2>1 DEF UpdateCookies
  <2>3. QED
    BY <2>2, FirstIsPlace, ChangeCookies
<1>6. CASE \E id \in Ids, login \in Logins : new \in UpdateLocalStorage(s, id, login)
  <2>1. PICK id \in Ids, login \in Logins : new \in UpdateLocalStorage(s, id, login)
    BY <1>6
  <2>2. PICK i \in First(s, "id", id) : new = [s EXCEPT !.profiles[i].storage = login]
    BY <2>1 DEF UpdateLocalStorage
  <2>3. QED
    BY <2>2, FirstIsPlace, ChangeStorage
<1>7. QED
  BY <1>1, <1>2, <1>3, <1>4, <1>5, <1>6 DEF Edits

-----------------------------------------------------------------------------
(* The invariant of the store: while s.mu is held, the state is an edit of *)
(* what it was before, and a temporary file about to be renamed has it.    *)
StoreInv ==
  /\ StoreTypeOK
  /\ Sound(file) /\ Sound(state) /\ Sound(before)
  /\ holder # NoOne => loaded /\ state \in Edits(before)
  /\ stage = "rename" => written = state
  /\ answer = "ok" => file = Seen

LEMMA NothingIsSound == Nothing \in Store /\ Sound(Nothing)
  BY DEF Nothing, Store, Sound, IdsOf

LEMMA InvInit == StoreInit => StoreInv
<1> SUFFICES ASSUME StoreInit PROVE StoreInv
  OBVIOUS
<1>1. file \in Store /\ Sound(file)
  BY Constants, NothingIsSound DEF StoreInit
<1>2. StoreTypeOK
  BY <1>1, NothingIsSound DEF StoreInit, StoreTypeOK
<1>3. QED
  BY <1>1, <1>2, NothingIsSound DEF StoreInit, StoreInv

LEMMA InvEdit ==
  ASSUME StoreInv, NEW t \in Threads, NEW new \in Edits(state), Edit(t, new)
  PROVE  StoreInv' /\ UNCHANGED <<Seen, file, answer>>
<1>1. state \in Store /\ Sound(state) /\ t # NoOne
  BY Constants DEF StoreInv, StoreTypeOK
<1>2. new \in Store /\ Sound(new)
  BY <1>1, EditsKeepSound
<1>3. UNCHANGED <<Seen, file, answer>>
  BY <1>1 DEF Edit, Seen, StoreInv
<1>4. StoreTypeOK'
  BY <1>1, <1>2 DEF Edit, StoreInv, StoreTypeOK
<1>5. (holder # NoOne => loaded /\ state \in Edits(before))'
  BY DEF Edit
<1>6. (answer = "ok" => file = Seen)'
  BY <1>3 DEF StoreInv
<1>7. QED
  BY <1>1, <1>2, <1>3, <1>4, <1>5, <1>6 DEF StoreInv, Edit

LEMMA InvReturn ==
  ASSUME StoreInv, NEW t \in Threads, RenameTmp(t) \/ SaveFails(t)
  PROVE  /\ StoreInv'
         /\ Seen = before /\ Seen' = state
         /\ state \in Edits(before)
<1>1. holder = t /\ t # NoOne /\ loaded /\ state \in Edits(before) /\ holder' = NoOne
  BY Constants DEF StoreInv, StoreTypeOK, RenameTmp, SaveFails, Return
<1>2. Seen = before /\ Seen' = state
  BY <1>1 DEF Seen, RenameTmp, SaveFails
<1>3. StoreTypeOK'
  BY NothingIsSound DEF StoreInv, StoreTypeOK, RenameTmp, SaveFails, Return
<1>4. (Sound(file) /\ Sound(state) /\ Sound(before))'
  BY NothingIsSound DEF StoreInv, StoreTypeOK, RenameTmp, SaveFails, Return
<1>5. (stage = "rename" => written = state)'
  BY DEF RenameTmp, SaveFails, Return
<1>6. (answer = "ok" => file = Seen)'
  BY <1>2 DEF StoreInv, RenameTmp, SaveFails, Return
<1>7. QED
  BY <1>1, <1>2, <1>3, <1>4, <1>5, <1>6 DEF StoreInv

LEMMA InvWrite ==
  ASSUME StoreInv, NEW t \in Threads, OpenTmp(t) \/ WriteTmp(t)
  PROVE  StoreInv' /\ UNCHANGED <<Seen, file, answer>>
<1>1. /\ UNCHANGED <<Seen, file, answer>>
      /\ UNCHANGED <<state, before, holder, loaded>>
  BY DEF OpenTmp, WriteTmp, Seen
<1>2. StoreTypeOK'
  BY Constants DEF StoreInv, StoreTypeOK, OpenTmp, WriteTmp
<1>3. (stage = "rename" => written = state)'
  BY DEF OpenTmp, WriteTmp
<1>4. (holder # NoOne => loaded /\ state \in Edits(before))'
  BY <1>1 DEF StoreInv
<1>5. (Sound(file) /\ Sound(state) /\ Sound(before))' /\ (answer = "ok" => file = Seen)'
  BY <1>1 DEF StoreInv
<1>6. StoreInv'
  BY <1>2, <1>3, <1>4, <1>5 DEF StoreInv
<1>7. QED
  BY <1>1, <1>6

LEMMA InvLoad ==
  ASSUME StoreInv, Load
  PROVE  StoreInv' /\ UNCHANGED <<Seen, file, answer>>
<1>1. UNCHANGED <<Seen, file, answer>>
  BY DEF Load, Seen
<1>2. StoreTypeOK'
  BY DEF StoreInv, StoreTypeOK, Load
<1>3. (answer = "ok" => file = Seen)'
  BY <1>1 DEF StoreInv
<1>4. (Sound(file) /\ Sound(state) /\ Sound(before))'
  BY DEF StoreInv, Load
<1>5. (holder # NoOne => loaded /\ state \in Edits(before))' /\ (stage = "rename" => written = state)'
  BY DEF StoreInv, StoreTypeOK, Load
<1>6. QED
  BY <1>1, <1>2, <1>3, <1>4, <1>5 DEF StoreInv

LEMMA InvCrash ==
  ASSUME StoreInv, StoreCrash
  PROVE  StoreInv' /\ Seen' = file
<1>1. Seen' = file
  BY DEF StoreCrash, Seen
<1>2. StoreTypeOK'
  BY NothingIsSound, Constants DEF StoreInv, StoreTypeOK, StoreCrash
<1>3. QED
  BY <1>1, <1>2, NothingIsSound DEF StoreInv, StoreCrash

LEMMA InvRefuse ==
  ASSUME StoreInv, Refuse
  PROVE  StoreInv' /\ UNCHANGED <<Seen, file>>
<1>1. UNCHANGED <<Seen, file>>
  BY DEF Refuse, Seen
<1>2. StoreTypeOK'
  BY DEF StoreInv, StoreTypeOK, Refuse
<1>3. QED
  BY <1>1, <1>2 DEF StoreInv, Refuse

LEMMA InvNext == StoreInv /\ [StoreNext]_storeVars => StoreInv'
<1> SUFFICES ASSUME StoreInv, [StoreNext]_storeVars PROVE StoreInv'
  OBVIOUS
<1>1. CASE UNCHANGED storeVars
  <2>1. UNCHANGED Seen
    BY <1>1 DEF storeVars, Seen
  <2>2. StoreTypeOK'
    BY <1>1 DEF storeVars, StoreInv, StoreTypeOK
  <2>3. QED
    BY <1>1, <2>1, <2>2 DEF storeVars, StoreInv
<1>2. CASE StoreNext
  BY <1>2, InvEdit, InvReturn, InvWrite, InvLoad, InvCrash, InvRefuse DEF StoreNext
<1>3. QED
  BY <1>1, <1>2

(* What the store has in memory, on disk and in its temporary file is of   *)
(* its type, whatever fails and whenever the process dies.                 *)
THEOREM StoreInvariant == StoreSpec => []StoreInv
<1>1. QED
  BY InvInit, InvNext, PTL DEF StoreSpec

(* Ids stay unique, the active profile exists, and an answer without error *)
(* means that profiles.json has everything (profiles.go:116-129).          *)
THEOREM Reliability == StoreSpec => []StoreReliable
<1>1. StoreInv => StoreReliable
  BY DEF StoreInv, StoreReliable, Book!Reliable, Book!Sound, Book!IdsOf, Sound, IdsOf, Seen
<1>2. QED
  BY <1>1, StoreInvariant, PTL

-----------------------------------------------------------------------------
LEMMA BookInit == StoreInit => Book!Init
  BY DEF StoreInit, Book!Init, Seen, Book!Nothing, Nothing

\* The book's edits are those of the store.
LEMMA SameEdits == \A s : Book!Edits(s) = Edits(s)
  BY DEF Book!Edits, Edits, Book!Create, Create, Book!Rename, Rename, Book!Delete, Delete,
         Book!Activate, Activate, Book!UpdateCookies, UpdateCookies,
         Book!UpdateLocalStorage, UpdateLocalStorage, Book!First, First, Book!Unused, Unused,
         Book!IdsOf, IdsOf, Book!Logins, Logins

LEMMA BookStep == StoreInv /\ [StoreNext]_storeVars => [Book!Next]_Book!book
<1> SUFFICES ASSUME StoreInv, [StoreNext]_storeVars PROVE [Book!Next]_Book!book
  OBVIOUS
<1>1. CASE UNCHANGED storeVars
  BY <1>1 DEF storeVars, Seen, Book!book
<1>2. CASE Load
  BY <1>2, InvLoad DEF Book!book
<1>3. CASE Refuse
  BY <1>3, InvRefuse DEF Refuse, Book!Next, Book!Refused
<1>4. CASE StoreCrash
  BY <1>4, InvCrash DEF StoreCrash, Book!Next, Book!Restart
<1>5. ASSUME NEW t \in Threads, NEW new \in Edits(state), Edit(t, new)
      PROVE  [Book!Next]_Book!book
  BY <1>5, InvEdit DEF Book!book
<1>6. ASSUME NEW t \in Threads, OpenTmp(t) \/ WriteTmp(t)
      PROVE  [Book!Next]_Book!book
  BY <1>6, InvWrite DEF Book!book
<1>7. ASSUME NEW t \in Threads, RenameTmp(t)
      PROVE  Book!Saved
  <2>1. Seen = before /\ Seen' = state /\ state \in Edits(before)
    BY <1>7, InvReturn
  <2>2. file' = state /\ answer' = "ok"
    BY <1>7 DEF RenameTmp, Return, StoreInv
  <2>3. QED
    BY <2>1, <2>2, SameEdits DEF Book!Saved
<1>8. ASSUME NEW t \in Threads, SaveFails(t)
      PROVE  Book!Unsaved
  <2>1. Seen = before /\ Seen' = state /\ state \in Edits(before)
    BY <1>8, InvReturn
  <2>2. file' = file /\ answer' = "error"
    BY <1>8 DEF SaveFails, Return
  <2>3. QED
    BY <2>1, <2>2, SameEdits DEF Book!Unsaved
<1>9. QED
  BY <1>1, <1>2, <1>3, <1>4, <1>5, <1>6, <1>7, <1>8 DEF StoreNext, Book!Next

(* The store implements the book: a method is one step for whoever calls   *)
(* it, and for profiles.json, however the save and the process end.        *)
THEOREM Refinement == StoreSpec => Implements
<1>1. QED
  BY BookInit, BookStep, StoreInvariant, PTL DEF StoreSpec, Implements, Book!Spec
=============================================================================
