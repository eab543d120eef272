--------------------------- MODULE GitSyncProofs ---------------------------
(***************************************************************************)
(* Git sync, for any devices, engrams, notes, acts, crashes and pushes.    *)
(*                                                                         *)
(* A record that a merge keeps, drops or renames is looked up by id, so    *)
(* what has to hold is that an id and a birth name each other: in a store, *)
(* in a commit with the one it stands on, and along the pushed history.    *)
(* That fails when an id is removed everywhere and given again by a device *)
(* that had not seen it; the theorems hold until a pull meets such an id,  *)
(* and with two devices none ever does.                                    *)
(***************************************************************************)
EXTENDS GitSync, WellFoundedInduction, TLAPS

\* Types.
Ids == Nat \X Nat
Engram == [id : Ids, birth : Nat, private : BOOLEAN, retired : BOOLEAN, text : Nat]
About == [ref : Ids, means : Nat]
Tree == [engrams : SUBSET Engram, notes : SUBSET About]

\* The places of a sync, and those where no merge is open, where one is, and where a recovery puts back what was held.
Stages == {"idle", "recover", "recoverEngrams", "recoverNotes", "recovered", "commit", "hold", "reset", "pull",
           "merge", "saveRenames", "conclude", "restore", "restoreNotes", "restored", "push"}

Pulling == {"hold", "reset", "pull", "restore", "restoreNotes", "restored", "push"}
Merging == {"merge", "saveRenames", "conclude"}
Recovering == {"recoverEngrams", "recoverNotes", "recovered"}

\* No number that an id begins with is over t.
Below(S, t) == \A e \in S : e.id[1] <= t

\* The type invariant: every number an id begins with is no larger than the count of births, and a sync that is at a merge has one open.
GitTypes ==
  /\ engrams \in [Devices -> SUBSET Engram] /\ notes \in [Devices -> SUBSET About]
  /\ remote \in Seq(Tree) /\ head \in [Devices -> Tree]
  /\ base \in [Devices -> Nat] /\ merging \in [Devices -> Nat]
  /\ \A d \in Devices : base[d] \in 1..Len(remote) /\ merging[d] \in 0..Len(remote)
  /\ torn \subseteq Devices /\ touched \subseteq Devices
  /\ hold \in [Devices -> [engrams : SUBSET Engram, notes : SUBSET About, renames : SUBSET (Ids \X Ids)]]
  /\ syncing \in [Devices -> [at : Stages, map : SUBSET (Ids \X Ids)]]
  /\ births \in Nat /\ top \in [Devices -> Nat] /\ crashes \in Nat
  /\ known \in [Devices -> SUBSET Nat] /\ purged \in [Devices -> SUBSET Nat]
  /\ retired \in [Devices -> SUBSET Nat] /\ reused \in BOOLEAN
  /\ \A d \in Devices : /\ top[d] <= births
                        /\ Below(engrams[d], births) /\ Below(hold[d].engrams, births) /\ Below(head[d].engrams, births)
  /\ \A i \in 1..Len(remote) : Below(remote[i].engrams, births)
  /\ \A d \in Devices : syncing[d].at \in Merging => merging[d] # 0

\* The commit of the remote that the working tree of a device stands on.
Stand(d) == IF merging[d] # 0 /\ d \notin torn THEN merging[d] ELSE base[d]

\* What is held, merged, staged and written at each place of a sync.
InStage(d) == LET at == syncing[d].at IN
  /\ at \in {"commit", "hold"} => hold[d] = NoHold
  /\ at \in Pulling => merging[d] = 0
  /\ at \in Merging => merging[d] # 0 /\ d \notin touched /\ (d \in torn <=> at = "merge")
  /\ at \in Recovering => (merging[d] # 0 => d \in touched)
  /\ d \in torn => merging[d] # 0 /\ d \notin touched /\ at \in {"idle", "recover", "merge"}
  /\ d \in touched => merging[d] # 0
  /\ merging[d] # 0 => base[d] <= merging[d]
  /\ at \in {"hold", "reset"} => head[d] = Strip(engrams[d], notes[d])
  /\ at \in Pulling => head[d].engrams = PushedEngrams(engrams[d])
  /\ at = "reset" => hold[d] = HeldOf(d)
  /\ at = "pull" => engrams[d] = head[d].engrams /\ notes[d] = head[d].notes
  /\ at \in {"saveRenames", "conclude"} => \A e \in engrams[d] : ~e.private
  /\ at \in {"restoreNotes", "restored", "recoverNotes", "recovered"} =>
       \A h \in hold[d].engrams : \E e \in engrams[d] : e.birth = h.birth

\* In the following n is the count of births, R the remote and X what was removed.  One id, one memory.
SoundBy(S, n) ==
  /\ \A e \in S : e.id[2] \in {0, e.birth} /\ e.id[1] <= n /\ e.birth < n
  /\ \A e, f \in S : e.id = f.id \/ e.birth = f.birth => e = f
\* Nothing of S is to stay on its device; x was pushed.
Public(S) == \A e \in S : ~e.private
PushedIn(x, R) == \E i \in 1..Len(R) : x \in BirthsOf(R[i].engrams)

\* S could stand on commit k of R: an id or a birth of both names one memory, what k retired is retired, and what k
\* has is in S unless it was removed; what was ever pushed and is in S is still in k.
StandsIn(S, k, R, n, X) ==
  /\ SoundBy(S, n) /\ Public(S)
  /\ \A e \in S : \A i \in 1..Len(R) : \A f \in R[i].engrams : e.birth = f.birth =>
       e.id = f.id /\ e.birth \in BirthsOf(R[k].engrams)
  /\ \A e \in S : \A f \in R[k].engrams :
       (e.id = f.id => e.birth = f.birth) /\ (e.birth = f.birth /\ f.retired => e.retired)
  /\ \A f \in R[k].engrams : f.birth \in X \/ f.birth \in BirthsOf(S)

\* A birth has one id in all commits, once retired it stays so, and it leaves only when it was removed, for good.
RemoteIn(R, n, X) ==
  /\ PushedIn(0, R)
  /\ \A i \in 1..Len(R) : SoundBy(R[i].engrams, n) /\ Public(R[i].engrams)
  /\ \A i, j \in 1..Len(R) : \A e \in R[i].engrams, f \in R[j].engrams :
       e.birth = f.birth => e.id = f.id /\ (i <= j /\ e.retired => f.retired)
  /\ \A i, j \in 1..Len(R) : \A e \in R[i].engrams : i <= j =>
       e.birth \in X \/ e.birth \in BirthsOf(R[j].engrams)
  /\ \A i, j, k \in 1..Len(R) : \A e \in R[i].engrams : i <= j /\ j <= k
       /\ e.birth \in BirthsOf(R[k].engrams) => e.birth \in BirthsOf(R[j].engrams)

\* What is private was never committed, and a held record whose birth is in the store is the same, or has been given
\* its fresh id there.
PrivateIn(E, H, S, R, n) ==
  /\ SoundBy(E, n) /\ SoundBy(H, n)
  /\ \A h \in H : h.private
  /\ \A e \in E \cup H : e.private => e.birth # 0 /\ e.birth \notin BirthsOf(S) /\ ~PushedIn(e.birth, R)
  /\ \A h \in H, e \in E : h.birth = e.birth =>
       e = h \/ (e = [h EXCEPT !.id = FreshId(h)] /\ h.id \in IdsOf(E))

\* Nothing of S is in P, and what is in T is retired; and of what K has met, the remote was given it by commit j.
Stays(S, P, T) == \A e \in S : e.birth \notin P /\ (e.birth \in T => e.retired)
SeenBy(K, R, j) == \A x \in K : PushedIn(x, R) => \E i \in 1..j : x \in BirthsOf(R[i].engrams)

\* The same for the state as it is.
Sound(S) == SoundBy(S, births)
Pushed(x) == PushedIn(x, remote)
Stands(S, k) == StandsIn(S, k, remote, births, Removed)
RemoteInv == RemoteIn(remote, births, Removed)

\* A half-made merge that a recovery, or a failure, would abort.
Abortable(d) == merging[d] # 0 /\ d \notin touched
\* The commit of the remote that a device has taken up.
Bound(d) == IF d \in touched THEN merging[d] ELSE base[d]

\* The commit and what would be committed stand on the remote; what is private is; the largest number minted or seen is
\* no smaller than any there is; what was known is there; and what was removed or retired has not come back.
Trees(d) == Stands(head[d].engrams, base[d]) /\ Stands(PushedEngrams(engrams[d]), Stand(d))
Private(d) == PrivateIn(engrams[d], hold[d].engrams, head[d].engrams, remote, births)
Topped(d) ==
  /\ Below(engrams[d], top[d]) /\ Below(hold[d].engrams, top[d]) /\ Below(head[d].engrams, top[d])
  /\ Below(remote[base[d]].engrams, top[d]) /\ Below(remote[Stand(d)].engrams, top[d])
Kept(d) ==
  /\ known[d] \ Removed \subseteq BirthsOf(engrams[d]) \cup BirthsOf(hold[d].engrams)
  /\ Abortable(d) => known[d] \ Removed \subseteq BirthsOf(head[d].engrams) \cup BirthsOf(hold[d].engrams)
Gone(d) ==
  /\ Stays(engrams[d], purged[d], retired[d]) /\ Stays(hold[d].engrams, purged[d], retired[d])
  /\ Abortable(d) => Stays(head[d].engrams, purged[d], retired[d])
  /\ retired[d] \subseteq known[d]
  /\ SeenBy(known[d], remote, Bound(d)) /\ SeenBy(purged[d], remote, Bound(d))

\* The births a device has met.
Met(d) == known[d] \cup purged[d] \cup BirthsOf(engrams[d]) \cup BirthsOf(hold[d].engrams) \cup BirthsOf(head[d].engrams)
\* Every birth is older than the count, and one that two devices have met was pushed.
Owned ==
  /\ \A d \in Devices : \A x \in Met(d) : x < births
  /\ \A d, c \in Devices : d # c => \A x \in Met(d) \cap Met(c) : Pushed(x)

Device(d) == InStage(d) /\ Trees(d) /\ Private(d) /\ Topped(d) /\ Kept(d) /\ Gone(d)
\* The inductive invariant, which holds until a pull meets an id that names another memory than before.
GitCore ==
  /\ \A d \in Devices : Device(d)
  /\ RemoteInv /\ Owned
GitInv == ~reused => GitCore

\* The notes name the memories they were written about, or ones that were removed.
Meant(N, S, X) == \A n \in N : n.means \in X \/ \E e \in S : e.birth = n.means /\ e.id = n.ref

\* What is held at each place of a sync that was never cut short, and which memories the held notes are about.
NoteStage(d) == LET at == syncing[d].at IN
  /\ at \in {"idle", "commit", "hold", "push"} => hold[d] = NoHold
  /\ at \notin {"recover"} \cup Recovering
  /\ at \in {"idle", "commit"} => merging[d] = 0
  /\ at \in {"idle", "commit", "hold", "reset", "pull", "merge", "push"} => syncing[d].map = {}
  /\ at = "restore" => Public(engrams[d])
  /\ at \in {"reset", "pull", "merge", "saveRenames", "conclude", "restore"} => Meant(hold[d].notes, hold[d].engrams, Removed)
  /\ at \in {"reset", "pull", "merge"} => IdsOf(head[d].engrams) \cap IdsOf(hold[d].engrams) = {}
  /\ at \in {"saveRenames", "conclude", "restore"} => \A r \in syncing[d].map : r[1] \notin IdsOf(hold[d].engrams)
  /\ at = "restoreNotes" => Meant(RenameNotes(hold[d].notes, syncing[d].map), engrams[d], Removed)
Noted(d) ==
  /\ NoteStage(d)
  /\ Meant(notes[d], engrams[d], Removed) /\ Meant(head[d].notes, head[d].engrams, Removed)
\* The inductive invariant of the notes.
NotesCore ==
  /\ \A d \in Devices : Noted(d)
  /\ \A i \in 1..Len(remote) : Meant(remote[i].notes, remote[i].engrams, Removed)
NotesInv == ~reused /\ crashes = 0 => NotesCore

----------------------------------------------------------------------------
(* Ids and renames *)

\* What a record becomes under another id.
LEMMA IdChanged ==
  ASSUME NEW e \in Engram, NEW id \in Ids
  PROVE  LET f == [e EXCEPT !.id = id] IN
         /\ f \in Engram /\ f.id = id /\ f.birth = e.birth /\ f.private = e.private /\ f.retired = e.retired
  BY DEF Engram

\* An id that is not renamed stays; any other is in the map.
LEMMA RenamedIs ==
  ASSUME NEW map \in SUBSET (Ids \X Ids), NEW id \in Ids
  PROVE  /\ Renamed(map, id) \in Ids
         /\ (\A r \in map : r[1] # id) => Renamed(map, id) = id
         /\ (\E r \in map : r[1] = id) => <<id, Renamed(map, id)>> \in map
<1>1. CASE \A r \in map : r[1] # id
  BY <1>1 DEF Renamed
<1>2. CASE \E r \in map : r[1] = id
  <2> DEFINE r == CHOOSE q \in map : q[1] = id
  <2>1. r \in map /\ r[1] = id
    BY <1>2
  <2>2. Renamed(map, id) = r[2]
    BY <1>2 DEF Renamed
  <2>3. r \in Ids \X Ids
    BY <2>1
  <2>4. r = <<r[1], r[2]>> /\ r[2] \in Ids
    BY <2>3
  <2> QED
    BY <2>1, <2>2, <2>4, <1>2
<1> QED
  BY <1>1, <1>2

\* What a set of records has, by id and by birth.
LEMMA SetsAre ==
  ASSUME NEW S
  PROVE  /\ \A x : x \in BirthsOf(S) <=> \E e \in S : e.birth = x
         /\ \A i : i \in IdsOf(S) <=> \E e \in S : e.id = i
  BY DEF BirthsOf, IdsOf

\* A fresh id is an id, with the number of the old one.
LEMMA FreshIn ==
  ASSUME NEW e \in Engram
  PROVE  FreshId(e) \in Ids /\ FreshId(e)[1] = e.id[1] /\ FreshId(e)[2] = e.birth /\ e.id[1] \in Nat /\ e.id[2] \in Nat
         /\ e.id = <<e.id[1], e.id[2]>>
  BY DEF Engram, Ids, FreshId

\* Of some records with different ids one has a given id.
LEMMA ByIdIs ==
  ASSUME NEW S, \A e, f \in S : e.id = f.id => e = f, NEW e \in S
  PROVE  ById(S, e.id) = e
  BY DEF ById

\* The records that are put back: each is there, as it was or under its fresh id.
LEMMA PutBackIs ==
  ASSUME NEW E \in SUBSET Engram, NEW H \in SUBSET Engram
  PROVE  /\ PutBack(E, H) \in SUBSET Engram
         /\ E \subseteq PutBack(E, H)
         /\ \A r \in PutBack(E, H) \ E : \E h \in H :
              /\ r.birth = h.birth /\ r.private = h.private /\ r.retired = h.retired /\ r.id[1] = h.id[1]
              /\ (r = h /\ h.id \notin IdsOf(E)) \/ (r = [h EXCEPT !.id = FreshId(h)] /\ h \in Clashing(E, H))
         /\ BirthsOf(PutBack(E, H)) = BirthsOf(E) \cup BirthsOf(H)
<1> DEFINE Re(h) == [h EXCEPT !.id = FreshId(h)]
<1>1. \A h \in H : Re(h) \in Engram /\ Re(h).id = FreshId(h) /\ Re(h).birth = h.birth
                   /\ Re(h).private = h.private /\ Re(h).retired = h.retired /\ Re(h).id[1] = h.id[1]
  BY IdChanged, FreshIn
<1>2. \A r : r \in PutBack(E, H) <=>
        r \in E \/ (r \in H /\ r.id \notin IdsOf(E)) \/ \E h \in Clashing(E, H) : r = Re(h)
  BY DEF PutBack
<1>3. \A h \in Clashing(E, H) : h \in H
  BY DEF Clashing
<1>4. PutBack(E, H) \in SUBSET Engram /\ E \subseteq PutBack(E, H)
  BY <1>1, <1>2, <1>3
<1>5. \A r \in PutBack(E, H) \ E : \E h \in H :
        /\ r.birth = h.birth /\ r.private = h.private /\ r.retired = h.retired /\ r.id[1] = h.id[1]
        /\ (r = h /\ h.id \notin IdsOf(E)) \/ (r = Re(h) /\ h \in Clashing(E, H))
  <2> TAKE r \in PutBack(E, H) \ E
  <2>1. CASE r \in H /\ r.id \notin IdsOf(E)
    BY <2>1
  <2>2. CASE \E h \in Clashing(E, H) : r = Re(h)
    <3>1. PICK h \in Clashing(E, H) : r = Re(h)
      BY <2>2
    <3>2. h \in H
      BY <1>3
    <3> QED
      BY <1>1, <3>1, <3>2
  <2> QED
    BY <1>2, <2>1, <2>2
<1>6. \A h \in H : h.id \notin IdsOf(E) \/ h \in E \/ Re(h) \in E \/ h \in Clashing(E, H)
  BY DEF Clashing
<1>7. \A h \in H : \E r \in PutBack(E, H) : r.birth = h.birth
  BY <1>1, <1>2, <1>6
<1>8. \A x : x \in BirthsOf(PutBack(E, H)) <=> x \in BirthsOf(E) \/ x \in BirthsOf(H)
  BY <1>4, <1>5, <1>7, SetsAre
<1> QED
  BY <1>4, <1>5, <1>8

\* Putting records back leaves no two of one id, or of one birth: a fresh id is of one birth only.
LEMMA PutBackSound ==
  ASSUME NEW E \in SUBSET Engram, NEW H \in SUBSET Engram, Sound(E), Sound(H), \A h \in H : h.birth # 0,
         \A h \in H, e \in E : h.birth = e.birth =>
           e = h \/ (e = [h EXCEPT !.id = FreshId(h)] /\ h.id \in IdsOf(E))
  PROVE  /\ Sound(PutBack(E, H))
         /\ \A h \in H, e \in PutBack(E, H) : h.birth = e.birth =>
              e = h \/ (e = [h EXCEPT !.id = FreshId(h)] /\ h.id \in IdsOf(PutBack(E, H)))
<1> DEFINE Re(h) == [h EXCEPT !.id = FreshId(h)]
           R == PutBack(E, H)
           From(r, h) == /\ r.birth = h.birth
                         /\ (r = h /\ h.id \notin IdsOf(E)) \/ (r = Re(h) /\ h \in Clashing(E, H))
<1>1. R \in SUBSET Engram /\ E \subseteq R
  BY PutBackIs
<1>2. \A r \in R \ E : \E h \in H : From(r, h)
  BY PutBackIs
<1>3. \A h \in H : /\ Re(h).id = FreshId(h) /\ Re(h).birth = h.birth /\ FreshId(h)[1] = h.id[1] /\ FreshId(h)[2] = h.birth
                   /\ h.birth \in Nat /\ Re(h).id[1] = h.id[1] /\ Re(h).id[2] = h.birth
  BY IdChanged, FreshIn DEF Engram
<1>4. \A h \in Clashing(E, H) : h.id \in IdsOf(E) /\ h \notin E /\ Re(h) \notin E
  BY DEF Clashing
<1>5. \A s : \A h \in H, r \in E : h.birth = r.birth /\ From(s, h) => FALSE
  <2> TAKE s
  <2> TAKE h \in H, r \in E
  <2>1. h \in E => h.id \in IdsOf(E)
    BY SetsAre
  <2> QED
    BY <1>4, <2>1
<1>6. \A r, s : \A h, g \in H : From(r, h) /\ From(s, g) /\ h = g => r = s
  BY <1>4
<1>7. \A r, s \in R : r.birth = s.birth => r = s
  <2> TAKE r, s \in R
  <2> HAVE r.birth = s.birth
  <2>1. CASE r \in E /\ s \in E
    BY <2>1 DEF Sound, SoundBy
  <2>2. CASE r \in E /\ s \notin E
    BY <1>2, <1>5, <2>2
  <2>3. CASE r \notin E /\ s \in E
    BY <1>2, <1>5, <2>3
  <2>4. CASE r \notin E /\ s \notin E
    <3>1. PICK h \in H : From(r, h)
      BY <1>2, <2>4
    <3>2. PICK g \in H : From(s, g)
      BY <1>2, <2>4
    <3>3. h.birth = g.birth
      BY <3>1, <3>2
    <3>4. \A e, f \in H : e.birth = f.birth => e = f
      BY DEF Sound, SoundBy
    <3>5. h = g
      BY <3>3, <3>4
    <3> QED
      BY <1>6, <3>1, <3>2, <3>5
  <2> QED
    BY <2>1, <2>2, <2>3, <2>4
<1>8. \A r \in R : /\ r.id[2] \in {0, r.birth} /\ r.id[1] <= births /\ r.birth < births
  <2> TAKE r \in R
  <2>1. CASE r \in E
    BY <2>1 DEF Sound, SoundBy
  <2>2. CASE r \notin E
    <3>1. PICK h \in H : From(r, h)
      BY <1>2, <2>2
    <3>2. h.id[2] \in {0, h.birth} /\ h.id[1] <= births /\ h.birth < births
      BY DEF Sound, SoundBy
    <3> QED
      BY <1>3, <3>1, <3>2
  <2> QED
    BY <2>1, <2>2
<1>9. \A h \in Clashing(E, H), s \in R : h.birth # 0 /\ s.id = FreshId(h) => s.birth = h.birth
  <2> TAKE h \in Clashing(E, H), s \in R
  <2>1. h \in H
    BY DEF Clashing
  <2> QED
    BY <1>3, <1>8, <2>1
<1>10. \A r, s \in R : r.id = s.id => r = s
  <2> TAKE r, s \in R
  <2> HAVE r.id = s.id
  <2>1. CASE r \in E /\ s \in E
    BY <2>1 DEF Sound, SoundBy
  <2>2. ASSUME NEW q \in R \ E, NEW p \in R, p.id = q.id PROVE p.birth = q.birth
    <3>1. PICK h \in H : From(q, h)
      BY <1>2, <2>2
    <3>2. CASE q = Re(h) /\ h \in Clashing(E, H)
      BY <1>3, <1>9, <2>2, <3>1, <3>2
    <3>3. CASE q = h /\ h.id \notin IdsOf(E)
      <4>1. p \notin E
        BY <2>2, <3>3, SetsAre
      <4>2. PICK g \in H : From(p, g)
        BY <1>2, <2>2, <4>1
      <4>3. CASE p = Re(g) /\ g \in Clashing(E, H)
        BY <1>3, <1>9, <2>2, <4>2, <4>3
      <4>4. CASE p = g
        BY <2>2, <3>3, <4>4 DEF Sound, SoundBy
      <4> QED
        BY <4>2, <4>3, <4>4
    <3> QED
      BY <3>1, <3>2, <3>3
  <2> QED
    BY <1>7, <2>1, <2>2
<1>11. Sound(R)
  BY <1>7, <1>8, <1>10 DEF Sound, SoundBy
<1>12. \A h \in H, e \in R : h.birth = e.birth => e = h \/ (e = Re(h) /\ h.id \in IdsOf(R))
  <2> TAKE h \in H, e \in R
  <2> HAVE h.birth = e.birth
  <2>1. \A i : i \in IdsOf(E) => i \in IdsOf(R)
    BY <1>1, SetsAre
  <2>2. CASE e \in E
    BY <2>1, <2>2
  <2>3. CASE e \notin E
    <3>1. PICK g \in H : From(e, g)
      BY <1>2, <2>3
    <3>2. g = h
      BY <3>1 DEF Sound, SoundBy
    <3> QED
      BY <1>4, <2>1, <3>1, <3>2
  <2> QED
    BY <2>2, <2>3
<1> QED
  BY <1>11, <1>12

\* The public records are those that were there.
LEMMA PutBackPublic ==
  ASSUME NEW E \in SUBSET Engram, NEW H \in SUBSET Engram, \A h \in H : h.private
  PROVE  PushedEngrams(PutBack(E, H)) = PushedEngrams(E)
<1>1. E \subseteq PutBack(E, H) /\ \A r \in PutBack(E, H) \ E : r.private
  BY PutBackIs
<1> QED
  BY <1>1 DEF PushedEngrams

----------------------------------------------------------------------------
(* The merge *)

\* Of one engram both sides hold: the same one, retired if either side retired it.
LEMMA MergeOneIs ==
  ASSUME NEW b \in Engram, NEW o \in Engram, NEW t \in Engram,
         b.birth = o.birth, t.birth = o.birth, t.id = o.id, t.private = o.private,
         b.retired => o.retired, b.retired => t.retired
  PROVE  /\ MergeOne(b, o, t) \in Engram /\ MergeOne(b, o, t).id = o.id /\ MergeOne(b, o, t).birth = o.birth
         /\ MergeOne(b, o, t).private = o.private
         /\ o.retired \/ t.retired => MergeOne(b, o, t).retired
<1> DEFINE m == MergeChanged(o, t, b)
<1>1. /\ ChangedOne(o.birth, t.birth, b.birth) = o.birth
      /\ ChangedOne(o.text, t.text, b.text) \in Nat /\ ChangedOne(o.retired, t.retired, b.retired) \in BOOLEAN
      /\ o.retired \/ t.retired => ChangedOne(o.retired, t.retired, b.retired)
  BY DEF ChangedOne, Engram
<1>2. m = [o EXCEPT !.birth = ChangedOne(o.birth, t.birth, b.birth), !.text = ChangedOne(o.text, t.text, b.text),
                    !.retired = ChangedOne(o.retired, t.retired, b.retired)]
  BY DEF MergeChanged
<1>3. /\ m \in Engram /\ m.id = o.id /\ m.birth = o.birth /\ m.private = o.private
      /\ m.retired = ChangedOne(o.retired, t.retired, b.retired)
  BY <1>1, <1>2 DEF Engram
<1> QED
  BY <1>1, <1>3 DEF MergeOne

\* What a merge of the commits i and k makes of a branch o that stands on i.
Clashes(o, i, k) == LocalClashes(remote[i].engrams, o, remote[k].engrams)
MergeMap(o, i, k) == MergeRenames(remote[i].engrams, o, remote[k].engrams)
Re(e, o, i, k) == [e EXCEPT !.id = Renamed(MergeMap(o, i, k), e.id)]
Merged(o, i, k) == MergeLists(remote[i].engrams, RenameEngrams(o, MergeMap(o, i, k)), remote[k].engrams)

\* The situation a merge is made in.
Merges(o, i, k) ==
  /\ GitTypes /\ RemoteInv /\ o \in SUBSET Engram /\ i \in 1..Len(remote) /\ k \in 1..Len(remote) /\ i <= k
  /\ Stands(o, i) /\ ~Reused(remote[i], remote[k])

\* The records of a commit.
LEMMA CommitIs ==
  ASSUME GitTypes, NEW i \in 1..Len(remote)
  PROVE  remote[i] \in Tree /\ remote[i].engrams \in SUBSET Engram /\ remote[i].notes \in SUBSET About
<1>1. remote \in Seq(Tree)
  BY DEF GitTypes
<1>2. remote[i] \in Tree
  BY <1>1
<1> QED
  BY <1>2 DEF Tree

\* A record of a branch is renamed if it clashes; then nothing of its birth was pushed.
LEMMA ClashIs ==
  ASSUME NEW o, NEW i, NEW k, Merges(o, i, k), NEW e \in o
  PROVE  /\ e \in Clashes(o, i, k) => e.birth # 0 /\ ~Pushed(e.birth) /\ Renamed(MergeMap(o, i, k), e.id) = FreshId(e)
         /\ e \notin Clashes(o, i, k) => Renamed(MergeMap(o, i, k), e.id) = e.id
         /\ e.id \notin IdsOf(remote[i].engrams) => ~Pushed(e.birth)
         /\ e.id \notin IdsOf(remote[i].engrams) /\ e.id \in IdsOf(remote[k].engrams) => e \in Clashes(o, i, k)
<1> DEFINE map == MergeMap(o, i, k)
<1>1. /\ Stands(o, i) /\ RemoteInv /\ o \in SUBSET Engram /\ i \in 1..Len(remote) /\ k \in 1..Len(remote)
  BY DEF Merges
<1>2. e.id \notin IdsOf(remote[i].engrams) => ~Pushed(e.birth)
  BY <1>1, SetsAre DEF Stands, StandsIn, Sound, Pushed, PushedIn
<1>3. e \in Clashes(o, i, k) => e.id \notin IdsOf(remote[i].engrams)
  BY DEF Clashes, LocalClashes
<1>4. Pushed(0)
  BY <1>1 DEF RemoteInv, RemoteIn, Pushed, Sound
<1>5. map \in SUBSET (Ids \X Ids) /\ e.id \in Ids
  <2>1. \A f \in Clashes(o, i, k) : f \in Engram
    BY <1>1 DEF Clashes, LocalClashes
  <2>2. \A f \in Engram : f.id \in Ids /\ FreshId(f) \in Ids
    BY FreshIn DEF Engram
  <2> QED
    BY <1>1, <2>1, <2>2 DEF MergeMap, MergeRenames, Clashes
<1>6. \A r \in map : \E f \in Clashes(o, i, k) : r = <<f.id, FreshId(f)>>
  BY DEF MergeMap, MergeRenames, Clashes
<1>7. \A f \in Clashes(o, i, k) : f \in o /\ (f.id = e.id => f = e)
  BY <1>1 DEF Clashes, LocalClashes, Stands, StandsIn, Sound, SoundBy
<1>8. CASE e \in Clashes(o, i, k)
  <2>1. <<e.id, FreshId(e)>> \in map
    BY <1>8 DEF MergeMap, MergeRenames, Clashes
  <2>2. <<e.id, Renamed(map, e.id)>> \in map
    BY <1>5, <2>1, RenamedIs
  <2>3. PICK f \in Clashes(o, i, k) : <<e.id, Renamed(map, e.id)>> = <<f.id, FreshId(f)>>
    BY <1>6, <2>2
  <2>4. Renamed(map, e.id) = FreshId(e)
    BY <1>7, <2>3
  <2> QED
    BY <1>2, <1>3, <1>4, <1>8, <2>4
<1>9. CASE e \notin Clashes(o, i, k)
  <2>1. \A r \in map : r[1] # e.id
    BY <1>6, <1>7, <1>9
  <2>2. Renamed(map, e.id) = e.id
    BY <1>5, <2>1, RenamedIs
  <2>3. e.id \notin IdsOf(remote[i].engrams) /\ e.id \in IdsOf(remote[k].engrams) => e \in remote[k].engrams
    BY <1>9 DEF Clashes, LocalClashes
  <2>4. e \in remote[k].engrams => Pushed(e.birth)
    BY <1>1, SetsAre DEF Pushed, PushedIn
  <2> QED
    BY <1>2, <1>9, <2>2, <2>3, <2>4
<1> QED
  BY <1>8, <1>9

\* What it becomes.
LEMMA ReIs ==
  ASSUME NEW o, NEW i, NEW k, Merges(o, i, k), NEW e \in o
  PROVE  /\ Re(e, o, i, k) \in Engram /\ Re(e, o, i, k).birth = e.birth /\ Re(e, o, i, k).private = e.private
         /\ Re(e, o, i, k).retired = e.retired /\ Re(e, o, i, k).id = Renamed(MergeMap(o, i, k), e.id)
         /\ e \notin Clashes(o, i, k) => Re(e, o, i, k) = e
<1>1. e \in Engram /\ e.id \in Ids /\ FreshId(e) \in Ids
  BY FreshIn DEF Merges, Engram
<1>2. Renamed(MergeMap(o, i, k), e.id) \in {e.id, FreshId(e)}
  BY ClashIs
<1>3. [e EXCEPT !.id = e.id] = e
  BY <1>1 DEF Engram
<1> QED
  BY <1>1, <1>2, <1>3, IdChanged, ClashIs DEF Re

\* Where a record of the merge comes from: from the branch alone, from the remote alone, or from all three.
Ours(g, o, i, k) ==
  \E e \in o : /\ g = Re(e, o, i, k) /\ e.id \notin IdsOf(remote[i].engrams)
               /\ g.id \notin IdsOf(remote[i].engrams) /\ g.id \notin IdsOf(remote[k].engrams) /\ ~Pushed(g.birth)
\* Or comes from the other branch alone, or was in both.
AddedThere(g, i, k) == g \in remote[k].engrams /\ g.id \notin IdsOf(remote[i].engrams)
Common(g, o, i, k) ==
  \E e \in o : \E b \in remote[i].engrams, t \in remote[k].engrams :
    /\ e.id = b.id /\ t.id = b.id /\ e.birth = b.birth /\ t.birth = b.birth
    /\ g.id = e.id /\ g.birth = e.birth /\ ~g.private /\ g \in Engram
    /\ e.retired \/ t.retired => g.retired

\* What a branch has of the commit it stands on, and the remote of what it was.
LEMMA CommonIs ==
  ASSUME NEW o, NEW i, NEW k, Merges(o, i, k), NEW e \in o, NEW b \in remote[i].engrams, NEW t \in remote[k].engrams,
         e.id = b.id, t.id = b.id, NEW g, g = MergeOne(b, e, t)
  PROVE  Common(g, o, i, k) /\ g.id = e.id /\ g.birth = e.birth
<1>1. /\ GitTypes /\ RemoteInv /\ i \in 1..Len(remote) /\ k \in 1..Len(remote) /\ i <= k /\ o \in SUBSET Engram
      /\ Stands(o, i) /\ ~Reused(remote[i], remote[k])
  BY DEF Merges
<1>2. e \in Engram /\ b \in Engram /\ t \in Engram
  BY <1>1, CommitIs
<1>3. e.birth = b.birth
  BY <1>1 DEF Stands, StandsIn, Sound
<1>4. t.birth = b.birth
  BY <1>1 DEF Reused
<1>5. b.retired => e.retired
  BY <1>1, <1>3 DEF Stands, StandsIn, Sound
<1>6. b.retired => t.retired
  BY <1>1, <1>4 DEF RemoteInv, RemoteIn, Pushed, Sound
<1>7. ~e.private /\ ~t.private
  BY <1>1 DEF Stands, StandsIn, Sound, RemoteInv, RemoteIn, Pushed, Public
<1>8. e.private = t.private
  BY <1>2, <1>7 DEF Engram
<1>9. /\ g \in Engram /\ g.id = e.id /\ g.birth = e.birth /\ g.private = e.private
      /\ e.retired \/ t.retired => g.retired
  BY <1>2, <1>3, <1>4, <1>5, <1>6, <1>8, MergeOneIs
<1> QED
  BY <1>3, <1>4, <1>7, <1>9 DEF Common

\* The records of the merge, and what there is in it of each record of either side.
LEMMA MergedIs ==
  ASSUME NEW o, NEW i, NEW k, Merges(o, i, k)
  PROVE  /\ \A g \in Merged(o, i, k) :
              \/ Ours(g, o, i, k) \/ AddedThere(g, i, k)
              \/ /\ Common(g, o, i, k)
                 /\ \E e \in o, b \in remote[i].engrams, t \in remote[k].engrams :
                      e.id = g.id /\ b.id = g.id /\ t.id = g.id /\ g = MergeOne(b, e, t)
         /\ \A e \in o : e.id \notin IdsOf(remote[i].engrams) => Re(e, o, i, k) \in Merged(o, i, k)
         /\ \A t \in remote[k].engrams : t.id \notin IdsOf(remote[i].engrams) => t \in Merged(o, i, k)
         /\ \A e \in o, b \in remote[i].engrams, t \in remote[k].engrams : e.id = b.id /\ t.id = b.id =>
              \E g \in Merged(o, i, k) : g.id = e.id /\ g.birth = e.birth
<1> DEFINE b == remote[i].engrams
           t == remote[k].engrams
           map == MergeMap(o, i, k)
           oo == RenameEngrams(o, map)
           both == {id \in Ids : id \in IdsOf(b) /\ id \in IdsOf(oo) /\ id \in IdsOf(t)}
           one(id) == MergeOne(ById(b, id), ById(oo, id), ById(t, id))
<1>1. /\ GitTypes /\ RemoteInv /\ i \in 1..Len(remote) /\ k \in 1..Len(remote) /\ i <= k /\ o \in SUBSET Engram
      /\ Stands(o, i)
  BY DEF Merges
<1>2. b \in SUBSET Engram /\ t \in SUBSET Engram
  BY <1>1, CommitIs
<1>3. \A f : f \in oo <=> \E e \in o : f = Re(e, o, i, k)
  BY DEF RenameEngrams, Re
<1>4. \A g : g \in Merged(o, i, k) <=>
        \/ g \in oo /\ g.id \notin IdsOf(b)
        \/ g \in t /\ g.id \notin IdsOf(b)
        \/ \E id : id \in IdsOf(b) /\ id \in IdsOf(oo) /\ id \in IdsOf(t) /\ g = one(id)
  BY DEF Merged, MergeLists
<1>5. \A e \in o : e.id \in IdsOf(b) => e \notin Clashes(o, i, k)
  BY DEF Clashes, LocalClashes
<1>6. \A e \in o : e.id \notin IdsOf(b) =>
        LET g == Re(e, o, i, k) IN g.id \notin IdsOf(b) /\ g.id \notin IdsOf(t) /\ ~Pushed(g.birth) /\ g.birth = e.birth
  <2> SUFFICES ASSUME NEW e \in o, e.id \notin IdsOf(b)
               PROVE  LET g == Re(e, o, i, k) IN
                      g.id \notin IdsOf(b) /\ g.id \notin IdsOf(t) /\ ~Pushed(g.birth) /\ g.birth = e.birth
    OBVIOUS
  <2> DEFINE g == Re(e, o, i, k)
  <2>1. g.birth = e.birth /\ ~Pushed(e.birth) /\ g.id = Renamed(map, e.id) /\ e \in Engram
    BY <1>1, ReIs, ClashIs
  <2>2. CASE e \notin Clashes(o, i, k)
    BY <2>1, <2>2, ReIs, ClashIs
  <2>3. CASE e \in Clashes(o, i, k)
    <3>1. g.id = FreshId(e) /\ e.birth # 0 /\ g.id[2] = e.birth
      BY <2>1, <2>3, ClashIs, FreshIn
    <3>2. \A f \in b \cup t : f.id[2] \in {0, f.birth} /\ Pushed(f.birth)
      BY <1>1, SetsAre DEF RemoteInv, RemoteIn, Pushed, Sound, SoundBy, PushedIn
    <3>3. \A f \in b \cup t : f.id # g.id
      BY <2>1, <3>1, <3>2
    <3> QED
      BY <2>1, <3>3, SetsAre
  <2> QED
    BY <2>2, <2>3
<1>7. \A e \in o : Re(e, o, i, k).id \in IdsOf(b) => e.id \in IdsOf(b) /\ Re(e, o, i, k) = e
  BY <1>5, <1>6, ReIs
<1>8. \A f \in oo : f.id \in IdsOf(b) => f \in o
  BY <1>3, <1>7
<1>9. \A id : id \in IdsOf(b) /\ id \in IdsOf(oo) /\ id \in IdsOf(t) =>
        \E e \in o, f \in b, r \in t : e.id = id /\ f.id = id /\ r.id = id /\ one(id) = MergeOne(f, e, r)
  <2> SUFFICES ASSUME NEW id, id \in IdsOf(b), id \in IdsOf(oo), id \in IdsOf(t)
               PROVE  \E e \in o, f \in b, r \in t : e.id = id /\ f.id = id /\ r.id = id /\ one(id) = MergeOne(f, e, r)
    OBVIOUS
  <2>1. PICK f \in b, e \in oo, r \in t : e.id = id /\ f.id = id /\ r.id = id
    BY SetsAre
  <2>2. e \in o
    BY <1>8, <2>1
  <2>3. ById(b, id) = f /\ ById(t, id) = r
    BY <1>1, <2>1, ByIdIs DEF RemoteInv, RemoteIn, Pushed, Sound, SoundBy
  <2>4. \A c, d \in oo : c.id = id /\ d.id = id => c = d
    BY <1>1, <1>8, <2>1, SetsAre DEF Stands, StandsIn, Sound, SoundBy
  <2>5. ById(oo, id) = e
    BY <2>1, <2>4 DEF ById
  <2> QED
    BY <2>1, <2>2, <2>3, <2>5
<1>10. ASSUME NEW e \in o, NEW f \in b, NEW r \in t, e.id = f.id, r.id = f.id
       PROVE  \E g \in Merged(o, i, k) : g.id = e.id /\ g.birth = e.birth
  <2>1. f.id \in IdsOf(b) /\ f.id \in IdsOf(t)
    BY <1>10, SetsAre
  <2>2. e \in oo
    BY <1>3, <1>5, <1>10, <2>1, ReIs
  <2>3. f.id \in IdsOf(oo)
    BY <1>10, <2>2, SetsAre
  <2>4. PICK e2 \in o, f2 \in b, r2 \in t : e2.id = f.id /\ f2.id = f.id /\ r2.id = f.id /\ one(f.id) = MergeOne(f2, e2, r2)
    BY <1>9, <2>1, <2>3
  <2>5. e2 = e
    BY <1>1, <1>10, <2>4 DEF Stands, StandsIn, Sound, SoundBy
  <2>6. one(f.id).id = e2.id /\ one(f.id).birth = e2.birth
    BY <2>4, CommonIs
  <2>7. one(f.id) \in Merged(o, i, k)
    BY <1>4, <2>1, <2>3
  <2> QED
    BY <2>5, <2>6, <2>7
<1>11. ASSUME NEW g \in Merged(o, i, k)
       PROVE  \/ Ours(g, o, i, k) \/ AddedThere(g, i, k)
              \/ Common(g, o, i, k) /\ \E e \in o, f \in b, r \in t : e.id = g.id /\ f.id = g.id /\ r.id = g.id /\ g = MergeOne(f, e, r)
  <2>1. CASE g \in oo /\ g.id \notin IdsOf(b)
    <3>1. PICK e \in o : g = Re(e, o, i, k)
      BY <1>3, <2>1
    <3>2. e.id \notin IdsOf(b)
      <4>1. e.id \in IdsOf(b) => g = e
        BY <1>5, <3>1, ReIs
      <4> QED
        BY <2>1, <4>1
    <3> QED
      BY <1>6, <2>1, <3>1, <3>2 DEF Ours
  <2>2. CASE g \in t /\ g.id \notin IdsOf(b)
    BY <2>2 DEF AddedThere
  <2>3. CASE \E id : id \in IdsOf(b) /\ id \in IdsOf(oo) /\ id \in IdsOf(t) /\ g = one(id)
    <3>1. PICK id : id \in IdsOf(b) /\ id \in IdsOf(oo) /\ id \in IdsOf(t) /\ g = one(id)
      BY <2>3
    <3>2. PICK e \in o, f \in b, r \in t : e.id = id /\ f.id = id /\ r.id = id /\ one(id) = MergeOne(f, e, r)
      BY <1>9, <3>1
    <3>3. Common(g, o, i, k) /\ g.id = e.id
      BY <3>1, <3>2, CommonIs
    <3> QED
      BY <3>1, <3>2, <3>3
  <2> QED
    BY <1>4, <2>1, <2>2, <2>3
<1>12. \A e \in o : e.id \notin IdsOf(b) => Re(e, o, i, k) \in Merged(o, i, k)
  BY <1>3, <1>4, <1>6
<1>13. \A r \in t : r.id \notin IdsOf(b) => r \in Merged(o, i, k)
  BY <1>4
<1> QED
  BY <1>10, <1>11, <1>12, <1>13

\* What the kinds have in common: a record and its birth.
LEMMA KindIs ==
  ASSUME NEW o, NEW i, NEW k, Merges(o, i, k), NEW g \in Merged(o, i, k)
  PROVE  /\ g \in Engram /\ ~g.private
         /\ g.id[2] \in {0, g.birth} /\ g.id[1] <= births /\ g.birth < births
         /\ Ours(g, o, i, k) => \E e \in o : g = Re(e, o, i, k) /\ g.birth = e.birth /\ e.retired = g.retired
<1>1. /\ GitTypes /\ RemoteInv /\ i \in 1..Len(remote) /\ k \in 1..Len(remote) /\ o \in SUBSET Engram /\ Stands(o, i)
  BY DEF Merges
<1>2. CASE Ours(g, o, i, k)
  <2>1. PICK e \in o : g = Re(e, o, i, k)
    BY <1>2 DEF Ours
  <2>2. /\ e.id[2] \in {0, e.birth} /\ e.id[1] <= births /\ e.birth < births /\ ~e.private
    BY <1>1 DEF Stands, StandsIn, Sound, SoundBy, Public
  <2>3. /\ g \in Engram /\ g.birth = e.birth /\ g.private = e.private /\ g.retired = e.retired
        /\ g.id \in {e.id, FreshId(e)}
    BY <2>1, ReIs, ClashIs
  <2>4. FreshId(e)[1] = e.id[1] /\ FreshId(e)[2] = e.birth
    BY <1>1, FreshIn
  <2> QED
    BY <2>1, <2>2, <2>3, <2>4
<1>3. ~Ours(g, o, i, k) => AddedThere(g, i, k) \/ Common(g, o, i, k)
  BY MergedIs
<1>4. CASE AddedThere(g, i, k) /\ ~Ours(g, o, i, k)
  <2>1. g \in remote[k].engrams
    BY <1>4 DEF AddedThere
  <2>2. g \in Engram
    BY <1>1, <2>1, CommitIs
  <2> QED
    BY <1>1, <1>4, <2>1, <2>2 DEF RemoteInv, RemoteIn, Pushed, Sound, SoundBy, Public
<1>5. CASE Common(g, o, i, k) /\ ~Ours(g, o, i, k)
  BY <1>1, <1>5 DEF Common, Stands, StandsIn, Sound, SoundBy
<1> QED
  BY <1>2, <1>3, <1>4, <1>5

\* No two records of one id, or of one birth.
LEMMA MergedSound ==
  ASSUME NEW o, NEW i, NEW k, Merges(o, i, k)
  PROVE  Sound(Merged(o, i, k)) /\ Public(Merged(o, i, k)) /\ Merged(o, i, k) \in SUBSET Engram
<1> DEFINE b == remote[i].engrams
           t == remote[k].engrams
           new == Merged(o, i, k)
           Here(g) == Ours(g, o, i, k)
           There(g) == AddedThere(g, i, k) \/ Common(g, o, i, k)
<1>1. /\ GitTypes /\ RemoteInv /\ i \in 1..Len(remote) /\ k \in 1..Len(remote) /\ o \in SUBSET Engram /\ Stands(o, i)
  BY DEF Merges
<1>2. \A g \in new : Here(g) \/ There(g)
  BY MergedIs
<1>3. \A g \in new : There(g) => g.id \in IdsOf(t) /\ Pushed(g.birth)
  <2>1. \A f \in t : f.id \in IdsOf(t) /\ Pushed(f.birth)
    BY <1>1, SetsAre DEF Pushed, PushedIn
  <2> QED
    BY <2>1 DEF AddedThere, Common
<1>4. \A g \in new : Here(g) => g.id \notin IdsOf(t) /\ ~Pushed(g.birth)
  BY DEF Ours
<1>5. ASSUME NEW g \in new, NEW h \in new, Here(g), Here(h), g.id = h.id \/ g.birth = h.birth PROVE g = h
  <2>1. PICK e \in o : g = Re(e, o, i, k)
    BY <1>5 DEF Ours
  <2>2. PICK f \in o : h = Re(f, o, i, k)
    BY <1>5 DEF Ours
  <2>3. e.birth = g.birth /\ f.birth = h.birth
    BY <2>1, <2>2, ReIs
  <2>4. \A c \in o : c.id[2] \in {0, c.birth} /\ FreshId(c)[2] = c.birth
    BY <1>1, FreshIn DEF Stands, StandsIn, Sound, SoundBy
  <2>5. g.id \in {e.id, FreshId(e)} /\ (g.id = e.id \/ e.birth # 0) /\ h.id \in {f.id, FreshId(f)} /\ (h.id = f.id \/ f.birth # 0)
    BY <2>1, <2>2, ReIs, ClashIs
  <2>6. e.id = f.id \/ e.birth = f.birth
    BY <1>5, <2>3, <2>4, <2>5
  <2>7. e = f
    BY <1>1, <2>6 DEF Stands, StandsIn, Sound, SoundBy
  <2> QED
    BY <2>1, <2>2, <2>7
<1>6. \A x, y \in t : x.id = y.id \/ x.birth = y.birth => x = y
  BY <1>1 DEF RemoteInv, RemoteIn, Pushed, Sound, SoundBy
<1>7. \A g \in new : Common(g, o, i, k) => g.id \in IdsOf(b)
  BY SetsAre DEF Common
<1>8. \A g \in new : There(g) => \E f \in t : f.id = g.id /\ f.birth = g.birth
  BY DEF AddedThere, Common
<1>9. ASSUME NEW g \in new, NEW h \in new, There(g), There(h), g.id = h.id \/ g.birth = h.birth PROVE g = h
  <2>1. g.id = h.id
    BY <1>6, <1>8, <1>9
  <2>2. CASE AddedThere(g, i, k) /\ AddedThere(h, i, k)
    BY <1>6, <2>1, <2>2 DEF AddedThere
  <2>3. CASE Common(g, o, i, k) /\ Common(h, o, i, k)
    <3>1. g.id \in IdsOf(b) /\ ~AddedThere(g, i, k) /\ ~AddedThere(h, i, k)
      BY <1>7, <2>1, <2>3 DEF AddedThere
    <3>0. ~Ours(g, o, i, k) /\ ~Ours(h, o, i, k)
      BY <1>3, <1>4, <1>9
    <3>2. \E e \in o, c \in b, r \in t : e.id = g.id /\ c.id = g.id /\ r.id = g.id /\ g = MergeOne(c, e, r)
      BY <3>0, <3>1, MergedIs
    <3>3. \E e \in o, c \in b, r \in t : e.id = g.id /\ c.id = g.id /\ r.id = g.id /\ h = MergeOne(c, e, r)
      BY <2>1, <3>0, <3>1, MergedIs
    <3>4. \A x, y \in o : x.id = y.id => x = y
      BY <1>1 DEF Stands, StandsIn, Sound, SoundBy
    <3>5. \A x, y \in b : x.id = y.id => x = y
      BY <1>1 DEF RemoteInv, RemoteIn, Pushed, Sound, SoundBy
    <3> QED
      BY <1>6, <3>2, <3>3, <3>4, <3>5
  <2>4. ~(AddedThere(g, i, k) /\ Common(h, o, i, k)) /\ ~(Common(g, o, i, k) /\ AddedThere(h, i, k))
    BY <1>7, <2>1 DEF AddedThere
  <2> QED
    BY <1>9, <2>2, <2>3, <2>4
<1>10. \A g, h \in new : g.id = h.id \/ g.birth = h.birth => g = h
  BY <1>2, <1>3, <1>4, <1>5, <1>9
<1> QED
  BY <1>10, KindIs DEF Sound, SoundBy, Public

\* The merge stands on the commit it was made with.
LEMMA MergedStands ==
  ASSUME NEW o, NEW i, NEW k, Merges(o, i, k)
  PROVE  Stands(Merged(o, i, k), k)
<1> DEFINE b == remote[i].engrams
           t == remote[k].engrams
           new == Merged(o, i, k)
           There(g) == AddedThere(g, i, k) \/ Common(g, o, i, k)
<1>1. /\ GitTypes /\ RemoteInv /\ i \in 1..Len(remote) /\ k \in 1..Len(remote) /\ o \in SUBSET Engram /\ Stands(o, i)
      /\ ~Reused(remote[i], remote[k]) /\ i <= k
  BY DEF Merges
<1>2. \A g \in new : Ours(g, o, i, k) \/ There(g)
  BY MergedIs
<1>3. \A x, y \in t : x.id = y.id \/ x.birth = y.birth => x = y
  BY <1>1 DEF RemoteInv, RemoteIn, SoundBy
<1>4. \A g \in new : There(g) => \E f \in t : f.id = g.id /\ f.birth = g.birth /\ (f.retired => g.retired)
  BY DEF AddedThere, Common
<1>5. ASSUME NEW g \in new, NEW j \in 1..Len(remote), NEW f \in remote[j].engrams, g.birth = f.birth
      PROVE  g.id = f.id /\ g.birth \in BirthsOf(t)
  <2>1. Pushed(g.birth)
    BY <1>5, SetsAre DEF Pushed, PushedIn
  <2>2. There(g)
    BY <1>2, <2>1 DEF Ours
  <2>3. PICK r \in t : r.id = g.id /\ r.birth = g.birth
    BY <1>4, <2>2
  <2>4. r.id = f.id
    BY <1>1, <1>5, <2>3 DEF RemoteInv, RemoteIn
  <2> QED
    BY <2>3, <2>4, SetsAre
<1>6. ASSUME NEW g \in new, NEW f \in t
      PROVE  (g.id = f.id => g.birth = f.birth) /\ (g.birth = f.birth /\ f.retired => g.retired)
  <2>1. f.id \in IdsOf(t) /\ Pushed(f.birth)
    BY <1>1, SetsAre DEF Pushed, PushedIn
  <2>2. CASE Ours(g, o, i, k)
    BY <2>1, <2>2 DEF Ours
  <2>3. CASE There(g)
    BY <1>3, <1>4, <2>3
  <2> QED
    BY <1>2, <2>2, <2>3
<1>7. ASSUME NEW f \in t PROVE f.birth \in Removed \/ f.birth \in BirthsOf(new)
  <2>1. CASE f.id \notin IdsOf(b)
    BY <2>1, MergedIs, SetsAre
  <2>2. CASE f.id \in IdsOf(b)
    <3>1. PICK c \in b : c.id = f.id
      BY <2>2, SetsAre
    <3>2. c.birth = f.birth
      BY <1>1, <3>1 DEF Reused
    <3>3. CASE c.birth \in BirthsOf(o)
      <4>1. PICK e \in o : e.birth = c.birth
        BY <3>3, SetsAre
      <4>2. e.id = c.id
        BY <1>1, <4>1 DEF Stands, StandsIn
      <4>3. \E g \in new : g.id = e.id /\ g.birth = e.birth
        BY <3>1, <4>2, MergedIs
      <4> QED
        BY <3>2, <4>1, <4>3, SetsAre
    <3>4. c.birth \in Removed \/ c.birth \in BirthsOf(o)
      BY <1>1 DEF Stands, StandsIn
    <3> QED
      BY <3>2, <3>3, <3>4
  <2> QED
    BY <2>1, <2>2
<1>8. SoundBy(new, births) /\ Public(new)
  BY MergedSound DEF Sound
<1> QED
  BY <1>5, <1>6, <1>7, <1>8 DEF Stands, StandsIn

\* What the merge takes from the branch and from the remote, and what it leaves of either.
LEMMA MergedFrom ==
  ASSUME NEW o, NEW i, NEW k, Merges(o, i, k)
  PROVE  /\ \A g \in Merged(o, i, k) :
              \/ \E e \in o : e.birth = g.birth /\ (e.retired => g.retired)
              \/ g \in remote[k].engrams /\ g.birth \notin BirthsOf(remote[i].engrams)
         /\ \A e \in o : e.birth \in Removed \/ e.birth \in BirthsOf(Merged(o, i, k))
         /\ \A f \in remote[k].engrams : f \in Merged(o, i, k) \/ f.id \in IdsOf(remote[i].engrams)
<1> DEFINE b == remote[i].engrams
           t == remote[k].engrams
           new == Merged(o, i, k)
<1>1. /\ GitTypes /\ RemoteInv /\ i \in 1..Len(remote) /\ k \in 1..Len(remote) /\ o \in SUBSET Engram /\ Stands(o, i)
      /\ ~Reused(remote[i], remote[k]) /\ i <= k
  BY DEF Merges
<1>2. ASSUME NEW g \in new
      PROVE  \/ \E e \in o : e.birth = g.birth /\ (e.retired => g.retired)
             \/ g \in t /\ g.birth \notin BirthsOf(b)
  <2>1. CASE Ours(g, o, i, k)
    BY <2>1, KindIs
  <2>2. CASE AddedThere(g, i, k)
    <3>1. \A c \in b : c.birth = g.birth => c.id = g.id
      BY <1>1, <2>2 DEF RemoteInv, RemoteIn, AddedThere
    <3>2. g.birth \notin BirthsOf(b)
      BY <2>2, <3>1, SetsAre DEF AddedThere
    <3> QED
      BY <2>2, <3>2 DEF AddedThere
  <2>3. CASE Common(g, o, i, k)
    BY <2>3 DEF Common
  <2> QED
    BY <2>1, <2>2, <2>3, MergedIs
<1>3. ASSUME NEW e \in o PROVE e.birth \in Removed \/ e.birth \in BirthsOf(new)
  <2>1. CASE e.id \notin IdsOf(b)
    <3>1. Re(e, o, i, k) \in new /\ Re(e, o, i, k).birth = e.birth
      BY <2>1, MergedIs, ReIs
    <3> QED
      BY <3>1, SetsAre
  <2>2. CASE e.id \in IdsOf(b)
    <3>1. PICK c \in b : c.id = e.id
      BY <2>2, SetsAre
    <3>2. c.birth = e.birth
      BY <1>1, <3>1 DEF Stands, StandsIn
    <3>3. CASE c.birth \in BirthsOf(t)
      <4>1. PICK f \in t : f.birth = c.birth
        BY <3>3, SetsAre
      <4>2. f.id = c.id
        BY <1>1, <4>1 DEF RemoteInv, RemoteIn
      <4>3. \E g \in new : g.id = e.id /\ g.birth = e.birth
        BY <3>1, <4>2, MergedIs
      <4> QED
        BY <4>3, SetsAre
    <3>4. c.birth \in Removed \/ c.birth \in BirthsOf(t)
      BY <1>1 DEF RemoteInv, RemoteIn
    <3> QED
      BY <3>2, <3>3, <3>4
  <2> QED
    BY <2>1, <2>2
<1>4. \A f \in t : f \in new \/ f.id \in IdsOf(b)
  BY MergedIs
<1> QED
  BY <1>2, <1>3, <1>4

----------------------------------------------------------------------------
(* The numbers that ids begin with *)

\* A bounded set of numbers has a largest one.
LEMMA Greatest ==
  ASSUME NEW T \in SUBSET Nat, NEW z \in T, NEW n \in Nat, \A x \in T : x <= n
  PROVE  \E u \in T : \A x \in T : x <= u
<1> DEFINE U == {m \in Nat : \A x \in T : x <= m}
           R == OpToRel(<, Nat)
<1>1. IsWellFoundedOn(R, Nat)
  BY NatLessThanWellFounded
<1>2. \A x, y \in Nat : <<y, x>> \notin R => ~(y < x)
  BY DEF OpToRel
<1>3. U \subseteq Nat /\ n \in U
  OBVIOUS
<1> HIDE DEF R
<1>4. \E u \in U : \A y \in U : ~(<<y, u>> \in R)
  BY <1>1, <1>3, WFMin
<1>5. PICK u \in U : \A y \in U : ~(<<y, u>> \in R)
  BY <1>4
<1>6. \A y \in U : ~(y < u)
  BY <1>2, <1>3, <1>5
<1>7. CASE u \notin T
  <2>1. \A x \in T : x < u
    BY <1>7
  <2>2. u > 0 /\ u - 1 \in Nat
    BY <2>1
  <2>3. u - 1 \in U
    BY <2>1, <2>2
  <2> QED
    BY <1>6, <2>2, <2>3
<1> QED
  BY <1>7

\* The largest of them, when they are bounded.
LEMMA LargestIs ==
  ASSUME NEW E \in SUBSET Engram, NEW n \in Nat, Below(E, n)
  PROVE  Largest(E) \in Nat /\ Largest(E) <= n /\ Below(E, Largest(E))
<1> DEFINE T == {0} \cup {e.id[1] : e \in E}
<1>1. \A e \in E : e.id[1] \in Nat /\ e.id[1] <= n /\ e.id[1] \in T
  BY FreshIn DEF Below
<1>2. T \in SUBSET Nat /\ 0 \in T /\ \A x \in T : x <= n
  BY <1>1
<1>3. \E u \in T : \A x \in T : x <= u
  BY <1>2, Greatest
<1>4. \E u \in T : \A e \in E : e.id[1] <= u
  BY <1>1, <1>3
<1>5. Largest(E) \in T /\ \A e \in E : e.id[1] <= Largest(E)
  BY <1>4 DEF Largest
<1> QED
  BY <1>2, <1>5 DEF Below

\* The records put back are engrams, and have all the births.
LEMMA PutBackIn ==
  ASSUME NEW E \in SUBSET Engram, NEW H \in SUBSET Engram
  PROVE  PutBack(E, H) \in SUBSET Engram /\ BirthsOf(PutBack(E, H)) = BirthsOf(E) \cup BirthsOf(H)
BY PutBackIs

\* A record put back is as it was, but for its id.
LEMMA PutBackFrom ==
  ASSUME NEW E \in SUBSET Engram, NEW H \in SUBSET Engram
  PROVE  \A r \in PutBack(E, H) : r \in E \/ \E h \in H : r.birth = h.birth /\ r.retired = h.retired
<1> TAKE r \in PutBack(E, H)
<1>1. CASE r \notin E
  <2>1. PICK h \in H : r.birth = h.birth /\ r.private = h.private /\ r.retired = h.retired
    BY <1>1, PutBackIs
  <2> QED
    BY <2>1
<1> QED
  BY <1>1

\* The numbers of the records put back are those of the records.
LEMMA PutBackBelow ==
  ASSUME NEW E \in SUBSET Engram, NEW H \in SUBSET Engram, NEW n
  PROVE  /\ Below(E, n) /\ Below(H, n) => Below(PutBack(E, H), n)
         /\ Below(PutBack(E, H), n) => Below(E, n) /\ Below(H, n)
<1>1. E \subseteq PutBack(E, H)
  BY PutBackIs
<1>2. \A r \in PutBack(E, H) \ E : \E h \in H : r.id[1] = h.id[1]
  <2> TAKE r \in PutBack(E, H) \ E
  <2>1. PICK h \in H : r.id[1] = h.id[1]
    BY PutBackIs
  <2> QED
    BY <2>1
<1>3. \A h \in H : \E r \in PutBack(E, H) : r.id = h.id
  <2> TAKE h \in H
  <2>1. CASE h.id \in IdsOf(E)
    BY <1>1, <2>1, SetsAre
  <2>2. CASE h.id \notin IdsOf(E)
    BY <2>2 DEF PutBack
  <2> QED
    BY <2>1, <2>2
<1>4. ASSUME Below(E, n), Below(H, n) PROVE Below(PutBack(E, H), n)
  <2> SUFFICES ASSUME NEW r \in PutBack(E, H) PROVE r.id[1] <= n
    BY DEF Below
  <2>1. CASE r \in E
    BY <1>4, <2>1 DEF Below
  <2>2. CASE r \notin E
    BY <1>2, <1>4, <2>2 DEF Below
  <2> QED
    BY <2>1, <2>2
<1>5. ASSUME Below(PutBack(E, H), n) PROVE Below(E, n) /\ Below(H, n)
  <2>1. Below(E, n)
    BY <1>1, <1>5 DEF Below
  <2>2. Below(H, n)
    <3> SUFFICES ASSUME NEW h \in H PROVE h.id[1] <= n
      BY DEF Below
    <3>1. PICK r \in PutBack(E, H) : r.id = h.id
      BY <1>3
    <3> QED
      BY <1>5, <3>1 DEF Below
  <2> QED
    BY <2>1, <2>2
<1> QED
  BY <1>4, <1>5

----------------------------------------------------------------------------
(* Types *)

\* What a device has.
LEMMA Parts ==
  ASSUME GitTypes, NEW d \in Devices
  PROVE  /\ engrams[d] \in SUBSET Engram /\ notes[d] \in SUBSET About
         /\ hold[d].engrams \in SUBSET Engram /\ hold[d].notes \in SUBSET About /\ hold[d].renames \in SUBSET (Ids \X Ids)
         /\ head[d] \in Tree /\ head[d].engrams \in SUBSET Engram /\ head[d].notes \in SUBSET About
         /\ syncing[d].at \in Stages /\ syncing[d].map \in SUBSET (Ids \X Ids)
         /\ base[d] \in 1..Len(remote) /\ merging[d] \in 0..Len(remote) /\ Len(remote) \in Nat
         /\ top[d] \in Nat /\ births \in Nat /\ top[d] <= births
         /\ known[d] \in SUBSET Nat /\ purged[d] \in SUBSET Nat /\ retired[d] \in SUBSET Nat
<1>1. head[d] \in Tree
  BY DEF GitTypes
<1>2. hold[d] \in [engrams : SUBSET Engram, notes : SUBSET About, renames : SUBSET (Ids \X Ids)]
  BY DEF GitTypes
<1>3. syncing[d] \in [at : Stages, map : SUBSET (Ids \X Ids)]
  BY DEF GitTypes
<1>4. Len(remote) \in Nat
  BY DEF GitTypes
<1>5. base[d] \in 1..Len(remote) /\ merging[d] \in 0..Len(remote)
  BY DEF GitTypes
<1>6. engrams[d] \in SUBSET Engram /\ notes[d] \in SUBSET About
  BY DEF GitTypes
<1>7. top[d] \in Nat /\ births \in Nat /\ top[d] <= births
  BY DEF GitTypes
<1>8. known[d] \in SUBSET Nat /\ purged[d] \in SUBSET Nat /\ retired[d] \in SUBSET Nat
  BY DEF GitTypes
<1> QED
  BY <1>1, <1>2, <1>3, <1>4, <1>5, <1>6, <1>7, <1>8 DEF Tree

\* Renamed notes are notes.
LEMMA NotesRenamed ==
  ASSUME NEW N \in SUBSET About, NEW map \in SUBSET (Ids \X Ids)
  PROVE  RenameNotes(N, map) \in SUBSET About
<1>1. \A m \in About : m.ref \in Ids
  BY DEF About
<1>2. \A m \in N : Renamed(map, m.ref) \in Ids
  BY <1>1, RenamedIs
<1>3. \A m \in N : [m EXCEPT !.ref = Renamed(map, m.ref)] \in About
  BY <1>2 DEF About
<1> QED
  BY <1>3 DEF RenameNotes

\* The pure parts keep to their types, and to the numbers there are.
LEMMA PureTypes ==
  ASSUME NEW E \in SUBSET Engram, NEW N \in SUBSET About, NEW H \in SUBSET Engram, NEW M \in SUBSET About,
         NEW map \in SUBSET (Ids \X Ids), NEW n
  PROVE  /\ PushedEngrams(E) \in SUBSET Engram /\ PushedEngrams(E) \subseteq E
         /\ Strip(E, N) \in Tree /\ Strip(E, N).engrams = PushedEngrams(E) /\ Strip(E, N).notes = PushedNotes(N, E)
         /\ PutBack(E, H) \in SUBSET Engram /\ (Below(E, n) /\ Below(H, n) => Below(PutBack(E, H), n))
         /\ HeldRenames(E, H) \in SUBSET (Ids \X Ids)
         /\ RenameNotes(N, map) \in SUBSET About
<1>1. PushedEngrams(E) \in SUBSET Engram /\ PushedEngrams(E) \subseteq E
  BY DEF PushedEngrams
<1>2. PushedNotes(N, E) \in SUBSET About
  BY DEF PushedNotes
<1>3. Strip(E, N) \in Tree /\ Strip(E, N).engrams = PushedEngrams(E) /\ Strip(E, N).notes = PushedNotes(N, E)
  BY <1>1, <1>2 DEF Strip, Tree
<1>4. HeldRenames(E, H) \in SUBSET (Ids \X Ids)
  <2>1. \A h \in Engram : h.id \in Ids /\ FreshId(h) \in Ids
    BY FreshIn DEF Engram
  <2>2. \A h \in Clashing(E, H) : h \in Engram
    BY DEF Clashing
  <2> QED
    BY <2>1, <2>2 DEF HeldRenames
<1>5. RenameNotes(N, map) \in SUBSET About
  BY NotesRenamed
<1> QED
  BY <1>1, <1>3, <1>4, <1>5, PutBackIs, PutBackBelow

\* A merge of trees is a tree.
LEMMA MergeTypes ==
  ASSUME NEW b \in Tree, NEW o \in Tree, NEW t \in Tree, NEW n,
         Below(o.engrams, n), Below(t.engrams, n)
  PROVE  /\ MergeTrees(b, o, t) \in Tree /\ Below(MergeTrees(b, o, t).engrams, n)
         /\ MergeRenames(b.engrams, o.engrams, t.engrams) \in SUBSET (Ids \X Ids)
         /\ MergeTrees(b, o, t).engrams =
              MergeLists(b.engrams, RenameEngrams(o.engrams, MergeRenames(b.engrams, o.engrams, t.engrams)), t.engrams)
         /\ MergeTrees(b, o, t).notes =
              MergeNotes(b.notes, RenameNotes(o.notes, MergeRenames(b.engrams, o.engrams, t.engrams)), t.notes)
<1> DEFINE C == LocalClashes(b.engrams, o.engrams, t.engrams)
           map == MergeRenames(b.engrams, o.engrams, t.engrams)
           oo == RenameEngrams(o.engrams, map)
           both == IdsOf(b.engrams) \cap IdsOf(oo) \cap IdsOf(t.engrams)
           one(id) == MergeOne(ById(b.engrams, id), ById(oo, id), ById(t.engrams, id))
           new == MergeLists(b.engrams, oo, t.engrams)
<1>1. /\ b.engrams \in SUBSET Engram /\ o.engrams \in SUBSET Engram /\ t.engrams \in SUBSET Engram
      /\ b.notes \in SUBSET About /\ o.notes \in SUBSET About /\ t.notes \in SUBSET About
  BY DEF Tree
<1>2. C \subseteq o.engrams
  BY DEF LocalClashes
<1>3. \A e \in Engram : e.id \in Ids /\ FreshId(e) \in Ids /\ FreshId(e)[1] = e.id[1]
  BY FreshIn DEF Engram
<1>4. map \in SUBSET (Ids \X Ids)
  BY <1>1, <1>2, <1>3 DEF MergeRenames
<1>5. \A r \in map : r[1] \in Ids /\ r[2] \in Ids /\ r[2][1] = r[1][1]
  BY <1>1, <1>2, <1>3 DEF MergeRenames
<1> HIDE DEF map
<1>6. \A e \in o.engrams : LET id == Renamed(map, e.id) IN id \in Ids /\ id[1] = e.id[1]
  <2> TAKE e \in o.engrams
  <2>1. e.id \in Ids
    BY <1>1, <1>3
  <2>2. CASE \A r \in map : r[1] # e.id
    BY <1>4, <2>1, <2>2, RenamedIs
  <2>3. CASE \E r \in map : r[1] = e.id
    <3>1. <<e.id, Renamed(map, e.id)>> \in map
      BY <1>4, <2>1, <2>3, RenamedIs
    <3> QED
      BY <1>5, <3>1
  <2> QED
    BY <2>2, <2>3
<1>7. \A f \in oo : f \in Engram /\ f.id[1] <= n
  <2> TAKE f \in oo
  <2>1. PICK e \in o.engrams : f = [e EXCEPT !.id = Renamed(map, e.id)]
    BY DEF RenameEngrams
  <2>2. Renamed(map, e.id) \in Ids /\ Renamed(map, e.id)[1] = e.id[1]
    BY <1>6
  <2>3. f \in Engram /\ f.id = Renamed(map, e.id)
    BY <1>1, <2>1, <2>2, IdChanged
  <2> QED
    BY <2>2, <2>3 DEF Below
<1> HIDE DEF oo
<1>8. \A S : \A id \in IdsOf(S) : ById(S, id) \in S
  BY DEF IdsOf, ById
<1>9. \A id \in both : one(id) \in Engram /\ one(id).id[1] <= n
  <2> TAKE id \in both
  <2> DEFINE x == ById(b.engrams, id)
             y == ById(oo, id)
             z == ById(t.engrams, id)
  <2>1. x \in Engram /\ y \in Engram /\ y.id[1] <= n /\ z \in Engram
    BY <1>1, <1>7, <1>8
  <2> HIDE DEF x, y, z
  <2>2. /\ ChangedOne(y.birth, z.birth, x.birth) \in Nat /\ ChangedOne(y.text, z.text, x.text) \in Nat
        /\ ChangedOne(y.retired, z.retired, x.retired) \in BOOLEAN
    BY <2>1 DEF Engram, ChangedOne
  <2>3. MergeChanged(y, z, x) \in Engram /\ MergeChanged(y, z, x).id = y.id
    BY <2>1, <2>2 DEF Engram, MergeChanged
  <2>4. MergeOne(x, y, z) \in Engram /\ MergeOne(x, y, z).id[1] <= n
    BY <2>1, <2>3 DEF MergeOne
  <2> QED
    BY <2>4 DEF x, y, z
<1>10. \A g : g \in new <=> (g \in oo \cup t.engrams /\ g.id \notin IdsOf(b.engrams)) \/ \E id \in both : g = one(id)
  BY DEF MergeLists
<1> HIDE DEF both, one
<1>11. \A g \in new : g \in Engram /\ g.id[1] <= n
  BY <1>1, <1>7, <1>9, <1>10 DEF Below
<1>12. MergeNotes(b.notes, RenameNotes(o.notes, map), t.notes) \in SUBSET About
  BY <1>1, <1>4, PureTypes DEF MergeNotes
<1> HIDE DEF new
<1>13. MergeTrees(b, o, t) = [engrams |-> new, notes |-> MergeNotes(b.notes, RenameNotes(o.notes, map), t.notes)]
  BY DEF MergeTrees, map, oo, new
<1>14. MergeTrees(b, o, t) \in Tree /\ Below(MergeTrees(b, o, t).engrams, n)
  BY <1>11, <1>12, <1>13 DEF Tree, Below
<1> QED
  BY <1>4, <1>13, <1>14 DEF map, oo, new

\* What a device notices is typed, and no number in it is over the births.
LEMMA NoticeTypes ==
  ASSUME GitTypes, NEW d \in Devices, Notice(d), engrams'[d] \in SUBSET Engram, hold'[d].engrams \in SUBSET Engram,
         births' \in Nat, births <= births', Below(engrams'[d], births'), Below(hold'[d].engrams, births')
  PROVE  /\ top' \in [Devices -> Nat] /\ \A c \in Devices : top'[c] <= births'
         /\ known' \in [Devices -> SUBSET Nat] /\ retired' \in [Devices -> SUBSET Nat]
         /\ top[d] <= top'[d] /\ Below(engrams'[d], top'[d]) /\ Below(hold'[d].engrams, top'[d])
         /\ \A c \in Devices : c # d => top'[c] = top[c] /\ known'[c] = known[c] /\ retired'[c] = retired[c]
         /\ LET E == IF merging'[d] = 0 \/ d \in touched' THEN PutBack(engrams'[d], hold'[d].engrams) ELSE {} IN
            known'[d] = known[d] \cup BirthsOf(E) /\ retired'[d] = retired[d] \cup BirthsOf({e \in E : e.retired})
<1> DEFINE P == PutBack(engrams'[d], hold'[d].engrams)
           E == IF merging'[d] = 0 \/ d \in touched' THEN P ELSE {}
           n == Largest(P)
<1>1. P \in SUBSET Engram /\ Below(P, births')
  <2>1. P \in SUBSET Engram
    BY PutBackIn
  <2>2. Below(P, births')
    BY PutBackBelow
  <2> QED
    BY <2>1, <2>2
<1>2. n \in Nat /\ n <= births' /\ Below(P, n)
  BY <1>1, LargestIs
<1>3. Below(engrams'[d], n) /\ Below(hold'[d].engrams, n)
  BY <1>2, PutBackBelow
<1>4. /\ known' = Put(known, d, known[d] \cup BirthsOf(E))
      /\ retired' = Put(retired, d, retired[d] \cup BirthsOf({e \in E : e.retired}))
      /\ top' = Put(top, d, IF n > top[d] THEN n ELSE top[d])
  BY DEF Notice, Readable
<1> HIDE DEF P
<1>5. BirthsOf(E) \in SUBSET Nat /\ BirthsOf({e \in E : e.retired}) \in SUBSET Nat
  BY <1>1 DEF BirthsOf, Engram
<1> HIDE DEF E, n
<1>6. /\ top \in [Devices -> Nat] /\ births \in Nat /\ \A c \in Devices : top[c] <= births
      /\ known \in [Devices -> SUBSET Nat] /\ retired \in [Devices -> SUBSET Nat]
  BY DEF GitTypes
<1>7. /\ top'[d] = (IF n > top[d] THEN n ELSE top[d]) /\ top[d] <= top'[d] /\ n <= top'[d] /\ top'[d] \in Nat
  BY <1>2, <1>4, <1>6 DEF Put
<1>8. \A e \in Engram : e.id[1] \in Nat
  BY FreshIn
<1>9. Below(engrams'[d], top'[d]) /\ Below(hold'[d].engrams, top'[d])
  BY <1>2, <1>3, <1>7, <1>8 DEF Below
<1>10. top' \in [Devices -> Nat] /\ \A c \in Devices : top'[c] <= births'
  BY <1>2, <1>4, <1>6, <1>7 DEF Put
<1>11. \A c \in Devices : c # d => top'[c] = top[c] /\ known'[c] = known[c] /\ retired'[c] = retired[c]
  BY <1>4, <1>6 DEF Put
<1>12. known' \in [Devices -> SUBSET Nat] /\ known'[d] = known[d] \cup BirthsOf(E)
  BY <1>4, <1>5, <1>6 DEF Put
<1>13. retired' \in [Devices -> SUBSET Nat] /\ retired'[d] = retired[d] \cup BirthsOf({e \in E : e.retired})
  BY <1>4, <1>5, <1>6 DEF Put
<1> QED
  BY <1>7, <1>9, <1>10, <1>11, <1>12, <1>13 DEF E, P

\* Types of what is held and of where a sync stands.
Holds == [engrams : SUBSET Engram, notes : SUBSET About, renames : SUBSET (Ids \X Ids)]
Syncs == [at : Stages, map : SUBSET (Ids \X Ids)]

\* A step of one device: what it leaves to the others, and what its own variables are then.
Only(d) ==
  /\ engrams' = Put(engrams, d, engrams'[d]) /\ notes' = Put(notes, d, notes'[d])
  /\ head' = Put(head, d, head'[d]) /\ base' = Put(base, d, base'[d]) /\ merging' = Put(merging, d, merging'[d])
  /\ hold' = Put(hold, d, hold'[d]) /\ syncing' = Put(syncing, d, syncing'[d]) /\ purged' = Put(purged, d, purged'[d])
  /\ torn' \in {torn, torn \cup {d}, torn \ {d}} /\ touched' \in {touched, touched \cup {d}, touched \ {d}}
  /\ births <= births'
  /\ UNCHANGED unnoticed \/ Notice(d)
\* What a device has after a step is of its type.
Fits(d) ==
  /\ engrams'[d] \in SUBSET Engram /\ notes'[d] \in SUBSET About /\ hold'[d] \in Holds
  /\ syncing'[d] \in Syncs /\ head'[d] \in Tree /\ purged'[d] \in SUBSET Nat
  /\ base'[d] \in 1..Len(remote) /\ merging'[d] \in 0..Len(remote)
  /\ births' \in Nat /\ crashes' \in Nat /\ reused' \in BOOLEAN
  /\ Below(engrams'[d], births') /\ Below(hold'[d].engrams, births') /\ Below(head'[d].engrams, births')
  /\ remote' = remote /\ (syncing'[d].at \in Merging => merging'[d] # 0)

\* Where one device steps, the others keep what they have.
LEMMA OthersKeep ==
  ASSUME GitTypes, NEW d \in Devices, Only(d), NEW c \in Devices, c # d
  PROVE  /\ engrams'[c] = engrams[c] /\ notes'[c] = notes[c] /\ head'[c] = head[c] /\ base'[c] = base[c]
         /\ merging'[c] = merging[c] /\ hold'[c] = hold[c] /\ syncing'[c] = syncing[c] /\ purged'[c] = purged[c]
         /\ (c \in torn' <=> c \in torn) /\ (c \in touched' <=> c \in touched)
         /\ known'[c] = known[c] /\ retired'[c] = retired[c] /\ top'[c] = top[c]
<1>1. /\ engrams'[c] = engrams[c] /\ notes'[c] = notes[c] /\ head'[c] = head[c] /\ base'[c] = base[c]
      /\ merging'[c] = merging[c] /\ hold'[c] = hold[c] /\ syncing'[c] = syncing[c] /\ purged'[c] = purged[c]
  BY DEF Only, Put, GitTypes
<1>2. (c \in torn' <=> c \in torn) /\ (c \in touched' <=> c \in touched)
  BY DEF Only
<1>3. ASSUME UNCHANGED unnoticed PROVE known'[c] = known[c] /\ retired'[c] = retired[c] /\ top'[c] = top[c]
  BY <1>3 DEF unnoticed
<1>4. ASSUME Notice(d) PROVE known'[c] = known[c] /\ retired'[c] = retired[c] /\ top'[c] = top[c]
  <2>1. \E K, T, t : known' = Put(known, d, K) /\ retired' = Put(retired, d, T) /\ top' = Put(top, d, t)
    BY <1>4, Zenon DEF Notice
  <2>2. known \in [Devices -> SUBSET Nat] /\ retired \in [Devices -> SUBSET Nat] /\ top \in [Devices -> Nat]
    BY DEF GitTypes
  <2> QED
    BY <2>1, <2>2 DEF Put
<1>5. known'[c] = known[c] /\ retired'[c] = retired[c] /\ top'[c] = top[c]
  BY <1>3, <1>4 DEF Only
<1> QED
  BY <1>1, <1>2, <1>5

\* And the types are kept.
LEMMA TypesFit ==
  ASSUME GitTypes, NEW d \in Devices, Only(d), Fits(d)
  PROVE  GitTypes'
<1>1. /\ engrams \in [Devices -> SUBSET Engram] /\ notes \in [Devices -> SUBSET About]
      /\ head \in [Devices -> Tree] /\ hold \in [Devices -> Holds] /\ syncing \in [Devices -> Syncs]
      /\ base \in [Devices -> Nat] /\ merging \in [Devices -> Nat] /\ purged \in [Devices -> SUBSET Nat]
  BY DEF GitTypes, Holds, Syncs
<1>2. /\ engrams' \in [Devices -> SUBSET Engram] /\ notes' \in [Devices -> SUBSET About]
      /\ head' \in [Devices -> Tree]
  BY <1>1 DEF Only, Fits, Put
<1>3. hold' \in [Devices -> Holds] /\ syncing' \in [Devices -> Syncs] /\ purged' \in [Devices -> SUBSET Nat]
  BY <1>1 DEF Only, Fits, Put
<1>4. base'[d] \in Nat /\ merging'[d] \in Nat /\ Len(remote) \in Nat
  BY DEF Fits, GitTypes
<1>5. base' \in [Devices -> Nat] /\ merging' \in [Devices -> Nat]
  BY <1>1, <1>4 DEF Only, Put
<1>6. remote' \in Seq(Tree) /\ remote' = remote /\ Len(remote') = Len(remote)
  BY DEF Fits, GitTypes
<1>7. \A c \in Devices : base'[c] \in 1..Len(remote') /\ merging'[c] \in 0..Len(remote')
  <2> TAKE c \in Devices
  <2>1. CASE c = d
    BY <1>6, <2>1 DEF Fits
  <2>2. CASE c # d
    BY <1>6, <2>2, OthersKeep DEF GitTypes
  <2> QED
    BY <2>1, <2>2
<1>8. torn' \subseteq Devices /\ touched' \subseteq Devices
  BY DEF GitTypes, Only
<1>9. births' \in Nat /\ births \in Nat /\ crashes' \in Nat /\ reused' \in BOOLEAN
  BY DEF Fits, GitTypes
<1>10. /\ top' \in [Devices -> Nat] /\ known' \in [Devices -> SUBSET Nat] /\ retired' \in [Devices -> SUBSET Nat]
       /\ \A c \in Devices : top'[c] <= births'
  <2>1. CASE UNCHANGED unnoticed
    BY <1>9, <2>1 DEF unnoticed, GitTypes, Only
  <2>2. CASE Notice(d)
    <3>1. hold'[d].engrams \in SUBSET Engram
      BY DEF Fits, Holds
    <3>2. /\ engrams'[d] \in SUBSET Engram /\ births <= births'
          /\ Below(engrams'[d], births') /\ Below(hold'[d].engrams, births')
      BY DEF Fits, Only
    <3> QED
      BY <1>9, <2>2, <3>1, <3>2, NoticeTypes
  <2> QED
    BY <2>1, <2>2 DEF Only
<1>11. \A S : S \in SUBSET Engram /\ Below(S, births) => Below(S, births')
  <2>1. \A e \in Engram : e.id[1] \in Nat
    BY FreshIn
  <2> QED
    BY <1>9, <2>1 DEF Below, Only
<1>12. \A c \in Devices : Below(engrams'[c], births') /\ Below(hold'[c].engrams, births') /\ Below(head'[c].engrams, births')
  <2> TAKE c \in Devices
  <2>1. CASE c = d
    BY <2>1 DEF Fits
  <2>2. CASE c # d
    <3>1. engrams'[c] = engrams[c] /\ hold'[c] = hold[c] /\ head'[c] = head[c]
      BY <2>2, OthersKeep
    <3>2. Below(engrams[c], births) /\ Below(hold[c].engrams, births) /\ Below(head[c].engrams, births)
      BY DEF GitTypes
    <3> QED
      BY <1>11, <3>1, <3>2, Parts
  <2> QED
    BY <2>1, <2>2
<1>13. \A i \in 1..Len(remote') : Below(remote'[i].engrams, births')
  <2> TAKE i \in 1..Len(remote')
  <2>1. Below(remote[i].engrams, births) /\ remote[i].engrams \in SUBSET Engram
    BY <1>6, CommitIs DEF GitTypes
  <2> QED
    BY <1>6, <1>11, <2>1
<1>14. \A c \in Devices : syncing'[c].at \in Merging => merging'[c] # 0
  <2> TAKE c \in Devices
  <2>1. CASE c = d
    BY <2>1 DEF Fits
  <2>2. CASE c # d
    BY <2>2, OthersKeep DEF GitTypes
  <2> QED
    BY <2>1, <2>2
<1> QED
  BY <1>2, <1>3, <1>5, <1>6, <1>7, <1>8, <1>9, <1>10, <1>12, <1>13, <1>14 DEF GitTypes, Holds, Syncs

\* What the functions of the model are, and what a write to one of them is.
LEMMA PutIs ==
  ASSUME NEW d \in Devices, NEW S, NEW f \in [Devices -> S], NEW v
  PROVE  /\ f = Put(f, d, f[d])
         /\ Put(f, d, v)[d] = v /\ Put(f, d, v) = Put(f, d, Put(f, d, v)[d])
  BY DEF Put

\* A device's entry can be read back after it is put.
LEMMA AreFunctions ==
  ASSUME GitTypes, NEW d \in Devices
  PROVE  /\ engrams = Put(engrams, d, engrams[d]) /\ notes = Put(notes, d, notes[d]) /\ head = Put(head, d, head[d])
         /\ base = Put(base, d, base[d]) /\ merging = Put(merging, d, merging[d]) /\ hold = Put(hold, d, hold[d])
         /\ syncing = Put(syncing, d, syncing[d]) /\ purged = Put(purged, d, purged[d])
         /\ \A v : /\ Put(engrams, d, v)[d] = v /\ Put(notes, d, v)[d] = v /\ Put(head, d, v)[d] = v /\ Put(base, d, v)[d] = v
                   /\ Put(merging, d, v)[d] = v /\ Put(hold, d, v)[d] = v /\ Put(syncing, d, v)[d] = v /\ Put(purged, d, v)[d] = v
<1>1. /\ engrams \in [Devices -> SUBSET Engram] /\ notes \in [Devices -> SUBSET About]
      /\ head \in [Devices -> Tree] /\ hold \in [Devices -> Holds] /\ syncing \in [Devices -> Syncs]
      /\ base \in [Devices -> Nat] /\ merging \in [Devices -> Nat] /\ purged \in [Devices -> SUBSET Nat]
  BY DEF GitTypes, Holds, Syncs
<1>2. engrams = Put(engrams, d, engrams[d]) /\ \A v : Put(engrams, d, v)[d] = v
  BY <1>1 DEF Put
<1>3. notes = Put(notes, d, notes[d]) /\ \A v : Put(notes, d, v)[d] = v
  BY <1>1 DEF Put
<1>4. head = Put(head, d, head[d]) /\ \A v : Put(head, d, v)[d] = v
  BY <1>1 DEF Put
<1>5. base = Put(base, d, base[d]) /\ \A v : Put(base, d, v)[d] = v
  BY <1>1 DEF Put
<1>6. merging = Put(merging, d, merging[d]) /\ \A v : Put(merging, d, v)[d] = v
  BY <1>1 DEF Put
<1>7. hold = Put(hold, d, hold[d]) /\ \A v : Put(hold, d, v)[d] = v
  BY <1>1 DEF Put
<1>8. syncing = Put(syncing, d, syncing[d]) /\ \A v : Put(syncing, d, v)[d] = v
  BY <1>1 DEF Put
<1>9. purged = Put(purged, d, purged[d]) /\ \A v : Put(purged, d, v)[d] = v
  BY <1>1 DEF Put
<1> QED
  BY <1>2, <1>3, <1>4, <1>5, <1>6, <1>7, <1>8, <1>9

\* A hold with other renames, or without its engrams.
LEMMA HoldIs ==
  ASSUME NEW h \in Holds, NEW m \in SUBSET (Ids \X Ids)
  PROVE  /\ [h EXCEPT !.renames = m] \in Holds /\ [h EXCEPT !.renames = m].engrams = h.engrams
         /\ [h EXCEPT !.renames = m].notes = h.notes /\ [h EXCEPT !.renames = m].renames = m
         /\ DropEngrams(h) \in Holds /\ DropEngrams(h).engrams = {} /\ DropEngrams(h).notes = h.notes
         /\ NoHold \in Holds /\ NoHold.engrams = {} /\ NoHold.notes = {}
<1>1. NoHold \in Holds /\ NoHold.engrams = {} /\ NoHold.notes = {}
  BY DEF NoHold, Holds
<1>2. /\ [h EXCEPT !.renames = m] \in Holds /\ [h EXCEPT !.renames = m].engrams = h.engrams
      /\ [h EXCEPT !.renames = m].notes = h.notes /\ [h EXCEPT !.renames = m].renames = m
  BY DEF Holds
<1>3. /\ [h EXCEPT !.engrams = {}] \in Holds /\ [h EXCEPT !.engrams = {}].engrams = {}
      /\ [h EXCEPT !.engrams = {}].notes = h.notes
  BY DEF Holds
<1> QED
  BY <1>1, <1>2, <1>3 DEF DropEngrams

\* A write of the store.
LEMMA SaveFits ==
  ASSUME GitTypes, NEW d \in Devices, NEW E \in SUBSET Engram, SaveStore(d, E), births' \in {births, births + 1},
         NEW P \in SUBSET Nat, purged' = Put(purged, d, P), Below(E, births')
  PROVE  /\ Only(d) /\ Fits(d)
         /\ engrams'[d] = E /\ hold'[d].engrams = {} /\ purged'[d] = P
<1>1. /\ engrams' = Put(engrams, d, E) /\ hold' = Put(hold, d, DropEngrams(hold[d]))
      /\ notes' = notes /\ head' = head /\ base' = base /\ merging' = merging /\ torn' = torn /\ syncing' = syncing
      /\ remote' = remote /\ crashes' = crashes /\ reused' = reused /\ touched' \in {touched, touched \cup {d}}
      /\ Notice(d)
  BY DEF SaveStore
<1>2. hold[d] \in Holds
  BY DEF GitTypes, Holds
<1>3. DropEngrams(hold[d]) \in Holds /\ DropEngrams(hold[d]).engrams = {}
  BY <1>2, HoldIs
<1>4. /\ engrams'[d] = E /\ hold'[d] = DropEngrams(hold[d]) /\ purged'[d] = P
  BY <1>1, AreFunctions
<1>5. births <= births' /\ births' \in Nat /\ crashes' \in Nat /\ reused' \in BOOLEAN
  BY <1>1 DEF GitTypes
<1>6. Only(d)
  BY <1>1, <1>4, <1>5, AreFunctions DEF Only
<1>7. Below(head[d].engrams, births')
  <2>1. Below(head[d].engrams, births) /\ head[d].engrams \in SUBSET Engram /\ births \in Nat
    BY Parts DEF GitTypes
  <2>2. \A e \in Engram : e.id[1] \in Nat
    BY FreshIn
  <2> QED
    BY <1>5, <2>1, <2>2 DEF Below
<1>8. /\ notes[d] \in SUBSET About /\ syncing[d] \in Syncs /\ head[d] \in Tree
      /\ base[d] \in 1..Len(remote) /\ merging[d] \in 0..Len(remote) /\ (syncing[d].at \in Merging => merging[d] # 0)
  BY DEF GitTypes, Syncs
<1>9. Below({}, births')
  BY DEF Below
<1>10. Fits(d)
  BY <1>1, <1>3, <1>4, <1>5, <1>7, <1>8, <1>9 DEF Fits
<1> QED
  BY <1>3, <1>4, <1>6, <1>10

\* What a user's write makes of the store.
NewEngram(d, private) ==
  [id |-> <<top[d] + 1, 0>>, birth |-> births, private |-> private, retired |-> FALSE, text |-> 0]
\* A write of the store E, after which P is what the device has removed.
Saved(d, E, P) == E \in SUBSET Engram /\ P \in SUBSET Nat /\ Below(E, births') /\ SaveStore(d, E) /\ purged' = Put(purged, d, P)

\* An engram is changed: it keeps what it is.
Changes(f, e) == /\ f \in Engram /\ f.id = e.id /\ f.birth = e.birth /\ f.private = e.private /\ (e.retired => f.retired)

\* What a device reads has its types, and goes no further than the store and what is held.
LEMMA ReadableIs ==
  ASSUME GitTypes, NEW d \in Devices
  PROVE  /\ Readable(d) = PutBack(engrams[d], hold[d].engrams) /\ Readable(d) \in SUBSET Engram
         /\ Below(Readable(d), births)
<1>1. engrams[d] \in SUBSET Engram /\ hold[d].engrams \in SUBSET Engram
  BY Parts
<1>2. Below(engrams[d], births) /\ Below(hold[d].engrams, births)
  BY DEF GitTypes
<1>3. Below(PutBack(engrams[d], hold[d].engrams), births)
  BY <1>1, <1>2, PutBackBelow
<1> QED
  BY <1>1, <1>3, PutBackIn DEF Readable

\* Learning saves the store with one new memory more.
LEMMA LearnIs ==
  ASSUME GitTypes, NEW d \in Devices, NEW private \in BOOLEAN, Learn(d, private)
  PROVE  Saved(d, Readable(d) \cup {NewEngram(d, private)}, purged[d]) /\ births' = births + 1 /\ NewEngram(d, private) \in Engram
<1>1. /\ SaveStore(d, Readable(d) \cup {NewEngram(d, private)}) /\ births' = births + 1 /\ purged' = purged
  BY DEF Learn, NewEngram
<1>2. top[d] \in Nat /\ births \in Nat /\ top[d] <= births /\ purged[d] \in SUBSET Nat
  BY Parts
<1>3. NewEngram(d, private) \in Engram /\ NewEngram(d, private).id[1] = top[d] + 1
  BY <1>2 DEF NewEngram, Engram, Ids
<1>4. \A e \in Readable(d) : e.id[1] \in Nat /\ e.id[1] <= births
  BY ReadableIs, FreshIn DEF Below
<1>5. Below(Readable(d) \cup {NewEngram(d, private)}, births')
  BY <1>1, <1>2, <1>3, <1>4 DEF Below
<1> QED
  BY <1>1, <1>2, <1>3, <1>5, ReadableIs, AreFunctions DEF Saved

\* An edit or a retirement saves the store with one memory changed.
LEMMA ChangeIs ==
  ASSUME GitTypes, NEW d \in Devices, NEW e \in Readable(d), Edit(d, e) \/ Retire(d, e)
  PROVE  \E f : Changes(f, e) /\ Saved(d, (Readable(d) \ {e}) \cup {f}, purged[d]) /\ births' = births
<1> DEFINE f1 == [e EXCEPT !.text = e.text + 1]
           f2 == [e EXCEPT !.retired = TRUE]
<1>1. e \in Engram /\ e.id[1] <= births
  BY ReadableIs DEF Below
<1>2. Changes(f1, e) /\ Changes(f2, e)
  <2>1. e.text + 1 \in Nat
    BY <1>1 DEF Engram
  <2>2. /\ f1 \in Engram /\ f1.id = e.id /\ f1.birth = e.birth /\ f1.private = e.private /\ f1.retired = e.retired
    BY <1>1, <2>1 DEF Engram
  <2>3. /\ f2 \in Engram /\ f2.id = e.id /\ f2.birth = e.birth /\ f2.private = e.private /\ f2.retired = TRUE
    BY <1>1 DEF Engram
  <2> QED
    BY <2>2, <2>3 DEF Changes
<1>3. births' = births /\ purged' = purged
  BY DEF Edit, Retire
<1>4. SaveStore(d, (Readable(d) \ {e}) \cup {f1}) \/ SaveStore(d, (Readable(d) \ {e}) \cup {f2})
  BY DEF Edit, Retire
<1> HIDE DEF f1, f2
<1>5. PICK f \in {f1, f2} : SaveStore(d, (Readable(d) \ {e}) \cup {f})
  BY <1>4
<1>6. Changes(f, e)
  BY <1>2
<1>7. Below((Readable(d) \ {e}) \cup {f}, births')
  BY <1>1, <1>3, <1>6, ReadableIs DEF Below, Changes
<1>8. Saved(d, (Readable(d) \ {e}) \cup {f}, purged[d])
  BY <1>3, <1>5, <1>6, <1>7, ReadableIs, AreFunctions, Parts DEF Saved, Changes
<1> QED
  BY <1>3, <1>6, <1>8

\* A purge saves the store with one memory less.
LEMMA PurgeIs ==
  ASSUME GitTypes, NEW d \in Devices, NEW e \in Readable(d), Purge(d, e)
  PROVE  Saved(d, Readable(d) \ {e}, purged[d] \cup {e.birth}) /\ births' = births
<1>1. e \in Engram /\ e.birth \in Nat
  BY ReadableIs DEF Engram
<1>2. SaveStore(d, Readable(d) \ {e}) /\ births' = births /\ purged' = Put(purged, d, purged[d] \cup {e.birth})
  BY DEF Purge
<1>3. Below(Readable(d) \ {e}, births')
  BY <1>2, ReadableIs DEF Below
<1> QED
  BY <1>1, <1>2, <1>3, ReadableIs, Parts DEF Saved

\* The steps of a sync that leave the remote as it is, and the user's other writes.
Quiet(d) ==
  \/ AbortByHand(d) \/ StartSync(d) \/ PullFails(d) \/ StartMerge(d) \/ SaveRenames(d) \/ Crash(d) \/ Hold(d)
  \/ RestoreNotes(d, "recoverNotes", "recovered") \/ RestoreNotes(d, "restoreNotes", "restored")
  \/ DropHold(d, "recovered", "commit") \/ DropHold(d, "restored", "push")
\* The steps that put held engrams back, and all that move engrams; a note can make those of a merge the device's own.
Noting(d) == \E e \in Readable(d) : Note(d, e)
Restoring(d) ==
  RestoreEngrams(d, "recoverEngrams", "recoverNotes") \/ RestoreEngrams(d, "restore", "restoreNotes")
Moving(d) ==
  \/ Noting(d) \/ Recover(d) \/ Restoring(d) \/ Commit(d) \/ Reset(d) \/ Rebase(d)
  \/ MergeRecords(d) \/ Conclude(d) \/ ConcludeFails(d)

\* Where a device has taken a step of its sync, and what it holds to, it fits.
LEMMA SameFits ==
  ASSUME GitTypes, NEW d \in Devices,
         NEW E \in SUBSET Engram, engrams' = Put(engrams, d, E), Below(E, births),
         NEW N \in SUBSET About, notes' = Put(notes, d, N),
         NEW T \in Tree, head' = Put(head, d, T), Below(T.engrams, births),
         NEW H \in Holds, hold' = Put(hold, d, H), Below(H.engrams, births),
         NEW s \in Syncs, syncing' = Put(syncing, d, s),
         NEW i \in 1..Len(remote), base' = Put(base, d, i), NEW j \in 0..Len(remote), merging' = Put(merging, d, j),
         torn' \in {torn, torn \cup {d}, torn \ {d}}, touched' \in {touched, touched \cup {d}, touched \ {d}},
         births' = births, purged' = purged, crashes' \in Nat, reused' \in BOOLEAN, remote' = remote,
         UNCHANGED unnoticed \/ Notice(d), s.at \in Merging => j # 0
  PROVE  /\ Only(d) /\ Fits(d)
         /\ engrams'[d] = E /\ notes'[d] = N /\ head'[d] = T /\ hold'[d] = H /\ syncing'[d] = s /\ base'[d] = i /\ merging'[d] = j
<1>1. /\ engrams'[d] = E /\ notes'[d] = N /\ head'[d] = T /\ hold'[d] = H /\ syncing'[d] = s /\ base'[d] = i /\ merging'[d] = j
  BY AreFunctions
<1>2. births \in Nat /\ purged[d] \in SUBSET Nat
  BY Parts
<1>3. Only(d)
  BY <1>1, <1>2, AreFunctions DEF Only
<1>4. Fits(d)
  BY <1>1, <1>2 DEF Fits
<1> QED
  BY <1>1, <1>3, <1>4

\* The numbers there are: no id goes over them.
LEMMA PartsBelow ==
  ASSUME GitTypes, NEW d \in Devices
  PROVE  /\ Below(engrams[d], births) /\ Below(hold[d].engrams, births) /\ Below(head[d].engrams, births)
         /\ hold[d] \in Holds /\ syncing[d] \in Syncs /\ Below({}, births)
  BY DEF GitTypes, Holds, Syncs, Below

\* The next place of a sync is a place of a sync.
LEMMA GoesIs ==
  ASSUME GitTypes, NEW d \in Devices, NEW s \in Stages, NEW m \in SUBSET (Ids \X Ids)
  PROVE  [at |-> s, map |-> m] \in Syncs /\ [at |-> s, map |-> syncing[d].map] \in Syncs
  BY Parts DEF Syncs

\* The steps that move no engram keep to their device and to the types.
LEMMA QuietFits ==
  ASSUME GitTypes, NEW d \in Devices, Quiet(d)
  PROVE  Only(d) /\ Fits(d) /\ engrams' = engrams /\ head' = head /\ base' = base /\ purged' = purged /\ remote' = remote /\ births' = births
         /\ UNCHANGED unnoticed /\ reused' = reused
<1>1. /\ engrams = Put(engrams, d, engrams[d]) /\ notes = Put(notes, d, notes[d]) /\ head = Put(head, d, head[d])
      /\ base = Put(base, d, base[d]) /\ merging = Put(merging, d, merging[d]) /\ hold = Put(hold, d, hold[d])
      /\ syncing = Put(syncing, d, syncing[d])
  BY AreFunctions
<1>2. /\ Below(engrams[d], births) /\ Below(hold[d].engrams, births) /\ Below(head[d].engrams, births)
      /\ hold[d] \in Holds /\ syncing[d] \in Syncs /\ Below({}, births)
  BY PartsBelow
<1>3. /\ engrams[d] \in SUBSET Engram /\ notes[d] \in SUBSET About /\ head[d] \in Tree /\ base[d] \in 1..Len(remote)
      /\ merging[d] \in 0..Len(remote) /\ Len(remote) \in Nat /\ syncing[d].map \in SUBSET (Ids \X Ids)
      /\ hold[d].notes \in SUBSET About /\ crashes \in Nat /\ reused \in BOOLEAN
      /\ (syncing[d].at \in Merging => merging[d] # 0)
  BY Parts DEF GitTypes
<1>4. \A s \in Stages : [at |-> s, map |-> syncing[d].map] \in Syncs /\ [at |-> s, map |-> {}] \in Syncs
  BY <1>3, GoesIs
<1>6. ASSUME AbortByHand(d) PROVE Only(d) /\ Fits(d)
  <2>1. /\ engrams' = engrams /\ notes' = notes /\ head' = head /\ base' = base /\ merging' = Put(merging, d, 0)
        /\ torn' = torn \ {d} /\ touched' = touched /\ hold' = hold /\ syncing' = syncing /\ remote' = remote
        /\ crashes' = crashes /\ births' = births /\ purged' = purged /\ reused' = reused /\ UNCHANGED unnoticed
    BY <1>6 DEF AbortByHand, tree, users
  <2>2. 0 \in 0..Len(remote) /\ syncing[d].at \notin Merging
    BY <1>3, <1>6 DEF AbortByHand, Merging
  <2> QED
    BY <1>1, <1>2, <1>3, <2>1, <2>2, SameFits
<1>7. ASSUME NEW s \in Stages \ Merging, GoOn(d, s), UNCHANGED <<tree, branch, hold, still, unnoticed>> PROVE Only(d) /\ Fits(d)
  <2> DEFINE q == [at |-> s, map |-> syncing[d].map]
  <2>1. /\ engrams' = engrams /\ notes' = notes /\ head' = head /\ base' = base /\ merging' = merging
        /\ torn' = torn /\ touched' = touched /\ hold' = hold /\ syncing' = Put(syncing, d, q)
        /\ remote' = remote /\ crashes' = crashes /\ births' = births /\ purged' = purged /\ reused' = reused
        /\ UNCHANGED unnoticed
    BY <1>7 DEF GoOn, SyncAt, tree, branch, still, users
  <2>2. q \in Syncs /\ q.at \notin Merging
    BY <1>4
  <2> HIDE DEF q
  <2> QED
    BY <1>1, <1>2, <1>3, <2>1, <2>2, SameFits
<1>8. ASSUME StartSync(d) \/ PullFails(d) PROVE Only(d) /\ Fits(d)
  BY <1>7, <1>8 DEF StartSync, PullFails, Stages, Merging
<1>9. ASSUME StartMerge(d) PROVE Only(d) /\ Fits(d)
  <2> DEFINE q == [at |-> "merge", map |-> syncing[d].map]
  <2>1. /\ engrams' = engrams /\ notes' = notes /\ head' = head /\ base' = base /\ merging' = Put(merging, d, Len(remote))
        /\ torn' = torn \cup {d} /\ touched' = touched /\ hold' = hold
        /\ syncing' = Put(syncing, d, q)
        /\ remote' = remote /\ crashes' = crashes /\ births' = births /\ purged' = purged /\ reused' = reused
        /\ UNCHANGED unnoticed
    BY <1>9 DEF StartMerge, GoOn, SyncAt, tree, still, users
  <2>2. Len(remote) \in 0..Len(remote) /\ "merge" \in Stages /\ Len(remote) # 0
    BY <1>3 DEF Stages
  <2>3. q \in Syncs
    BY <1>4, <2>2
  <2> HIDE DEF q
  <2> QED
    BY <1>1, <1>2, <1>3, <2>1, <2>2, <2>3, SameFits
<1>10. ASSUME NEW H \in Holds, Below(H.engrams, births), hold' = Put(hold, d, H), NEW s \in Syncs, syncing' = Put(syncing, d, s),
              s.at \in Merging => merging[d] # 0,
              UNCHANGED <<tree, branch, still, unnoticed>>
       PROVE  Only(d) /\ Fits(d)
  <2>1. /\ engrams' = engrams /\ notes' = notes /\ head' = head /\ base' = base /\ merging' = merging
        /\ torn' = torn /\ touched' = touched
        /\ remote' = remote /\ crashes' = crashes /\ births' = births /\ purged' = purged /\ reused' = reused
        /\ UNCHANGED unnoticed
    BY <1>10 DEF tree, branch, still, users
  <2> QED
    BY <1>1, <1>2, <1>3, <1>10, <2>1, SameFits
<1>11. ASSUME SaveRenames(d) PROVE Only(d) /\ Fits(d)
  <2> DEFINE H == IF hold[d] = NoHold THEN hold[d] ELSE [hold[d] EXCEPT !.renames = syncing[d].map]
  <2>1. hold' = Put(hold, d, H) /\ syncing' = Put(syncing, d, [at |-> "conclude", map |-> syncing[d].map])
    <3>1. hold' = IF hold[d] = NoHold THEN hold ELSE Put(hold, d, [hold[d] EXCEPT !.renames = syncing[d].map])
      BY <1>11 DEF SaveRenames
    <3>2. hold' = Put(hold, d, H)
      BY <1>1, <3>1
    <3>3. syncing' = Put(syncing, d, [at |-> "conclude", map |-> syncing[d].map])
      BY <1>11 DEF SaveRenames, GoOn, SyncAt
    <3> QED
      BY <3>2, <3>3
  <2>2. H \in Holds /\ Below(H.engrams, births)
    BY <1>2, <1>3, HoldIs
  <2>3. "conclude" \in Stages /\ merging[d] # 0
    BY <1>3, <1>11 DEF Stages, Merging, SaveRenames
  <2> HIDE DEF H
  <2> QED
    BY <1>4, <1>10, <1>11, <2>1, <2>2, <2>3 DEF SaveRenames
<1>12. ASSUME Hold(d) PROVE Only(d) /\ Fits(d)
  <2>1. HeldOf(d) \in Holds /\ HeldOf(d).engrams \subseteq engrams[d]
    BY <1>3 DEF HeldOf, Holds, PushedNotes
  <2>2. Below(HeldOf(d).engrams, births)
    BY <1>2, <2>1 DEF Below
  <2>3. \E s \in {"pull", "reset"} : syncing' = Put(syncing, d, [at |-> s, map |-> syncing[d].map])
    BY <1>12 DEF Hold, GoOn, SyncAt
  <2>4. "pull" \in Stages \ Merging /\ "reset" \in Stages \ Merging
    BY DEF Stages, Merging
  <2>5. hold' = Put(hold, d, HeldOf(d)) /\ UNCHANGED <<tree, branch, still, unnoticed>>
    BY <1>12 DEF Hold, Held
  <2> QED
    BY <1>4, <1>10, <2>1, <2>2, <2>3, <2>4, <2>5
<1>13. ASSUME DropHold(d, "recovered", "commit") \/ DropHold(d, "restored", "push") PROVE Only(d) /\ Fits(d)
  <2>1. NoHold \in Holds /\ Below(NoHold.engrams, births)
    BY <1>2, HoldIs
  <2>2. \E s \in {"commit", "push"} : syncing' = Put(syncing, d, [at |-> s, map |-> {}])
    BY <1>13 DEF DropHold, SyncAt
  <2>3. "commit" \in Stages \ Merging /\ "push" \in Stages \ Merging
    BY DEF Stages, Merging
  <2>4. hold' = Put(hold, d, NoHold) /\ UNCHANGED <<tree, branch, still, unnoticed>>
    BY <1>13 DEF DropHold
  <2> QED
    BY <1>4, <1>10, <2>1, <2>2, <2>3, <2>4
<1>14. ASSUME RestoreNotes(d, "recoverNotes", "recovered") \/ RestoreNotes(d, "restoreNotes", "restored") PROVE Only(d) /\ Fits(d)
  <2> DEFINE N == notes[d] \cup RenameNotes(hold[d].notes, syncing[d].map)
  <2>1. N \in SUBSET About
    <3>1. RenameNotes(hold[d].notes, syncing[d].map) \in SUBSET About
      BY <1>3, NotesRenamed
    <3> QED
      BY <1>3, <3>1
  <2>2. \E s \in {"recovered", "restored"} : syncing' = Put(syncing, d, [at |-> s, map |-> syncing[d].map])
    BY <1>14 DEF RestoreNotes, RestoreNotesBy, GoOn, SyncAt
  <2>3. "recovered" \in Stages \ Merging /\ "restored" \in Stages \ Merging
    BY DEF Stages, Merging
  <2>4. /\ notes' = Put(notes, d, N)
        /\ engrams' = engrams /\ head' = head /\ base' = base /\ merging' = merging /\ torn' = torn /\ touched' = touched
        /\ hold' = hold /\ remote' = remote /\ crashes' = crashes /\ births' = births /\ purged' = purged
        /\ reused' = reused /\ UNCHANGED unnoticed
    BY <1>14 DEF RestoreNotes, RestoreNotesBy, branch, still, users
  <2> HIDE DEF N
  <2>5. PICK q \in Syncs : syncing' = Put(syncing, d, q) /\ q.at \notin Merging
    BY <1>4, <2>2, <2>3
  <2> QED
    BY <1>1, <1>2, <1>3, <2>1, <2>4, <2>5, SameFits
<1>15. ASSUME Crash(d) PROVE Only(d) /\ Fits(d)
  <2>1. Idle \in Syncs /\ Idle.at \notin Merging
    BY DEF Idle, Syncs, Stages, Merging
  <2>2. /\ engrams' = engrams /\ notes' = notes /\ head' = head /\ base' = base /\ merging' = merging /\ torn' = torn
        /\ touched' = touched /\ hold' = hold /\ remote' = remote /\ births' = births /\ purged' = purged
        /\ reused' = reused /\ UNCHANGED unnoticed /\ syncing' = Put(syncing, d, Idle) /\ crashes' \in Nat
    BY <1>3, <1>15 DEF Crash, branch, tree, users
  <2> QED
    BY <1>1, <1>2, <1>3, <2>1, <2>2, SameFits
<1>16. Only(d) /\ Fits(d)
  BY <1>6, <1>8, <1>9, <1>11, <1>12, <1>13, <1>14, <1>15 DEF Quiet
<1>17. engrams' = engrams /\ head' = head /\ base' = base /\ purged' = purged /\ remote' = remote /\ births' = births
       /\ UNCHANGED unnoticed /\ reused' = reused
  BY DEF Quiet, AbortByHand, StartSync, PullFails, StartMerge, SaveRenames, Crash, Hold, RestoreNotes, RestoreNotesBy,
         DropHold, tree, branch, still, users
<1> QED
  BY <1>16, <1>17

\* So do the steps that move them.
LEMMA MovingFits ==
  ASSUME GitTypes, NEW d \in Devices, Moving(d)
  PROVE  /\ Only(d) /\ Fits(d) /\ Notice(d)
         /\ purged' = purged /\ remote' = remote /\ births' = births /\ hold'[d].engrams = hold[d].engrams /\ hold'[d].notes = hold[d].notes
<1>1. /\ engrams = Put(engrams, d, engrams[d]) /\ notes = Put(notes, d, notes[d]) /\ head = Put(head, d, head[d])
      /\ base = Put(base, d, base[d]) /\ merging = Put(merging, d, merging[d]) /\ hold = Put(hold, d, hold[d])
      /\ syncing = Put(syncing, d, syncing[d])
  BY AreFunctions
<1>2. /\ Below(engrams[d], births) /\ Below(hold[d].engrams, births) /\ Below(head[d].engrams, births)
      /\ hold[d] \in Holds
  BY PartsBelow
<1>3. /\ engrams[d] \in SUBSET Engram /\ notes[d] \in SUBSET About /\ head[d] \in Tree /\ base[d] \in 1..Len(remote)
      /\ merging[d] \in 0..Len(remote) /\ Len(remote) \in Nat /\ syncing[d].map \in SUBSET (Ids \X Ids)
      /\ head[d].engrams \in SUBSET Engram /\ head[d].notes \in SUBSET About
      /\ hold[d].engrams \in SUBSET Engram /\ hold[d].renames \in SUBSET (Ids \X Ids)
  BY Parts
<1>4. crashes \in Nat /\ reused \in BOOLEAN /\ 0 \in 0..Len(remote) /\ Len(remote) \in 1..Len(remote)
  BY <1>3 DEF GitTypes
<1>5. \A s \in Stages : \A m \in SUBSET (Ids \X Ids) : [at |-> s, map |-> m] \in Syncs
  BY GoesIs
<1>6. \A i \in 1..Len(remote) : remote[i] \in Tree /\ Below(remote[i].engrams, births)
  BY CommitIs DEF GitTypes
<1>7. ASSUME Recover(d) PROVE Only(d) /\ Fits(d)
  <2>1. PICK E \in {engrams[d], head[d].engrams}, N \in {notes[d], head[d].notes}, j \in {merging[d], 0} :
          /\ engrams' = Put(engrams, d, E) /\ notes' = Put(notes, d, N) /\ merging' = Put(merging, d, j)
          /\ torn' \in {torn, torn \ {d}}
    BY <1>1, <1>7 DEF Recover, tree
  <2> DEFINE m == IF merging'[d] = 0 THEN hold[d].renames ELSE {}
             q == [at |-> "recoverEngrams", map |-> m]
  <2>2. /\ head' = head /\ base' = base /\ touched' = touched /\ hold' = hold /\ syncing' = Put(syncing, d, q)
        /\ remote' = remote /\ crashes' = crashes /\ births' = births /\ purged' = purged /\ reused' = reused /\ Notice(d)
    BY <1>7 DEF Recover, SyncAt, still, users
  <2>3. m \in SUBSET (Ids \X Ids) /\ "recoverEngrams" \in Stages /\ "recoverEngrams" \notin Merging
    BY <1>3 DEF Stages, Merging
  <2>4. q \in Syncs /\ q.at \notin Merging
    BY <1>5, <2>3
  <2> HIDE DEF m, q
  <2> QED
    BY <1>1, <1>2, <1>3, <1>4, <2>1, <2>2, <2>4, SameFits
<1>8. ASSUME Restoring(d) PROVE Only(d) /\ Fits(d)
  <2> DEFINE E == PutBack(engrams[d], hold[d].engrams)
             m == syncing[d].map \cup HeldRenames(engrams[d], hold[d].engrams)
  <2>1. E \in SUBSET Engram /\ Below(E, births)
    BY ReadableIs DEF Readable
  <2>2. m \in SUBSET (Ids \X Ids)
    <3>1. HeldRenames(engrams[d], hold[d].engrams) \in SUBSET (Ids \X Ids)
      BY <1>3, PureTypes
    <3> QED
      BY <1>3, <3>1
  <2>3. \E s \in {"recoverNotes", "restoreNotes"} : syncing' = Put(syncing, d, [at |-> s, map |-> m])
    BY <1>8 DEF Restoring, RestoreEngrams, SyncAt
  <2>4. /\ engrams' = Put(engrams, d, E) /\ notes' = notes
        /\ head' = head /\ base' = base /\ merging' = merging /\ torn' = torn /\ touched' = touched /\ hold' = hold
        /\ remote' = remote /\ crashes' = crashes /\ births' = births /\ purged' = purged /\ reused' = reused /\ Notice(d)
    BY <1>8 DEF Restoring, RestoreEngrams, Readable, branch, still, users
  <2>5. "recoverNotes" \in Stages \ Merging /\ "restoreNotes" \in Stages \ Merging
    BY DEF Stages, Merging
  <2> HIDE DEF E, m
  <2>6. PICK q \in Syncs : syncing' = Put(syncing, d, q) /\ q.at \notin Merging
    BY <1>5, <2>2, <2>3, <2>5
  <2> QED
    BY <1>1, <1>2, <1>3, <1>4, <2>1, <2>4, <2>6, SameFits
<1>9. ASSUME Commit(d) \/ Conclude(d) PROVE Only(d) /\ Fits(d)
  <2> DEFINE T == Strip(engrams[d], notes[d])
  <2>1. T \in Tree /\ Below(T.engrams, births)
    <3>1. T \in Tree /\ T.engrams = PushedEngrams(engrams[d])
      BY <1>3 DEF Strip, Tree, PushedEngrams, PushedNotes
    <3>2. PushedEngrams(engrams[d]) \subseteq engrams[d]
      BY DEF PushedEngrams
    <3> QED
      BY <1>2, <3>1, <3>2 DEF Below
  <2>2. \E s \in {"hold", "push", "restore"} : syncing' = Put(syncing, d, [at |-> s, map |-> syncing[d].map])
    BY <1>9 DEF Commit, Conclude, GoOn, SyncAt
  <2>3. {"hold", "push", "restore"} \subseteq Stages \ Merging
    BY DEF Stages, Merging
  <2>4. PICK i \in 1..Len(remote) : base' = Put(base, d, i)
    <3>1. CASE merging[d] = 0
      <4>1. Conclude(d) => merging[d] # 0
        BY DEF Conclude, GitTypes, Merging
      <4> QED
        BY <1>1, <1>3, <1>9, <3>1, <4>1 DEF Commit
    <3>2. CASE merging[d] # 0
      <4>1. merging[d] \in 1..Len(remote) /\ base' = Put(base, d, merging[d])
        BY <1>3, <1>9, <3>2 DEF Commit, Conclude
      <4> QED
        BY <4>1
    <3> QED
      BY <3>1, <3>2
  <2>5. /\ engrams' = engrams /\ notes' = notes /\ head' = Put(head, d, T) /\ merging' = Put(merging, d, 0)
        /\ torn' = torn /\ touched' \in {touched, touched \ {d}} /\ hold' = hold
        /\ remote' = remote /\ crashes' = crashes /\ births' = births /\ purged' = purged /\ reused' = reused /\ Notice(d)
    BY <1>9 DEF Commit, Conclude, tree, still, users
  <2> HIDE DEF T
  <2>6. PICK q \in Syncs : syncing' = Put(syncing, d, q) /\ q.at \notin Merging
    BY <1>3, <1>5, <2>2, <2>3
  <2> QED
    BY <1>1, <1>2, <1>3, <1>4, <2>1, <2>4, <2>5, <2>6, SameFits
<1>10. ASSUME Reset(d) \/ ConcludeFails(d) PROVE Only(d) /\ Fits(d)
  <2>1. \E s \in {"pull", "restore"} : \E m \in {syncing[d].map, {}} : syncing' = Put(syncing, d, [at |-> s, map |-> m])
    BY <1>10 DEF Reset, ConcludeFails, GoOn, SyncAt
  <2>2. {"pull", "restore"} \subseteq Stages \ Merging
    BY DEF Stages, Merging
  <2>3. PICK q \in Syncs : syncing' = Put(syncing, d, q) /\ q.at \notin Merging
    BY <1>3, <1>5, <2>1, <2>2
  <2>4. \E h \in Holds : hold' = Put(hold, d, h) /\ Below(h.engrams, births)
    <3> DEFINE h == [hold[d] EXCEPT !.renames = {}]
    <3>1. h \in Holds /\ h.engrams = hold[d].engrams
      BY <1>2, HoldIs
    <3>2. hold' = Put(hold, d, h) \/ hold' = Put(hold, d, hold[d])
      BY <1>1, <1>10 DEF Reset, ConcludeFails
    <3> HIDE DEF h
    <3> QED
      BY <1>2, <3>1, <3>2
  <2>5. PICK h \in Holds : hold' = Put(hold, d, h) /\ Below(h.engrams, births)
    BY <2>4
  <2>6. PICK j \in {merging[d], 0} : merging' = Put(merging, d, j)
    BY <1>1, <1>10 DEF Reset, ConcludeFails, branch
  <2>7. /\ engrams' = Put(engrams, d, head[d].engrams) /\ notes' = Put(notes, d, head[d].notes) /\ head' = head /\ base' = base
        /\ torn' = torn /\ touched' = touched
        /\ remote' = remote /\ crashes' = crashes /\ births' = births /\ purged' = purged /\ reused' = reused /\ Notice(d)
    BY <1>10 DEF Reset, ConcludeFails, branch, still, users
  <2> QED
    BY <1>1, <1>2, <1>3, <1>4, <2>3, <2>5, <2>6, <2>7, SameFits
<1>11. ASSUME Rebase(d) PROVE Only(d) /\ Fits(d)
  <2> DEFINE T == MergeTrees(Base(d), head[d], Theirs)
             q == [at |-> "restore", map |-> syncing[d].map]
  <2>1. Base(d) \in Tree /\ Theirs \in Tree /\ Below(Theirs.engrams, births)
    BY <1>3, <1>4, <1>6 DEF Base, Theirs
  <2>2. T \in Tree /\ Below(T.engrams, births)
    BY <1>2, <1>3, <2>1, MergeTypes
  <2>3. T.engrams \in SUBSET Engram /\ T.notes \in SUBSET About
    BY <2>2 DEF Tree
  <2>4. q \in Syncs /\ q.at \notin Merging
    BY <1>3, <1>5 DEF Stages, Merging
  <2>5. /\ head' = Put(head, d, T) /\ base' = Put(base, d, Len(remote))
        /\ engrams' = Put(engrams, d, T.engrams) /\ notes' = Put(notes, d, T.notes)
        /\ syncing' = Put(syncing, d, q) /\ merging' = merging /\ torn' = torn /\ touched' = touched /\ hold' = hold
        /\ remote' = remote /\ crashes' = crashes /\ births' = births /\ purged' = purged /\ Notice(d)
    BY <1>11 DEF Rebase, GoOn, SyncAt
  <2>6. reused' \in BOOLEAN
    BY <1>11 DEF Rebase
  <2> HIDE DEF T, q
  <2> QED
    BY <1>1, <1>2, <1>3, <1>4, <2>2, <2>3, <2>4, <2>5, <2>6, SameFits
<1>12. ASSUME MergeRecords(d) PROVE Only(d) /\ Fits(d)
  <2> DEFINE b == Base(d)
             t == remote[merging[d]]
             T == MergeTrees(b, head[d], t)
             m == MergeRenames(b.engrams, head[d].engrams, t.engrams)
             q == [at |-> "saveRenames", map |-> m]
  <2>1. merging[d] \in 1..Len(remote)
    BY <1>3, <1>12 DEF MergeRecords, GitTypes, Merging
  <2>2. b \in Tree /\ t \in Tree /\ Below(t.engrams, births)
    BY <1>3, <1>6, <2>1 DEF Base
  <2> HIDE DEF b, t
  <2>3. T \in Tree /\ Below(T.engrams, births) /\ m \in SUBSET (Ids \X Ids)
    BY <1>2, <1>3, <2>2, MergeTypes
  <2>4. T.engrams \in SUBSET Engram /\ T.notes \in SUBSET About
    BY <2>3 DEF Tree
  <2>5. /\ engrams' = Put(engrams, d, T.engrams) /\ notes' = Put(notes, d, T.notes) /\ torn' = torn \ {d}
        /\ syncing' = Put(syncing, d, q) /\ head' = head /\ base' = base /\ merging' = merging /\ touched' = touched /\ hold' = hold
        /\ remote' = remote /\ crashes' = crashes /\ births' = births /\ purged' = purged /\ Notice(d)
    BY <1>12 DEF MergeRecords, SyncAt, b, t
  <2>6. reused' \in BOOLEAN
    BY <1>12 DEF MergeRecords
  <2>7. q \in Syncs /\ merging[d] # 0
    BY <1>5, <2>1, <2>3 DEF Stages
  <2> HIDE DEF T, m, q
  <2> QED
    BY <1>1, <1>2, <1>3, <1>4, <2>3, <2>4, <2>5, <2>6, <2>7, SameFits
<1>16. ASSUME NEW e \in Readable(d), Note(d, e) PROVE Only(d) /\ Fits(d)
  <2>1. [ref |-> e.id, means |-> e.birth] \in About
    BY ReadableIs DEF Engram, About
  <2>2. notes[d] \cup {[ref |-> e.id, means |-> e.birth]} \in SUBSET About
    BY <1>3, <2>1
  <2>3. /\ notes' = Put(notes, d, notes[d] \cup {[ref |-> e.id, means |-> e.birth]})
        /\ engrams' = engrams /\ head' = head /\ base' = base /\ merging' = merging /\ torn' = torn
        /\ touched' \in {touched, touched \cup {d}} /\ hold' = hold /\ syncing' = syncing /\ remote' = remote
        /\ crashes' = crashes /\ births' = births /\ purged' = purged /\ reused' = reused /\ Notice(d)
    BY <1>16 DEF Note
  <2>4. syncing[d] \in Syncs /\ hold[d] \in Holds /\ (syncing[d].at \in Merging => merging[d] # 0)
    BY PartsBelow DEF GitTypes
  <2> QED
    BY <1>1, <1>2, <1>3, <1>4, <2>2, <2>3, <2>4, SameFits
<1>13. Only(d) /\ Fits(d)
  BY <1>7, <1>8, <1>9, <1>10, <1>11, <1>12, <1>16 DEF Moving, Noting
<1>14. Notice(d) /\ purged' = purged /\ remote' = remote /\ births' = births
  BY DEF Moving, Noting, Note, Restoring, Recover, RestoreEngrams, Commit, Reset, Rebase, MergeRecords, Conclude, ConcludeFails, still, users
<1>15. hold'[d].engrams = hold[d].engrams /\ hold'[d].notes = hold[d].notes
  <2>1. CASE hold' = hold
    BY <2>1
  <2>2. CASE hold' = Put(hold, d, [hold[d] EXCEPT !.renames = {}])
    <3>1. hold'[d] = [hold[d] EXCEPT !.renames = {}]
      BY <2>2, AreFunctions
    <3> QED
      BY <1>2, <3>1, HoldIs
  <2> QED
    BY <2>1, <2>2 DEF Moving, Noting, Note, Restoring, Recover, RestoreEngrams, Commit, Reset, Rebase, MergeRecords, Conclude, ConcludeFails
<1> QED
  BY <1>13, <1>14, <1>15

\* A push that lands.
Lands(d) == base[d] = Len(remote) /\ head[d] # Theirs

\* And a push, which alone writes the remote.
LEMMA PushIs ==
  ASSUME GitTypes, NEW d \in Devices, Push(d)
  PROVE  /\ Only(d) /\ GitTypes'
         /\ engrams' = engrams /\ head' = head /\ merging' = merging /\ torn' = torn /\ touched' = touched /\ hold' = hold
         /\ purged' = purged /\ births' = births /\ notes' = notes /\ UNCHANGED unnoticed /\ reused' = reused /\ crashes' = crashes
         /\ syncing'[d] = [at |-> "idle", map |-> syncing[d].map] /\ syncing[d].at = "push"
         /\ Lands(d) => /\ remote' = Append(remote, head[d]) /\ base'[d] = Len(remote) + 1
                        /\ Len(remote') = Len(remote) + 1 /\ remote'[Len(remote) + 1] = head[d]
                        /\ \A i \in 1..Len(remote) : remote'[i] = remote[i]
         /\ ~Lands(d) => remote' = remote /\ base' = base
<1> DEFINE q == [at |-> "idle", map |-> syncing[d].map]
<1>1. /\ engrams = Put(engrams, d, engrams[d]) /\ notes = Put(notes, d, notes[d]) /\ head = Put(head, d, head[d])
      /\ base = Put(base, d, base[d]) /\ merging = Put(merging, d, merging[d]) /\ hold = Put(hold, d, hold[d])
      /\ syncing = Put(syncing, d, syncing[d]) /\ purged = Put(purged, d, purged[d])
  BY AreFunctions
<1>2. /\ engrams' = engrams /\ head' = head /\ merging' = merging /\ torn' = torn /\ touched' = touched /\ hold' = hold
      /\ purged' = purged /\ births' = births /\ notes' = notes /\ UNCHANGED unnoticed /\ reused' = reused /\ crashes' = crashes
      /\ syncing' = Put(syncing, d, q) /\ syncing[d].at = "push"
      /\ remote' = (IF Lands(d) THEN Append(remote, head[d]) ELSE remote)
      /\ base' = (IF Lands(d) THEN Put(base, d, Len(remote) + 1) ELSE base)
  BY DEF Push, Lands, tree, users, GoOn, SyncAt
<1>3. /\ remote \in Seq(Tree) /\ head[d] \in Tree /\ Len(remote) \in Nat /\ Below(head[d].engrams, births) /\ births \in Nat
      /\ base[d] \in 1..Len(remote)
  BY DEF GitTypes
<1>4. Lands(d) => /\ remote' = Append(remote, head[d]) /\ remote' \in Seq(Tree)
                  /\ Len(remote') = Len(remote) + 1 /\ remote'[Len(remote) + 1] = head[d]
                  /\ \A i \in 1..Len(remote) : remote'[i] = remote[i]
  BY <1>2, <1>3
<1>5. syncing'[d] = q
  BY <1>2, AreFunctions
<1>6. Lands(d) => base'[d] = Len(remote) + 1
  BY <1>2, AreFunctions
<1>7. base' = Put(base, d, base'[d])
  BY <1>1, <1>2, AreFunctions
<1>8. syncing' = Put(syncing, d, syncing'[d])
  BY <1>2, <1>5
<1>9. Only(d)
  BY <1>1, <1>2, <1>3, <1>7, <1>8 DEF Only
<1>10. q \in Syncs /\ q.at \notin Merging
  BY Parts DEF Stages, Syncs, Merging
<1> HIDE DEF q
<1>11. syncing' \in [Devices -> Syncs] /\ \A c \in Devices : syncing'[c].at \in Merging => merging[c] # 0
  <2>1. syncing \in [Devices -> Syncs] /\ \A c \in Devices : syncing[c].at \in Merging => merging[c] # 0
    BY DEF GitTypes, Syncs
  <2> QED
    BY <1>2, <1>10, <2>1 DEF Put
<1>12. remote' \in Seq(Tree) /\ Len(remote) <= Len(remote') /\ Len(remote') \in Nat
  BY <1>2, <1>3, <1>4
<1>13. base' \in [Devices -> Nat] /\ \A c \in Devices : base'[c] \in 1..Len(remote')
  <2>1. base \in [Devices -> Nat] /\ \A c \in Devices : base[c] \in 1..Len(remote)
    BY DEF GitTypes
  <2>2. CASE Lands(d)
    BY <1>2, <1>3, <1>4, <2>1, <2>2 DEF Put
  <2>3. CASE ~Lands(d)
    BY <1>2, <2>1, <2>3
  <2> QED
    BY <2>2, <2>3
<1>14. \A c \in Devices : merging[c] \in 0..Len(remote')
  <2>1. \A c \in Devices : merging[c] \in 0..Len(remote)
    BY DEF GitTypes
  <2> QED
    BY <1>3, <1>12, <2>1
<1>15. \A i \in 1..Len(remote') : Below(remote'[i].engrams, births)
  <2>1. \A i \in 1..Len(remote) : Below(remote[i].engrams, births)
    BY DEF GitTypes
  <2>2. CASE Lands(d)
    BY <1>3, <1>4, <2>1, <2>2
  <2>3. CASE ~Lands(d)
    BY <1>2, <2>1, <2>3
  <2> QED
    BY <2>2, <2>3
<1>16. GitTypes'
  BY <1>2, <1>11, <1>12, <1>13, <1>14, <1>15 DEF GitTypes, Syncs, unnoticed
<1> QED
  BY <1>2, <1>4, <1>5, <1>6, <1>9, <1>16 DEF q

\* The user's writes.
Writing(d) ==
  \/ \E private \in BOOLEAN : Learn(d, private)
  \/ \E e \in Readable(d) : Edit(d, e) \/ Retire(d, e) \/ Purge(d, e)

\* Every step is of one of these kinds.
LEMMA Kinds ==
  ASSUME GitNext
  PROVE  \E d \in Devices : Writing(d) \/ Quiet(d) \/ Moving(d) \/ Push(d)
  BY DEF GitNext, Writing, Quiet, Moving, Noting, Restoring

\* The types, and that no id goes beyond the births.
LEMMA GitTypesInit ==
  ASSUME GitInit
  PROVE  GitTypes
<1>1. First \in Engram /\ First.id = <<1, 0>> /\ First.id[1] = 1
  BY DEF First, Engram, Ids
<1>2. Strip({First}, {}) \in Tree /\ Strip({First}, {}).engrams = {First}
  <2>1. PushedEngrams({First}) = {First}
    BY DEF PushedEngrams, First
  <2>2. PushedNotes({}, {First}) = {}
    BY DEF PushedNotes
  <2>3. Strip({First}, {}) = [engrams |-> {First}, notes |-> {}]
    BY <2>1, <2>2 DEF Strip
  <2>4. {First} \in SUBSET Engram
    BY <1>1
  <2>5. \A S \in SUBSET Engram : [engrams |-> S, notes |-> {}] \in Tree /\ [engrams |-> S, notes |-> {}].engrams = S
    BY DEF Tree
  <2> QED
    BY <2>3, <2>4, <2>5
<1>3. /\ remote = <<Strip({First}, {})>> /\ remote \in Seq(Tree) /\ Len(remote) = 1 /\ remote[1] = Strip({First}, {})
  <2>1. remote = <<Strip({First}, {})>>
    BY DEF GitInit
  <2>2. \A t \in Tree : <<t>> \in Seq(Tree) /\ Len(<<t>>) = 1 /\ <<t>>[1] = t
    OBVIOUS
  <2> QED
    BY <1>2, <2>1, <2>2
<1>4. Below({First}, 1) /\ Below({}, 1)
  BY <1>1 DEF Below
<1>5. NoHold \in Holds /\ NoHold.engrams = {} /\ Idle \in Syncs /\ Idle.at \notin Merging
  BY HoldIs DEF Idle, Syncs, Stages, NoHold, Holds, Merging
<1>6. /\ engrams = [d \in Devices |-> {First}] /\ notes = [d \in Devices |-> {}] /\ head = [d \in Devices |-> remote[1]]
      /\ base = [d \in Devices |-> 1] /\ merging = [d \in Devices |-> 0] /\ torn = {} /\ touched = {}
      /\ hold = [d \in Devices |-> NoHold] /\ syncing = [d \in Devices |-> Idle]
      /\ crashes = 0 /\ births = 1 /\ top = [d \in Devices |-> 1] /\ known = [d \in Devices |-> {0}]
      /\ purged = [d \in Devices |-> {}] /\ retired = [d \in Devices |-> {}] /\ reused = FALSE
  BY DEF GitInit
<1>7. /\ engrams \in [Devices -> SUBSET Engram] /\ notes \in [Devices -> SUBSET About] /\ head \in [Devices -> Tree]
      /\ hold \in [Devices -> Holds] /\ syncing \in [Devices -> Syncs]
  BY <1>1, <1>2, <1>3, <1>5, <1>6
<1>8. /\ base \in [Devices -> Nat] /\ merging \in [Devices -> Nat] /\ top \in [Devices -> Nat]
      /\ known \in [Devices -> SUBSET Nat] /\ purged \in [Devices -> SUBSET Nat] /\ retired \in [Devices -> SUBSET Nat]
  BY <1>6
<1>9. \A d \in Devices : base[d] \in 1..Len(remote) /\ merging[d] \in 0..Len(remote)
  BY <1>3, <1>6
<1>10. \A d \in Devices : /\ top[d] <= births
                          /\ Below(engrams[d], births) /\ Below(hold[d].engrams, births) /\ Below(head[d].engrams, births)
                          /\ syncing[d].at \notin Merging
  <2> TAKE d \in Devices
  <2>1. engrams[d] = {First} /\ head[d].engrams = {First} /\ hold[d] = NoHold /\ syncing[d] = Idle /\ top[d] = 1
    BY <1>2, <1>3, <1>6
  <2>2. births = 1
    BY <1>6
  <2> QED
    BY <1>4, <1>5, <2>1, <2>2
<1>11. \A i \in 1..Len(remote) : Below(remote[i].engrams, births)
  <2>1. remote[1].engrams = {First} /\ \A i \in 1..Len(remote) : i = 1
    BY <1>2, <1>3
  <2> QED
    BY <1>4, <1>6, <2>1
<1> QED
  BY <1>3, <1>6, <1>7, <1>8, <1>9, <1>10, <1>11 DEF GitTypes, Holds, Syncs

\* Every step keeps the types.
LEMMA GitTypesStep ==
  ASSUME GitTypes, [GitNext]_gitVars
  PROVE  GitTypes'
<1>1. CASE UNCHANGED gitVars
  BY <1>1 DEF gitVars, GitTypes
<1>2. CASE GitNext
  <2>1. PICK d \in Devices : Writing(d) \/ Quiet(d) \/ Moving(d) \/ Push(d)
    BY <1>2, Kinds
  <2>2. ASSUME NEW E, NEW P, Saved(d, E, P), births' \in {births, births + 1} PROVE GitTypes'
    BY <2>2, SaveFits, TypesFit DEF Saved
  <2>3. CASE \E private \in BOOLEAN : Learn(d, private)
    BY <2>2, <2>3, LearnIs
  <2>4. CASE \E e \in Readable(d) : Edit(d, e) \/ Retire(d, e)
    BY <2>2, <2>4, ChangeIs
  <2>5. CASE \E e \in Readable(d) : Purge(d, e)
    BY <2>2, <2>5, PurgeIs
  <2>6. CASE Quiet(d)
    BY <2>6, QuietFits, TypesFit
  <2>7. CASE Moving(d)
    BY <2>7, MovingFits, TypesFit
  <2>8. CASE Push(d)
    BY <2>8, PushIs
  <2> QED
    BY <2>1, <2>3, <2>4, <2>5, <2>6, <2>7, <2>8 DEF Writing
<1> QED
  BY <1>1, <1>2

\* Every variable keeps to its type, ids name numbers that have been given, and a merge under way is of some commit.
THEOREM GitTyped == GitSpec => []GitTypes
<1>1. GitInit => GitTypes
  BY GitTypesInit
<1>2. GitTypes /\ [GitNext]_gitVars => GitTypes'
  BY GitTypesStep
<1> QED
  BY <1>1, <1>2, PTL DEF GitSpec

----------------------------------------------------------------------------
(* What no step of another device disturbs *)

\* More births and more removals leave every set of records and every commit as good.
LEMMA SoundGrows ==
  ASSUME NEW S \in SUBSET Engram, NEW n \in Nat, NEW m \in Nat, n <= m, SoundBy(S, n)
  PROVE  SoundBy(S, m)
<1>1. \A e \in S : e.birth \in Nat /\ e.id[1] \in Nat
  BY FreshIn DEF Engram
<1> QED
  BY <1>1 DEF SoundBy

\* More births and more removals leave a commit standing where it stood.
LEMMA StandsGrows ==
  ASSUME NEW S \in SUBSET Engram, NEW k, NEW R, NEW n \in Nat, NEW m \in Nat, n <= m, NEW X, NEW Y, X \subseteq Y,
         StandsIn(S, k, R, n, X)
  PROVE  StandsIn(S, k, R, m, Y)
<1>1. SoundBy(S, m)
  BY SoundGrows DEF StandsIn
<1> QED
  BY <1>1 DEF StandsIn

\* They leave the pushed history as it should be.
LEMMA RemoteGrows ==
  ASSUME NEW R \in Seq(Tree), NEW n \in Nat, NEW m \in Nat, n <= m, NEW X, NEW Y, X \subseteq Y, RemoteIn(R, n, X)
  PROVE  RemoteIn(R, m, Y)
<1>1. \A i \in 1..Len(R) : R[i].engrams \in SUBSET Engram
  <2>1. \A i \in 1..Len(R) : R[i] \in Tree
    OBVIOUS
  <2> QED
    BY <2>1 DEF Tree
<1>2. \A i \in 1..Len(R) : SoundBy(R[i].engrams, m)
  BY <1>1, SoundGrows DEF RemoteIn
<1> QED
  BY <1>2 DEF RemoteIn

\* And what is private private.
LEMMA PrivateGrows ==
  ASSUME NEW E \in SUBSET Engram, NEW H \in SUBSET Engram, NEW S, NEW R, NEW n \in Nat, NEW m \in Nat, n <= m,
         PrivateIn(E, H, S, R, n)
  PROVE  PrivateIn(E, H, S, R, m)
<1>1. SoundBy(E, m) /\ SoundBy(H, m)
  BY SoundGrows DEF PrivateIn
<1> QED
  BY <1>1 DEF PrivateIn

\* Removals only grow.
LEMMA RemovedGrows ==
  ASSUME GitTypes, NEW d \in Devices, Only(d), purged[d] \subseteq purged'[d]
  PROVE  Removed \subseteq Removed'
<1>1. \A c \in Devices : purged[c] \subseteq purged'[c]
  <2> TAKE c \in Devices
  <2> QED
    BY OthersKeep
<1> QED
  BY <1>1 DEF Removed

\* The other devices are as they were.
LEMMA OthersStand ==
  ASSUME GitTypes, GitTypes', GitCore, NEW d \in Devices, Only(d), remote' = remote, purged[d] \subseteq purged'[d],
         NEW c \in Devices, c # d
  PROVE  Device(c)' /\ Met(c)' = Met(c)
<1>1. /\ engrams'[c] = engrams[c] /\ notes'[c] = notes[c] /\ head'[c] = head[c] /\ base'[c] = base[c]
      /\ merging'[c] = merging[c] /\ hold'[c] = hold[c] /\ syncing'[c] = syncing[c] /\ purged'[c] = purged[c]
      /\ (c \in torn' <=> c \in torn) /\ (c \in touched' <=> c \in touched)
      /\ known'[c] = known[c] /\ retired'[c] = retired[c] /\ top'[c] = top[c]
  BY OthersKeep
<1>2. /\ engrams[c] \in SUBSET Engram /\ hold[c].engrams \in SUBSET Engram /\ head[c].engrams \in SUBSET Engram
      /\ births \in Nat /\ births' \in Nat /\ births <= births'
  BY Parts DEF Only, GitTypes
<1>3. Removed \subseteq Removed'
  BY RemovedGrows
<1>4. Device(c)
  BY DEF GitCore
<1>5. InStage(c)'
  <2>1. InStage(c)
    BY <1>4 DEF Device
  <2> QED
    BY <1>1, <2>1, Zenon DEF InStage, HeldOf
<1>6. Stand(c)' = Stand(c) /\ Bound(c)' = Bound(c) /\ (Abortable(c)' <=> Abortable(c))
  BY <1>1 DEF Stand, Bound, Abortable
<1>7. Trees(c)'
  <2>1. StandsIn(head[c].engrams, base[c], remote, births, Removed)
    BY <1>4 DEF Device, Trees, Stands
  <2>2. StandsIn(PushedEngrams(engrams[c]), Stand(c), remote, births, Removed)
    BY <1>4 DEF Device, Trees, Stands
  <2>3. PushedEngrams(engrams[c]) \in SUBSET Engram
    BY <1>2 DEF PushedEngrams
  <2>4. StandsIn(head[c].engrams, base[c], remote, births', Removed')
    BY <1>2, <1>3, <2>1, StandsGrows
  <2>5. StandsIn(PushedEngrams(engrams[c]), Stand(c), remote, births', Removed')
    BY <1>2, <1>3, <2>2, <2>3, StandsGrows
  <2> QED
    BY <1>1, <1>6, <2>4, <2>5 DEF Trees, Stands
<1>8. Private(c)'
  <2>1. PrivateIn(engrams[c], hold[c].engrams, head[c].engrams, remote, births)
    BY <1>4 DEF Device, Private
  <2>2. PrivateIn(engrams[c], hold[c].engrams, head[c].engrams, remote, births')
    BY <1>2, <2>1, PrivateGrows
  <2> QED
    BY <1>1, <2>2 DEF Private
<1>9. Topped(c)'
  BY <1>1, <1>4, <1>6 DEF Device, Topped
<1>10. Kept(c)'
  BY <1>1, <1>3, <1>4, <1>6 DEF Device, Kept
<1>11. Gone(c)'
  BY <1>1, <1>4, <1>6 DEF Device, Gone
<1>12. Met(c)' = Met(c)
  BY <1>1 DEF Met
<1> QED
  BY <1>5, <1>7, <1>8, <1>9, <1>10, <1>11, <1>12 DEF Device

\* A step that leaves the remote as it is keeps the invariant if its own device does.
LEMMA CoreStep ==
  ASSUME GitTypes, GitTypes', GitCore, NEW d \in Devices, Only(d), remote' = remote, purged[d] \subseteq purged'[d], Device(d)',
         \A x \in Met(d)' : x < births' /\ (x \in Met(d) \/ Pushed(x) \/ ~(x < births))
  PROVE  GitCore'
<1>1. \A c \in Devices \ {d} : Device(c)' /\ Met(c)' = Met(c)
  BY OthersStand
<1>2. births \in Nat /\ births' \in Nat /\ births <= births' /\ remote \in Seq(Tree)
  BY DEF GitTypes, Only
<1>3. RemoteInv'
  <2>1. RemoteIn(remote, births', Removed')
    BY <1>2, RemovedGrows, RemoteGrows DEF GitCore, RemoteInv
  <2> QED
    BY <2>1 DEF RemoteInv
<1>4. \A x : Pushed(x)' <=> Pushed(x)
  BY DEF Pushed
<1>5. \A c \in Devices : \A x \in Met(c) : x < births /\ x \in Nat
  <2>1. \A c \in Devices : \A x \in Met(c) : x \in Nat
    <3> TAKE c \in Devices
    <3>1. BirthsOf(engrams[c]) \in SUBSET Nat /\ BirthsOf(hold[c].engrams) \in SUBSET Nat /\ BirthsOf(head[c].engrams) \in SUBSET Nat
      BY Parts DEF BirthsOf, Engram
    <3> QED
      BY <3>1, Parts DEF Met
  <2> QED
    BY <2>1 DEF GitCore, Owned
<1>6. \A c \in Devices : \A x \in Met(c)' : x < births'
  <2> TAKE c \in Devices
  <2>1. CASE c # d
    BY <1>1, <1>2, <1>5, <2>1
  <2> QED
    BY <2>1
<1>7. ASSUME NEW c \in Devices \ {d}, NEW x, x \in Met(c)', x \in Met(d)' PROVE Pushed(x)'
  <2>1. x \in Met(c) /\ x < births
    BY <1>1, <1>5, <1>7
  <2>2. x \in Met(d) \/ Pushed(x)
    BY <1>7, <2>1
  <2> QED
    BY <1>4, <2>1, <2>2 DEF GitCore, Owned
<1>8. ASSUME NEW c \in Devices \ {d}, NEW b \in Devices \ {d}, c # b, NEW x, x \in Met(c)', x \in Met(b)' PROVE Pushed(x)'
  BY <1>1, <1>4, <1>8 DEF GitCore, Owned
<1>9. Owned'
  BY <1>6, <1>7, <1>8 DEF Owned
<1>10. \A c \in Devices : Device(c)'
  BY <1>1
<1> QED
  BY <1>3, <1>9, <1>10 DEF GitCore

\* Where a device may not be in the middle of a merge, its working tree stands on what it has taken up.
LEMMA StandIs ==
  ASSUME GitTypes, NEW d \in Devices, InStage(d), ~Abortable(d)
  PROVE  Stand(d) = Bound(d) /\ Stand(d) \in 1..Len(remote)
<1>1. /\ d \in torn => merging[d] # 0 /\ d \notin touched
      /\ d \in touched => merging[d] # 0
  BY DEF InStage
<1>2. Stand(d) = Bound(d)
  BY <1>1 DEF Stand, Bound, Abortable
<1>3. base[d] \in 1..Len(remote) /\ merging[d] \in 0..Len(remote) /\ Len(remote) \in Nat
  BY Parts
<1>4. Stand(d) \in 1..Len(remote)
  BY <1>3 DEF Stand
<1> QED
  BY <1>2, <1>4

\* What a device has that was pushed, is in the commit its working tree stands on.
LEMMA SeenIs ==
  ASSUME GitTypes, NEW d \in Devices, Trees(d), Private(d)
  PROVE  \A x \in BirthsOf(engrams[d]) \cup BirthsOf(hold[d].engrams) : Pushed(x) =>
           x \in BirthsOf(PushedEngrams(engrams[d])) /\ x \in BirthsOf(remote[Stand(d)].engrams)
<1> SUFFICES ASSUME NEW x \in BirthsOf(engrams[d]) \cup BirthsOf(hold[d].engrams), Pushed(x)
             PROVE  x \in BirthsOf(PushedEngrams(engrams[d])) /\ x \in BirthsOf(remote[Stand(d)].engrams)
  OBVIOUS
<1>1. PICK e \in engrams[d] \cup hold[d].engrams : e.birth = x
  BY SetsAre
<1>2. ~e.private /\ e \in engrams[d]
  BY <1>1 DEF Private, PrivateIn, Pushed
<1>3. e \in PushedEngrams(engrams[d])
  BY <1>2 DEF PushedEngrams
<1>4. PICK i \in 1..Len(remote) : x \in BirthsOf(remote[i].engrams)
  BY DEF Pushed, PushedIn
<1>5. PICK f \in remote[i].engrams : f.birth = x
  BY <1>4, SetsAre
<1>6. e.birth \in BirthsOf(remote[Stand(d)].engrams)
  BY <1>1, <1>3, <1>5 DEF Trees, Stands, StandsIn
<1> QED
  BY <1>1, <1>3, <1>6, SetsAre

\* A device takes notice of what it has: what was kept, gone and seen before is so with it.
LEMMA Noticed ==
  ASSUME GitTypes, GitTypes', NEW d \in Devices, Notice(d), births <= births', remote' = remote,
         InStage(d)', Trees(d)', Private(d)', retired[d] \subseteq known[d],
         known[d] \ Removed' \subseteq BirthsOf(engrams'[d]) \cup BirthsOf(hold'[d].engrams),
         Abortable(d)' => known[d] \ Removed' \subseteq BirthsOf(head'[d].engrams) \cup BirthsOf(hold'[d].engrams),
         Stays(engrams'[d], purged'[d], retired[d]), Stays(hold'[d].engrams, purged'[d], retired[d]),
         Abortable(d)' => Stays(head'[d].engrams, purged'[d], retired[d]),
         SeenBy(known[d], remote, Bound(d)'), SeenBy(purged'[d], remote, Bound(d)')
  PROVE  /\ Kept(d)' /\ Gone(d)'
         /\ known'[d] \subseteq known[d] \cup BirthsOf(engrams'[d]) \cup BirthsOf(hold'[d].engrams)
         /\ top[d] <= top'[d] /\ Below(engrams'[d], top'[d]) /\ Below(hold'[d].engrams, top'[d])
<1>1. PICK E, H : E = engrams'[d] /\ H = hold'[d].engrams
  OBVIOUS
<1> DEFINE P == PutBack(E, H)
           Q == IF merging'[d] = 0 \/ d \in touched' THEN P ELSE {}
<1>2. E \in SUBSET Engram /\ H \in SUBSET Engram
  <2>1. (engrams[d] \in SUBSET Engram /\ hold[d].engrams \in SUBSET Engram)'
    BY Parts, PTL
  <2> QED
    BY <1>1, <2>1
<1>3. /\ top[d] <= top'[d] /\ Below(E, top'[d]) /\ Below(H, top'[d])
      /\ known'[d] = known[d] \cup BirthsOf(Q) /\ retired'[d] = retired[d] \cup BirthsOf({e \in Q : e.retired})
  <2>1. Below(engrams'[d], births') /\ Below(hold'[d].engrams, births') /\ births' \in Nat
    BY DEF GitTypes
  <2> QED
    BY <1>1, <1>2, <2>1, NoticeTypes
<1>4. PrivateIn(E, H, head'[d].engrams, remote, births')
  BY <1>1 DEF Private
<1>5. BirthsOf(P) = BirthsOf(E) \cup BirthsOf(H)
  BY <1>2, PutBackIn
<1>6. \A r \in P : r \in E \/ \E h \in H : r.birth = h.birth /\ r.retired = h.retired
  BY <1>2, PutBackFrom
<1>7. \A h \in H, e \in E : h.birth = e.birth => h.retired = e.retired
  <2> TAKE h \in H, e \in E
  <2> HAVE h.birth = e.birth
  <2>1. e = h \/ e = [h EXCEPT !.id = FreshId(h)]
    BY <1>4 DEF PrivateIn
  <2>2. [h EXCEPT !.id = FreshId(h)].retired = h.retired
    BY <1>2 DEF Engram
  <2> QED
    BY <2>1, <2>2
<1>8. SoundBy(E, births') /\ SoundBy(H, births')
  BY <1>4 DEF PrivateIn
<1>9. \A e \in E \cup H : \A r \in P : r.birth = e.birth => r.retired = e.retired
  BY <1>6, <1>7, <1>8 DEF SoundBy
<1>10. known'[d] \subseteq known[d] \cup BirthsOf(E) \cup BirthsOf(H)
  <2>1. BirthsOf({}) = {}
    BY DEF BirthsOf
  <2> QED
    BY <1>3, <1>5, <2>1
<1> HIDE DEF P
<1>11. \A e \in E \cup H : e.birth \in retired'[d] => e.birth \in retired[d] \/ e.retired
  <2> SUFFICES ASSUME NEW e \in E \cup H, e.birth \in BirthsOf({r \in Q : r.retired}) PROVE e.retired
    BY <1>3
  <2>1. PICK r \in Q : r.retired /\ r.birth = e.birth
    BY SetsAre
  <2> QED
    BY <1>9, <2>1
<1>12. Stays(E, purged'[d], retired'[d]) /\ Stays(H, purged'[d], retired'[d])
  BY <1>1, <1>11 DEF Stays
<1>13. BirthsOf({r \in Q : r.retired}) \subseteq BirthsOf(Q)
  BY DEF BirthsOf
<1>14. retired'[d] \subseteq known'[d]
  BY <1>3, <1>13
<1>15. Abortable(d)' => known'[d] = known[d] /\ retired'[d] = retired[d]
  <2>1. BirthsOf({}) = {} /\ {r \in {} : r.retired} = {}
    BY DEF BirthsOf
  <2>2. Abortable(d)' => Q = {}
    BY DEF Abortable
  <2> HIDE DEF Q
  <2> QED
    BY <1>3, <2>1, <2>2
<1>16. Kept(d)'
  BY <1>1, <1>10, <1>15 DEF Kept
<1>17. SeenBy(known'[d], remote, Bound(d)')
  <2>1. CASE Abortable(d)'
    BY <1>15, <2>1
  <2>2. CASE ~Abortable(d)'
    <3>1. (Stand(d) = Bound(d) /\ Stand(d) \in 1..Len(remote))'
      <4>1. (GitTypes /\ InStage(d) /\ ~Abortable(d) => Stand(d) = Bound(d) /\ Stand(d) \in 1..Len(remote))'
        BY StandIs, PTL
      <4> QED
        BY <2>2, <4>1
    <3>2. ASSUME NEW y \in BirthsOf(E) \cup BirthsOf(H), PushedIn(y, remote)
          PROVE  \E i \in 1..Bound(d)' : y \in BirthsOf(remote[i].engrams)
      <4>1. (\A x \in BirthsOf(engrams[d]) \cup BirthsOf(hold[d].engrams) : Pushed(x) =>
               x \in BirthsOf(PushedEngrams(engrams[d])) /\ x \in BirthsOf(remote[Stand(d)].engrams))'
        BY SeenIs, PTL
      <4>2. Pushed(y)'
        BY <3>2 DEF Pushed
      <4>3. y \in BirthsOf(engrams'[d]) \cup BirthsOf(hold'[d].engrams)
        BY <1>1, <3>2
      <4>4. y \in BirthsOf(remote'[Stand(d)'].engrams)
        BY <4>1, <4>2, <4>3
      <4>5. Stand(d)' \in 1..Bound(d)'
        BY <3>1
      <4> QED
        BY <4>4, <4>5
    <3> QED
      BY <1>10, <3>2 DEF SeenBy
  <2> QED
    BY <2>1, <2>2
<1>18. Gone(d)'
  BY <1>1, <1>12, <1>14, <1>15, <1>17 DEF Gone
<1> QED
  BY <1>1, <1>3, <1>10, <1>16, <1>18

----------------------------------------------------------------------------
(* The steps that move records *)

\* What has been pushed was met before any birth to come.
LEMMA PushedBorn ==
  ASSUME GitTypes, RemoteInv
  PROVE  \A x : Pushed(x) => x < births
<1> SUFFICES ASSUME NEW x, Pushed(x) PROVE x < births
  OBVIOUS
<1>1. PICK i \in 1..Len(remote) : x \in BirthsOf(remote[i].engrams)
  BY DEF Pushed, PushedIn
<1>2. PICK f \in remote[i].engrams : f.birth = x
  BY <1>1, SetsAre
<1> QED
  BY <1>2 DEF RemoteInv, RemoteIn, SoundBy

\* What was seen up to a commit was seen up to a later one.
LEMMA SeenGrows ==
  ASSUME NEW K, NEW R, NEW i \in Nat, NEW j \in Nat, i <= j, SeenBy(K, R, i)
  PROVE  SeenBy(K, R, j)
<1>1. \A l \in 1..i : l \in 1..j
  OBVIOUS
<1> QED
  BY <1>1 DEF SeenBy

\* A step that moves records keeps the invariant if the trees, the stage and the private records are
\* as they should be, and nothing known is lost by it, nor anything gone brought back.
LEMMA Moved ==
  ASSUME GitTypes, GitTypes', GitCore, NEW d \in Devices, Moving(d),
         InStage(d)', Trees(d)', Private(d)', Bound(d) <= Bound(d)',
         known[d] \ Removed \subseteq BirthsOf(engrams'[d]) \cup BirthsOf(hold[d].engrams),
         Abortable(d)' => known[d] \ Removed \subseteq BirthsOf(head'[d].engrams) \cup BirthsOf(hold[d].engrams),
         Stays(engrams'[d], purged[d], retired[d]),
         Abortable(d)' => Stays(head'[d].engrams, purged[d], retired[d]),
         Below(head'[d].engrams, top'[d]), Below(remote[base'[d]].engrams, top'[d]),
         Below(remote[Stand(d)'].engrams, top'[d]),
         \A x \in BirthsOf(engrams'[d]) \cup BirthsOf(head'[d].engrams) : x \in Met(d) \/ Pushed(x)
  PROVE  GitCore'
<1>1. /\ Only(d) /\ Notice(d) /\ purged' = purged /\ remote' = remote /\ births' = births
      /\ hold'[d].engrams = hold[d].engrams
  BY MovingFits
<1>2. Removed' = Removed
  BY <1>1 DEF Removed
<1>3. Device(d)
  BY DEF GitCore
<1>4. /\ retired[d] \subseteq known[d] /\ Stays(hold[d].engrams, purged[d], retired[d])
      /\ SeenBy(known[d], remote, Bound(d)) /\ SeenBy(purged[d], remote, Bound(d))
  BY <1>3 DEF Device, Gone
<1>5. Bound(d) \in Nat /\ Bound(d)' \in Nat
  <2>1. base[d] \in Nat /\ merging[d] \in Nat /\ base'[d] \in Nat /\ merging'[d] \in Nat
    BY DEF GitTypes
  <2> QED
    BY <2>1 DEF Bound
<1>6. SeenBy(known[d], remote, Bound(d)') /\ SeenBy(purged[d], remote, Bound(d)')
  BY <1>4, <1>5, SeenGrows
<1>7. births \in Nat /\ births <= births'
  BY <1>1 DEF GitTypes
<1>8. /\ Kept(d)' /\ Gone(d)'
      /\ known'[d] \subseteq known[d] \cup BirthsOf(engrams'[d]) \cup BirthsOf(hold'[d].engrams)
      /\ top[d] <= top'[d] /\ Below(engrams'[d], top'[d]) /\ Below(hold'[d].engrams, top'[d])
  BY <1>1, <1>2, <1>4, <1>6, <1>7, Noticed
<1>9. Topped(d)'
  BY <1>1, <1>8 DEF Topped
<1>10. Device(d)'
  BY <1>8, <1>9 DEF Device
<1>11. \A x \in Met(d)' : x \in Met(d) \/ Pushed(x)
  BY <1>1, <1>8 DEF Met
<1>12. \A x : x \in Met(d) \/ Pushed(x) => x < births
  BY PushedBorn DEF GitCore, Owned
<1> QED
  BY <1>1, <1>10, <1>11, <1>12, CoreStep

\* The largest number a device has met only grows.
LEMMA TopGrows ==
  ASSUME GitTypes, GitTypes', NEW d \in Devices, Moving(d)
  PROVE  \A S \in SUBSET Engram : Below(S, top[d]) => Below(S, top'[d])
<1>1. Notice(d)
  BY MovingFits
<1>2. \E n : top' = Put(top, d, IF n > top[d] THEN n ELSE top[d])
  BY <1>1, Zenon DEF Notice
<1>3. top \in [Devices -> Nat] /\ top' \in [Devices -> Nat]
  BY DEF GitTypes
<1>4. top[d] \in Nat /\ top'[d] \in Nat /\ top[d] <= top'[d]
  BY <1>2, <1>3 DEF Put
<1> QED
  BY <1>4, FreshIn DEF Below

\* The trees of a device that is back at its branch.
LEMMA Back ==
  ASSUME GitTypes, GitTypes', GitCore, NEW d \in Devices, Moving(d), InStage(d)',
         engrams'[d] = head[d].engrams, head'[d] = head[d], base'[d] = base[d], merging'[d] = 0,
         d \notin touched, d \notin touched',
         known[d] \ Removed \subseteq BirthsOf(head[d].engrams) \cup BirthsOf(hold[d].engrams),
         Stays(head[d].engrams, purged[d], retired[d])
  PROVE  GitCore'
<1>1. /\ purged' = purged /\ remote' = remote /\ births' = births /\ hold'[d].engrams = hold[d].engrams /\ Notice(d)
  BY MovingFits
<1>2. Removed' = Removed
  BY <1>1 DEF Removed
<1>3. Device(d)
  BY DEF GitCore
<1>4. d \notin torn'
  BY DEF InStage
<1>5. Stand(d)' = base[d] /\ Bound(d)' = base[d] /\ Bound(d) = base[d] /\ ~Abortable(d)'
  BY <1>4 DEF Stand, Bound, Abortable
<1>6. Stands(head[d].engrams, base[d])
  BY <1>3 DEF Device, Trees
<1>7. PushedEngrams(head[d].engrams) = head[d].engrams
  BY <1>6 DEF Stands, StandsIn, Public, PushedEngrams
<1>8. Trees(d)'
  BY <1>1, <1>2, <1>5, <1>6, <1>7 DEF Trees, Stands
<1>9. PrivateIn(engrams[d], hold[d].engrams, head[d].engrams, remote, births)
  BY <1>3 DEF Device, Private
<1>10. PrivateIn(head[d].engrams, hold[d].engrams, head[d].engrams, remote, births)
  <2>1. \A e \in head[d].engrams : ~e.private
    BY <1>6 DEF Stands, StandsIn, Public
  <2>2. SoundBy(head[d].engrams, births)
    BY <1>6 DEF Stands, StandsIn
  <2>3. \A h \in hold[d].engrams, e \in head[d].engrams : h.birth # e.birth
    <3>1. \A h \in hold[d].engrams : h.birth \notin BirthsOf(head[d].engrams)
      BY <1>9 DEF PrivateIn
    <3> QED
      BY <3>1, SetsAre
  <2> QED
    BY <1>9, <2>1, <2>2, <2>3 DEF PrivateIn
<1>11. Private(d)'
  BY <1>1, <1>10 DEF Private
<1>12. Topped(d)
  BY <1>3 DEF Device
<1>14. \A S \in SUBSET Engram : Below(S, top[d]) => Below(S, top'[d])
  BY TopGrows
<1>15. Below(head[d].engrams, top'[d]) /\ Below(remote[base[d]].engrams, top'[d])
  BY <1>12, <1>14, Parts, CommitIs DEF Topped
<1>16. \A x \in BirthsOf(head[d].engrams) : x \in Met(d)
  BY DEF Met
<1>17. Bound(d) <= Bound(d)'
  BY <1>5 DEF GitTypes
<1> QED
  BY <1>5, <1>8, <1>11, <1>15, <1>16, <1>17, Moved

\* A half-made merge is given up: by a recovery, by git, or, with none begun, for the pull.
LEMMA CoreBack ==
  ASSUME GitTypes, GitTypes', GitCore, NEW d \in Devices,
         (Recover(d) /\ merging[d] # 0 /\ d \notin touched) \/ ConcludeFails(d) \/ Reset(d)
  PROVE  GitCore'
<1>1. Moving(d)
  BY DEF Moving
<1>2. Device(d) /\ InStage(d)
  BY DEF GitCore, Device
<1>3. /\ engrams'[d] = head[d].engrams /\ head'[d] = head[d] /\ base'[d] = base[d] /\ touched' = touched
  BY AreFunctions DEF Recover, ConcludeFails, Reset, branch
<1>4. ASSUME Recover(d) /\ merging[d] # 0 /\ d \notin touched
      PROVE  merging'[d] = 0 /\ d \notin torn' /\ d \notin touched /\ syncing'[d].at = "recoverEngrams"
  BY <1>4, AreFunctions DEF Recover, SyncAt
<1>5. ASSUME ConcludeFails(d)
      PROVE  merging'[d] = 0 /\ d \notin torn' /\ d \notin touched /\ syncing'[d].at = "restore" /\ merging[d] # 0
  <2>1. merging'[d] = 0 /\ syncing'[d].at = "restore" /\ torn' = torn /\ syncing[d].at = "conclude"
    BY <1>5, AreFunctions DEF ConcludeFails, SyncAt
  <2> QED
    BY <1>2, <2>1 DEF InStage, Merging
<1>6. ASSUME Reset(d)
      PROVE  merging'[d] = 0 /\ d \notin torn' /\ d \notin touched /\ syncing'[d].at = "pull" /\ notes'[d] = head[d].notes
  <2>1. syncing'[d].at = "pull" /\ notes'[d] = head[d].notes /\ torn' = torn /\ syncing[d].at = "reset" /\ merging' = merging
    BY <1>6, AreFunctions DEF Reset, GoOn, SyncAt, branch
  <2> QED
    BY <1>2, <2>1 DEF InStage, Pulling
<1>7. merging'[d] = 0 /\ d \notin torn' /\ d \notin touched' /\ d \notin touched
      /\ syncing'[d].at \in {"recoverEngrams", "restore", "pull"}
      /\ (syncing'[d].at = "pull" => notes'[d] = head[d].notes)
  BY <1>3, <1>4, <1>5, <1>6
<1>8. PushedEngrams(head[d].engrams) = head[d].engrams
  BY <1>2 DEF Device, Trees, Stands, StandsIn, Public, PushedEngrams
<1>9. InStage(d)'
  BY <1>3, <1>7, <1>8 DEF InStage, Pulling, Merging, Recovering
<1>10. CASE Reset(d)
  <2>1. head[d] = Strip(engrams[d], notes[d]) /\ hold[d] = HeldOf(d)
    BY <1>2, <1>10 DEF InStage, Reset
  <2>2. head[d].engrams = PushedEngrams(engrams[d]) /\ hold[d].engrams = engrams[d] \ PushedEngrams(engrams[d])
    BY <2>1 DEF Strip, HeldOf
  <2>3. PushedEngrams(engrams[d]) \subseteq engrams[d]
    BY DEF PushedEngrams
  <2>4. BirthsOf(engrams[d]) \subseteq BirthsOf(head[d].engrams) \cup BirthsOf(hold[d].engrams)
    BY <2>2, <2>3 DEF BirthsOf
  <2>5. BirthsOf(hold[d].engrams) \subseteq BirthsOf(engrams[d])
    BY <2>2 DEF BirthsOf
  <2>6. known[d] \ Removed \subseteq BirthsOf(head[d].engrams) \cup BirthsOf(hold[d].engrams)
    BY <1>2, <2>4, <2>5 DEF Device, Kept
  <2>7. Stays(head[d].engrams, purged[d], retired[d])
    BY <1>2, <2>2, <2>3 DEF Device, Gone, Stays
  <2> QED
    BY <1>1, <1>3, <1>7, <1>9, <2>6, <2>7, Back
<1>11. CASE ~Reset(d)
  <2>1. Abortable(d)
    BY <1>4, <1>5, <1>7, <1>11 DEF Abortable
  <2>2. /\ known[d] \ Removed \subseteq BirthsOf(head[d].engrams) \cup BirthsOf(hold[d].engrams)
        /\ Stays(head[d].engrams, purged[d], retired[d])
    BY <1>2, <2>1 DEF Device, Kept, Gone
  <2> QED
    BY <1>1, <1>3, <1>7, <1>9, <2>2, Back
<1> QED
  BY <1>10, <1>11

\* A recovery with no merge to abort leaves the records as they are.
LEMMA CoreRecover ==
  ASSUME GitTypes, GitTypes', GitCore, NEW d \in Devices, Recover(d), ~(merging[d] # 0 /\ d \notin touched)
  PROVE  GitCore'
<1>1. Moving(d)
  BY DEF Moving
<1>2. Device(d) /\ InStage(d)
  BY DEF GitCore, Device
<1>3. /\ engrams' = engrams /\ notes' = notes /\ merging' = merging /\ torn' = torn /\ head' = head /\ base' = base
      /\ touched' = touched /\ hold' = hold /\ remote' = remote /\ births' = births /\ purged' = purged
      /\ syncing'[d].at = "recoverEngrams" /\ syncing[d].at = "recover"
  BY AreFunctions DEF Recover, tree, still, users, SyncAt
<1>4. InStage(d)'
  BY <1>2, <1>3 DEF InStage, Pulling, Merging, Recovering
<1>5. Removed' = Removed
  BY <1>3 DEF Removed
<1>6. /\ Stand(d)' = Stand(d) /\ Bound(d)' = Bound(d) /\ (Abortable(d)' <=> Abortable(d)) /\ ~Abortable(d)
  BY <1>3 DEF Stand, Bound, Abortable
<1>7. Trees(d)' /\ Private(d)'
  BY <1>2, <1>3, <1>5, <1>6 DEF Device, Trees, Stands, Private
<1>8. Bound(d) <= Bound(d)'
  <2>1. base[d] \in Nat /\ merging[d] \in Nat
    BY DEF GitTypes
  <2> QED
    BY <1>6, <2>1 DEF Bound
<1>9. Stand(d) \in 1..Len(remote)
  BY <1>2, <1>6, StandIs
<1>10. /\ Below(head[d].engrams, top'[d]) /\ Below(remote[base[d]].engrams, top'[d]) /\ Below(remote[Stand(d)].engrams, top'[d])
  <2>1. Topped(d)
    BY <1>2 DEF Device
  <2> QED
    BY <1>1, <1>9, <2>1, TopGrows, Parts, CommitIs DEF Topped
<1>11. known[d] \ Removed \subseteq BirthsOf(engrams[d]) \cup BirthsOf(hold[d].engrams) /\ Stays(engrams[d], purged[d], retired[d])
  BY <1>2 DEF Device, Kept, Gone
<1>12. \A x \in BirthsOf(engrams[d]) \cup BirthsOf(head[d].engrams) : x \in Met(d)
  BY DEF Met
<1> QED
  BY <1>1, <1>3, <1>4, <1>6, <1>7, <1>8, <1>10, <1>11, <1>12, Moved

\* A note moves no engram; those of a merge it keeps from being aborted are known from then on.
LEMMA CoreNoted ==
  ASSUME GitTypes, GitTypes', GitCore, NEW d \in Devices, Noting(d)
  PROVE  GitCore'
<1>1. Moving(d)
  BY DEF Moving
<1>2. Device(d) /\ InStage(d)
  BY DEF GitCore, Device
<1>3. /\ engrams' = engrams /\ merging' = merging /\ torn' = torn /\ head' = head /\ base' = base
      /\ hold' = hold /\ remote' = remote /\ births' = births /\ purged' = purged
      /\ syncing' = syncing /\ syncing[d].at = "idle" /\ d \notin torn
      /\ touched' = touched \/ (merging[d] # 0 /\ touched' = touched \cup {d})
  BY DEF Noting, Note
<1>4. InStage(d)'
  BY <1>2, <1>3 DEF InStage, Pulling, Merging, Recovering
<1>5. Removed' = Removed
  BY <1>3 DEF Removed
<1>6. Stand(d)' = Stand(d) /\ (Abortable(d)' => Abortable(d))
  BY <1>3 DEF Stand, Abortable
<1>7. Trees(d)' /\ Private(d)'
  BY <1>2, <1>3, <1>5, <1>6 DEF Device, Trees, Stands, Private
<1>8. Bound(d) <= Bound(d)'
  <2>1. base[d] \in Nat /\ merging[d] \in Nat /\ (merging[d] # 0 => base[d] <= merging[d])
    BY <1>2 DEF GitTypes, InStage
  <2> QED
    BY <1>3, <2>1 DEF Bound
<1>9. Stand(d) \in 1..Len(remote)
  BY <1>3, Parts DEF Stand
<1>10. /\ Below(head[d].engrams, top'[d]) /\ Below(remote[base[d]].engrams, top'[d]) /\ Below(remote[Stand(d)].engrams, top'[d])
  <2>1. Topped(d)
    BY <1>2 DEF Device
  <2> QED
    BY <1>1, <1>9, <2>1, TopGrows, Parts, CommitIs DEF Topped
<1>11. /\ known[d] \ Removed \subseteq BirthsOf(engrams[d]) \cup BirthsOf(hold[d].engrams)
       /\ Stays(engrams[d], purged[d], retired[d])
       /\ Abortable(d) => /\ known[d] \ Removed \subseteq BirthsOf(head[d].engrams) \cup BirthsOf(hold[d].engrams)
                          /\ Stays(head[d].engrams, purged[d], retired[d])
  BY <1>2 DEF Device, Kept, Gone
<1>12. \A x \in BirthsOf(engrams[d]) \cup BirthsOf(head[d].engrams) : x \in Met(d)
  BY DEF Met
<1> QED
  BY <1>1, <1>3, <1>4, <1>6, <1>7, <1>8, <1>10, <1>11, <1>12, Moved

\* The held engrams are put back.
LEMMA CoreRestore ==
  ASSUME GitTypes, GitTypes', GitCore, NEW d \in Devices, Restoring(d)
  PROVE  GitCore'
<1> DEFINE E == engrams[d]
           H == hold[d].engrams
           P == PutBack(E, H)
<1>1. Moving(d)
  BY DEF Moving
<1>2. Device(d) /\ InStage(d)
  BY DEF GitCore, Device
<1>3. /\ engrams'[d] = P /\ notes' = notes /\ merging' = merging /\ torn' = torn /\ head' = head /\ base' = base
      /\ touched' = touched /\ hold' = hold /\ remote' = remote /\ births' = births /\ purged' = purged
  BY AreFunctions DEF Restoring, RestoreEngrams, Readable, still, users, branch
<1>4. \/ syncing[d].at = "recoverEngrams" /\ syncing'[d].at = "recoverNotes"
      \/ syncing[d].at = "restore" /\ syncing'[d].at = "restoreNotes"
  BY AreFunctions DEF Restoring, RestoreEngrams, SyncAt
<1>5. E \in SUBSET Engram /\ H \in SUBSET Engram
  BY Parts
<1>6. PrivateIn(E, H, head[d].engrams, remote, births)
  BY <1>2 DEF Device, Private
<1>7. BirthsOf(P) = BirthsOf(E) \cup BirthsOf(H) /\ P \in SUBSET Engram
  BY <1>5, PutBackIn
<1>8. PushedEngrams(P) = PushedEngrams(E)
  BY <1>5, <1>6, PutBackPublic DEF PrivateIn
<1>9. \A h \in H : \E e \in P : e.birth = h.birth
  <2>1. \A h \in H : h.birth \in BirthsOf(P)
    BY <1>7, SetsAre
  <2> QED
    BY <2>1, SetsAre
<1>10. PrivateIn(P, H, head[d].engrams, remote, births)
  <2>1. SoundBy(E, births) /\ SoundBy(H, births) /\ (\A h \in H : h.birth # 0)
    BY <1>6 DEF PrivateIn
  <2>2. \A h \in H, e \in E : h.birth = e.birth => e = h \/ (e = [h EXCEPT !.id = FreshId(h)] /\ h.id \in IdsOf(E))
    BY <1>6 DEF PrivateIn
  <2>3. /\ Sound(P)
        /\ \A h \in H, e \in P : h.birth = e.birth => e = h \/ (e = [h EXCEPT !.id = FreshId(h)] /\ h.id \in IdsOf(P))
    BY <1>5, <2>1, <2>2, PutBackSound DEF Sound
  <2>4. \A r \in P : r \in E \/ \E h \in H : r.birth = h.birth
    BY <1>5, PutBackFrom
  <2>5. \A h \in H : h.private /\ h.birth # 0 /\ h.birth \notin BirthsOf(head[d].engrams) /\ ~PushedIn(h.birth, remote)
    BY <1>6 DEF PrivateIn
  <2>6. \A r \in P : r.private => r.birth # 0 /\ r.birth \notin BirthsOf(head[d].engrams) /\ ~PushedIn(r.birth, remote)
    BY <1>6, <2>4, <2>5 DEF PrivateIn
  <2> HIDE DEF P
  <2> QED
    BY <2>1, <2>3, <2>5, <2>6 DEF PrivateIn, Sound
<1> HIDE DEF P
<1>11. hold'[d].engrams = H
  BY <1>3
<1>12. InStage(d)'
  <2>1. /\ d \in torn => merging[d] # 0 /\ d \notin touched /\ syncing[d].at \in {"idle", "recover", "merge"}
        /\ d \in touched => merging[d] # 0
        /\ merging[d] # 0 => base[d] <= merging[d]
        /\ syncing[d].at \in Pulling => merging[d] = 0
        /\ syncing[d].at \in Pulling => head[d].engrams = PushedEngrams(engrams[d])
        /\ syncing[d].at \in Recovering => (merging[d] # 0 => d \in touched)
    BY <1>2 DEF InStage
  <2>2. head[d].engrams = PushedEngrams(E) => head[d].engrams = PushedEngrams(P)
    BY <1>8
  <2>3. CASE syncing[d].at = "recoverEngrams" /\ syncing'[d].at = "recoverNotes"
    BY <1>3, <1>9, <2>1, <2>3 DEF InStage, Pulling, Merging, Recovering
  <2>4. CASE syncing[d].at = "restore" /\ syncing'[d].at = "restoreNotes"
    BY <1>3, <1>9, <2>1, <2>2, <2>4 DEF InStage, Pulling, Merging, Recovering
  <2> QED
    BY <1>4, <2>3, <2>4
<1>13. Removed' = Removed
  BY <1>3 DEF Removed
<1>14. ~Abortable(d)
  BY <1>2, <1>4 DEF InStage, Pulling, Recovering, Abortable
<1>15. Stand(d)' = Stand(d) /\ Bound(d)' = Bound(d) /\ ~Abortable(d)' /\ Stand(d) \in 1..Len(remote)
  BY <1>2, <1>3, <1>14, StandIs DEF Stand, Bound, Abortable
<1>16. Trees(d)'
  BY <1>2, <1>3, <1>8, <1>13, <1>15 DEF Device, Trees, Stands
<1>17. Private(d)'
  BY <1>3, <1>10, <1>11 DEF Private
<1>18. Bound(d) <= Bound(d)'
  <2>1. base[d] \in Nat /\ merging[d] \in Nat
    BY DEF GitTypes
  <2> QED
    BY <1>15, <2>1 DEF Bound
<1>19. /\ Below(head[d].engrams, top'[d]) /\ Below(remote[base[d]].engrams, top'[d]) /\ Below(remote[Stand(d)].engrams, top'[d])
  <2>1. Topped(d)
    BY <1>2 DEF Device
  <2> QED
    BY <1>1, <1>15, <2>1, TopGrows, Parts, CommitIs DEF Topped
<1>20. known[d] \ Removed \subseteq BirthsOf(P) \cup BirthsOf(H)
  BY <1>2, <1>7 DEF Device, Kept
<1>21. Stays(P, purged[d], retired[d])
  <2>1. Stays(E, purged[d], retired[d]) /\ Stays(H, purged[d], retired[d])
    BY <1>2 DEF Device, Gone
  <2>2. \A r \in P : r \in E \/ \E h \in H : r.birth = h.birth /\ r.retired = h.retired
    BY <1>5, PutBackFrom DEF P
  <2> QED
    BY <2>1, <2>2 DEF Stays
<1>22. \A x \in BirthsOf(P) \cup BirthsOf(head[d].engrams) : x \in Met(d)
  BY <1>7 DEF Met
<1> QED
  BY <1>1, <1>3, <1>12, <1>15, <1>16, <1>17, <1>18, <1>19, <1>20, <1>21, <1>22, Moved

\* A commit takes the public records, and the commit its working tree stands on with them.
LEMMA CoreCommit ==
  ASSUME GitTypes, GitTypes', GitCore, NEW d \in Devices, Commit(d) \/ Conclude(d)
  PROVE  GitCore'
<1> DEFINE E == engrams[d]
           H == hold[d].engrams
           C == PushedEngrams(E)
<1>1. Moving(d)
  BY DEF Moving
<1>2. Device(d) /\ InStage(d)
  BY DEF GitCore, Device
<1>3. /\ engrams' = engrams /\ notes' = notes /\ head'[d] = Strip(engrams[d], notes[d]) /\ merging'[d] = 0 /\ torn' = torn
      /\ hold' = hold /\ remote' = remote /\ births' = births /\ purged' = purged
      /\ syncing[d].at \in {"commit", "conclude"} /\ touched' \in {touched, touched \ {d}}
  BY AreFunctions DEF Commit, Conclude, tree, still, users
<1>4. d \notin torn
  BY <1>2, <1>3 DEF InStage
<1>5. Conclude(d) => d \notin touched /\ merging[d] # 0
  BY <1>2 DEF InStage, Conclude, Merging
<1>6. Commit(d) => d \notin touched'
  BY DEF Commit
<1>7. d \notin touched'
  BY <1>3, <1>5, <1>6
<1>8. base'[d] = Stand(d)
  BY <1>4, <1>5, AreFunctions DEF Stand, Commit, Conclude
<1>9. base[d] \in 1..Len(remote) /\ merging[d] \in 0..Len(remote) /\ Len(remote) \in Nat
  BY Parts
<1>10. Stand(d) \in 1..Len(remote)
  BY <1>9 DEF Stand
<1>11. Stand(d)' = Stand(d) /\ Bound(d)' = Stand(d) /\ ~Abortable(d)'
  BY <1>3, <1>7, <1>8 DEF Stand, Bound, Abortable
<1>12. Bound(d) <= Stand(d)
  BY <1>2, <1>4, <1>9 DEF InStage, Bound, Stand
<1>13. Strip(engrams[d], notes[d]).engrams = C /\ C \subseteq E /\ C \in SUBSET Engram
  BY Parts DEF Strip, PushedEngrams
<1>14. (syncing'[d].at \in {"hold", "push"} /\ hold[d] = NoHold) \/ syncing'[d].at = "restore"
  BY <1>2, AreFunctions DEF Commit, Conclude, GoOn, SyncAt, InStage
<1>15. InStage(d)'
  BY <1>3, <1>4, <1>7, <1>13, <1>14 DEF InStage, Pulling, Merging, Recovering
<1>16. Removed' = Removed
  BY <1>3 DEF Removed
<1>17. Stands(C, Stand(d))
  BY <1>2 DEF Device, Trees
<1>18. Trees(d)'
  BY <1>3, <1>8, <1>11, <1>13, <1>16, <1>17 DEF Trees, Stands
<1>19. PrivateIn(E, H, head[d].engrams, remote, births)
  BY <1>2 DEF Device, Private
<1>20. E \in SUBSET Engram /\ H \in SUBSET Engram
  BY Parts
<1>21. \A e \in E \cup H : e.private => e.birth \notin BirthsOf(C)
  <2> SUFFICES ASSUME NEW e \in E \cup H, e.private, NEW c \in C, c.birth = e.birth PROVE FALSE
    BY SetsAre
  <2>1. c \in E /\ ~c.private
    BY DEF PushedEngrams
  <2>2. CASE e \in E
    BY <1>19, <2>1, <2>2 DEF PrivateIn, SoundBy
  <2>3. CASE e \in H
    <3>1. c = e \/ c = [e EXCEPT !.id = FreshId(e)]
      BY <1>19, <2>1, <2>3 DEF PrivateIn
    <3>2. [e EXCEPT !.id = FreshId(e)].private = e.private
      BY <1>20, <2>3 DEF Engram
    <3> QED
      BY <2>1, <3>1, <3>2
  <2> QED
    BY <2>2, <2>3
<1>22. PrivateIn(E, H, C, remote, births)
  BY <1>19, <1>21 DEF PrivateIn
<1>23. Private(d)'
  BY <1>3, <1>13, <1>22 DEF Private
<1>24. Below(C, top'[d]) /\ Below(remote[Stand(d)].engrams, top'[d])
  <2>1. Below(E, top[d]) /\ Below(remote[Stand(d)].engrams, top[d])
    BY <1>2 DEF Device, Topped
  <2>2. Below(E, top'[d]) /\ Below(remote[Stand(d)].engrams, top'[d])
    BY <1>1, <1>10, <1>20, <2>1, TopGrows, CommitIs
  <2> QED
    BY <1>13, <2>2 DEF Below
<1>25. known[d] \ Removed \subseteq BirthsOf(E) \cup BirthsOf(H) /\ Stays(E, purged[d], retired[d])
  BY <1>2 DEF Device, Kept, Gone
<1>26. \A x \in BirthsOf(E) \cup BirthsOf(C) : x \in Met(d)
  BY <1>13 DEF Met, BirthsOf
<1> HIDE DEF C
<1> QED
  BY <1>1, <1>3, <1>8, <1>11, <1>12, <1>13, <1>15, <1>18, <1>23, <1>24, <1>25, <1>26, Moved

\* What a merge of the branch of a device makes of what the device knows: no memory is lost by it, none that
\* was removed comes back, and none that was retired is live again.
LEMMA MergeKeeps ==
  ASSUME GitTypes, GitCore, NEW d \in Devices, NEW k \in 1..Len(remote), base[d] <= k, ~Reused(remote[base[d]], remote[k]),
         known[d] \ Removed \subseteq BirthsOf(head[d].engrams) \cup BirthsOf(hold[d].engrams),
         Stays(head[d].engrams, purged[d], retired[d]), Bound(d) = base[d]
  PROVE  LET new == Merged(head[d].engrams, base[d], k) IN
         /\ new \in SUBSET Engram /\ Stands(new, k) /\ PushedEngrams(new) = new
         /\ known[d] \ Removed \subseteq BirthsOf(new) \cup BirthsOf(hold[d].engrams)
         /\ Stays(new, purged[d], retired[d])
         /\ PrivateIn(new, hold[d].engrams, head[d].engrams, remote, births)
         /\ PrivateIn(new, hold[d].engrams, new, remote, births)
         /\ \A x \in BirthsOf(new) : x \in Met(d) \/ Pushed(x)
         /\ \A f \in remote[k].engrams : f \in new \/ f.id \in IdsOf(remote[base[d]].engrams)
<1> DEFINE o == head[d].engrams
           i == base[d]
           H == hold[d].engrams
           new == Merged(o, i, k)
<1>1. Device(d) /\ RemoteInv /\ o \in SUBSET Engram /\ i \in 1..Len(remote) /\ Len(remote) \in Nat
  BY Parts DEF GitCore
<1>2. Stands(o, i)
  BY <1>1 DEF Device, Trees
<1>3. Merges(o, i, k)
  BY <1>1, <1>2 DEF Merges
<1>4. Stands(new, k) /\ new \in SUBSET Engram /\ Sound(new) /\ Public(new)
  BY <1>3, MergedStands, MergedSound
<1>5. /\ \A g \in new : \/ \E e \in o : e.birth = g.birth /\ (e.retired => g.retired)
                        \/ g \in remote[k].engrams /\ g.birth \notin BirthsOf(remote[i].engrams)
      /\ \A e \in o : e.birth \in Removed \/ e.birth \in BirthsOf(new)
      /\ \A f \in remote[k].engrams : f \in new \/ f.id \in IdsOf(remote[i].engrams)
  BY <1>3, MergedFrom
<1> HIDE DEF new
<1>6. PushedEngrams(new) = new
  BY <1>4 DEF Public, PushedEngrams
<1>7. known[d] \ Removed \subseteq BirthsOf(new) \cup BirthsOf(H)
  <2> SUFFICES ASSUME NEW x \in known[d] \ Removed, x \in BirthsOf(o) PROVE x \in BirthsOf(new)
    OBVIOUS
  <2>1. PICK e \in o : e.birth = x
    BY SetsAre
  <2> QED
    BY <1>5, <2>1
<1>8. ASSUME NEW g \in new, g.birth \in known[d] \cup purged[d]
      PROVE  \E e \in o : e.birth = g.birth /\ (e.retired => g.retired)
  <2> SUFFICES ASSUME g \in remote[k].engrams, g.birth \notin BirthsOf(remote[i].engrams) PROVE FALSE
    BY <1>5
  <2>1. g.birth \in BirthsOf(remote[k].engrams)
    BY SetsAre
  <2>2. Pushed(g.birth)
    BY <2>1 DEF Pushed, PushedIn
  <2>3. PICK j \in 1..i : g.birth \in BirthsOf(remote[j].engrams)
    BY <1>1, <1>8, <2>2 DEF Device, Gone, SeenBy, Pushed
  <2>4. PICK f \in remote[j].engrams : f.birth = g.birth
    BY <2>3, SetsAre
  <2>5. j \in 1..Len(remote) /\ j <= i
    BY <1>1
  <2>6. f.birth \in BirthsOf(remote[i].engrams)
    BY <1>1, <2>1, <2>4, <2>5 DEF RemoteInv, RemoteIn
  <2> QED
    BY <2>4, <2>6
<1>9. Stays(new, purged[d], retired[d])
  <2> SUFFICES ASSUME NEW g \in new PROVE g.birth \notin purged[d] /\ (g.birth \in retired[d] => g.retired)
    BY DEF Stays
  <2>1. retired[d] \subseteq known[d]
    BY <1>1 DEF Device, Gone
  <2>2. CASE g.birth \in known[d] \cup purged[d]
    <3>1. PICK e \in o : e.birth = g.birth /\ (e.retired => g.retired)
      BY <1>8, <2>2
    <3> QED
      BY <3>1 DEF Stays
  <2> QED
    BY <2>1, <2>2
<1>10. \A x \in BirthsOf(new) : x \in BirthsOf(o) \/ Pushed(x)
  <2> TAKE x \in BirthsOf(new)
  <2>1. PICK g \in new : g.birth = x
    BY SetsAre
  <2>2. CASE \E e \in o : e.birth = g.birth
    BY <2>1, <2>2, SetsAre
  <2>3. CASE g \in remote[k].engrams
    BY <2>1, <2>3, SetsAre DEF Pushed, PushedIn
  <2> QED
    BY <1>5, <2>2, <2>3
<1>11. PrivateIn(engrams[d], H, o, remote, births)
  BY <1>1 DEF Device, Private
<1>12. \A h \in H : h.private /\ h.birth # 0 /\ h.birth \notin BirthsOf(o) /\ ~PushedIn(h.birth, remote)
  BY <1>11 DEF PrivateIn
<1>13. \A h \in H : h.birth \notin BirthsOf(new)
  BY <1>10, <1>12 DEF Pushed
<1>14. \A h \in H, e \in new : h.birth # e.birth
  BY <1>13, SetsAre
<1>15. \A e \in new : ~e.private
  BY <1>4 DEF Public
<1>16. SoundBy(H, births) /\ SoundBy(new, births)
  BY <1>4, <1>11 DEF PrivateIn, Sound
<1>17. PrivateIn(new, H, o, remote, births)
  BY <1>12, <1>14, <1>15, <1>16 DEF PrivateIn
<1>18. PrivateIn(new, H, new, remote, births)
  BY <1>12, <1>13, <1>14, <1>15, <1>16 DEF PrivateIn
<1>19. \A x \in BirthsOf(new) : x \in Met(d) \/ Pushed(x)
  BY <1>10 DEF Met
<1> QED
  BY <1>4, <1>5, <1>6, <1>7, <1>9, <1>17, <1>18, <1>19 DEF new

\* The largest number a device has met covers its working tree, and the commit it merges.
LEMMA TopCovers ==
  ASSUME GitTypes, GitTypes', NEW d \in Devices, Moving(d)
  PROVE  Below(engrams'[d], top'[d])
<1>1. Notice(d) /\ births' = births
  BY MovingFits
<1>2. (engrams[d] \in SUBSET Engram /\ hold[d].engrams \in SUBSET Engram)'
  BY Parts, PTL
<1>3. Below(engrams'[d], births') /\ Below(hold'[d].engrams, births') /\ births' \in Nat
  BY DEF GitTypes
<1>4. births <= births'
  BY <1>1, <1>3
<1> QED
  BY <1>1, <1>2, <1>3, <1>4, NoticeTypes

\* Once a pull is in the working tree, the device counts on from the largest number of the commit it took up.
LEMMA TopCoversTheirs ==
  ASSUME GitTypes, GitTypes', GitCore, NEW d \in Devices, Moving(d), NEW k \in 1..Len(remote),
         \A f \in remote[k].engrams : f \in engrams'[d] \/ f.id \in IdsOf(remote[base[d]].engrams)
  PROVE  Below(remote[k].engrams, top'[d])
<1> SUFFICES ASSUME NEW f \in remote[k].engrams PROVE f.id[1] <= top'[d]
  BY DEF Below
<1>1. CASE f \in engrams'[d]
  BY <1>1, TopCovers DEF Below
<1>2. CASE f.id \in IdsOf(remote[base[d]].engrams)
  <2>1. PICK c \in remote[base[d]].engrams : c.id = f.id
    BY <1>2, SetsAre
  <2>2. base[d] \in 1..Len(remote)
    BY Parts
  <2>3. Below(remote[base[d]].engrams, top[d])
    BY DEF GitCore, Device, Topped
  <2>4. Below(remote[base[d]].engrams, top'[d])
    BY <2>2, <2>3, CommitIs, TopGrows
  <2> QED
    BY <2>1, <2>4 DEF Below
<1> QED
  BY <1>1, <1>2

\* The pull merges the branch with the remote's last commit.
LEMMA CoreRebase ==
  ASSUME GitTypes, GitTypes', GitCore, NEW d \in Devices, Rebase(d), ~reused'
  PROVE  GitCore'
<1> DEFINE k == Len(remote)
           H == hold[d].engrams
           new == Merged(head[d].engrams, base[d], k)
<1>1. Moving(d)
  BY DEF Moving
<1>2. Device(d) /\ InStage(d)
  BY DEF GitCore, Device
<1>3. /\ engrams'[d] = MergeTrees(Base(d), head[d], Theirs).engrams
      /\ head'[d] = MergeTrees(Base(d), head[d], Theirs)
      /\ base'[d] = k /\ merging' = merging /\ torn' = torn /\ touched' = touched
      /\ hold' = hold /\ remote' = remote /\ births' = births /\ purged' = purged
      /\ syncing[d].at = "pull" /\ syncing'[d].at = "restore" /\ ~Reused(Base(d), Theirs)
  <2> DEFINE M == MergeTrees(Base(d), head[d], Theirs)
  <2>1. /\ engrams' = Put(engrams, d, M.engrams) /\ head' = Put(head, d, M) /\ base' = Put(base, d, k)
        /\ GoOn(d, "restore") /\ syncing[d].at = "pull" /\ merging' = merging /\ torn' = torn /\ touched' = touched
        /\ hold' = hold /\ remote' = remote /\ births' = births /\ purged' = purged
    BY DEF Rebase
  <2>2. ~Reused(Base(d), Theirs)
    BY Zenon DEF Rebase
  <2> HIDE DEF M
  <2>3. engrams'[d] = M.engrams /\ head'[d] = M /\ base'[d] = k
    BY <2>1, AreFunctions
  <2>4. syncing'[d].at = "restore"
    BY <2>1, AreFunctions DEF GoOn, SyncAt
  <2> QED
    BY <2>1, <2>2, <2>3, <2>4 DEF M
<1>4. base[d] \in 1..Len(remote) /\ k \in 1..Len(remote) /\ base[d] <= k /\ Len(remote) \in Nat
  BY Parts
<1>5. MergeTrees(Base(d), head[d], Theirs).engrams = new
  <2>1. Base(d) \in Tree /\ Theirs \in Tree /\ head[d] \in Tree /\ Below(head[d].engrams, births) /\ Below(Theirs.engrams, births)
    BY <1>4, Parts, CommitIs DEF Base, Theirs, GitTypes
  <2> QED
    BY <2>1, MergeTypes DEF Base, Theirs, Merged, MergeMap
<1>6. /\ merging[d] = 0 /\ d \notin torn /\ d \notin touched /\ engrams[d] = head[d].engrams
  BY <1>2, <1>3 DEF InStage, Pulling
<1>7. Bound(d) = base[d] /\ Stand(d)' = k /\ Bound(d)' = k /\ ~Abortable(d)'
  BY <1>3, <1>6 DEF Bound, Stand, Abortable
<1>8. /\ known[d] \ Removed \subseteq BirthsOf(head[d].engrams) \cup BirthsOf(H)
      /\ Stays(head[d].engrams, purged[d], retired[d])
  BY <1>2, <1>6 DEF Device, Kept, Gone
<1>9. ~Reused(remote[base[d]], remote[k])
  BY <1>3 DEF Base, Theirs
<1>10. /\ new \in SUBSET Engram /\ Stands(new, k) /\ PushedEngrams(new) = new
       /\ known[d] \ Removed \subseteq BirthsOf(new) \cup BirthsOf(H)
       /\ Stays(new, purged[d], retired[d])
       /\ PrivateIn(new, H, new, remote, births)
       /\ \A x \in BirthsOf(new) : x \in Met(d) \/ Pushed(x)
       /\ \A f \in remote[k].engrams : f \in new \/ f.id \in IdsOf(remote[base[d]].engrams)
  BY <1>4, <1>7, <1>8, <1>9, MergeKeeps
<1> HIDE DEF new
<1>11. engrams'[d] = new /\ head'[d].engrams = new
  BY <1>3, <1>5
<1>12. InStage(d)'
  BY <1>2, <1>3, <1>6, <1>10, <1>11 DEF InStage, Pulling, Merging, Recovering
<1>13. Removed' = Removed
  BY <1>3 DEF Removed
<1>14. Trees(d)'
  BY <1>3, <1>7, <1>10, <1>11, <1>13 DEF Trees, Stands
<1>15. Private(d)'
  BY <1>3, <1>10, <1>11 DEF Private
<1>16. Below(new, top'[d]) /\ Below(remote[k].engrams, top'[d])
  BY <1>1, <1>4, <1>10, <1>11, TopCovers, TopCoversTheirs
<1> HIDE DEF k
<1> QED
  BY <1>1, <1>3, <1>4, <1>7, <1>10, <1>11, <1>12, <1>14, <1>15, <1>16, Moved

\* The records of a merge under way are merged.
LEMMA CoreRecords ==
  ASSUME GitTypes, GitTypes', GitCore, NEW d \in Devices, MergeRecords(d), ~reused'
  PROVE  GitCore'
<1> DEFINE k == merging[d]
           H == hold[d].engrams
           new == Merged(head[d].engrams, base[d], k)
<1>1. Moving(d)
  BY DEF Moving
<1>2. Device(d) /\ InStage(d)
  BY DEF GitCore, Device
<1>3. /\ engrams'[d] = MergeTrees(Base(d), head[d], remote[k]).engrams
      /\ head' = head /\ base' = base /\ merging' = merging /\ torn' = torn \ {d} /\ touched' = touched
      /\ hold' = hold /\ remote' = remote /\ births' = births /\ purged' = purged
      /\ syncing[d].at = "merge" /\ syncing'[d].at = "saveRenames" /\ ~Reused(Base(d), remote[k])
  <2> DEFINE M == MergeTrees(Base(d), head[d], remote[merging[d]])
             map == MergeRenames(Base(d).engrams, head[d].engrams, remote[merging[d]].engrams)
  <2>1. /\ engrams' = Put(engrams, d, M.engrams) /\ SyncAt(d, "saveRenames", map)
        /\ head' = head /\ base' = base /\ merging' = merging /\ torn' = torn \ {d} /\ touched' = touched
        /\ hold' = hold /\ remote' = remote /\ births' = births /\ purged' = purged /\ syncing[d].at = "merge"
    BY DEF MergeRecords
  <2>2. ~Reused(Base(d), remote[merging[d]])
    BY Zenon DEF MergeRecords
  <2> HIDE DEF M, map
  <2>3. engrams'[d] = M.engrams
    BY <2>1, AreFunctions
  <2>4. syncing'[d].at = "saveRenames"
    BY <2>1, AreFunctions DEF SyncAt
  <2> QED
    BY <2>1, <2>2, <2>3, <2>4 DEF M
<1>4. k # 0 /\ d \notin touched /\ d \in torn /\ base[d] <= k
  BY <1>2, <1>3 DEF InStage, Merging
<1>5. base[d] \in 1..Len(remote) /\ k \in 1..Len(remote) /\ Len(remote) \in Nat
  BY <1>4, Parts
<1>6. MergeTrees(Base(d), head[d], remote[k]).engrams = new
  <2>1. Base(d) \in Tree /\ remote[k] \in Tree /\ head[d] \in Tree /\ Below(head[d].engrams, births) /\ Below(remote[k].engrams, births)
    BY <1>5, Parts, CommitIs DEF Base, GitTypes
  <2> QED
    BY <2>1, MergeTypes DEF Base, Merged, MergeMap
<1>7. Bound(d) = base[d] /\ Stand(d)' = k /\ Bound(d)' = base[d] /\ Abortable(d) /\ Abortable(d)'
  BY <1>3, <1>4 DEF Bound, Stand, Abortable
<1>8. /\ known[d] \ Removed \subseteq BirthsOf(head[d].engrams) \cup BirthsOf(H)
      /\ Stays(head[d].engrams, purged[d], retired[d])
  BY <1>2, <1>7 DEF Device, Kept, Gone
<1>9. ~Reused(remote[base[d]], remote[k])
  BY <1>3 DEF Base
<1>10. /\ new \in SUBSET Engram /\ Stands(new, k) /\ PushedEngrams(new) = new
       /\ known[d] \ Removed \subseteq BirthsOf(new) \cup BirthsOf(H)
       /\ Stays(new, purged[d], retired[d])
       /\ PrivateIn(new, H, head[d].engrams, remote, births)
       /\ \A x \in BirthsOf(new) : x \in Met(d) \/ Pushed(x)
       /\ \A f \in remote[k].engrams : f \in new \/ f.id \in IdsOf(remote[base[d]].engrams)
  BY <1>4, <1>5, <1>7, <1>8, <1>9, MergeKeeps
<1> HIDE DEF new
<1>11. engrams'[d] = new
  BY <1>3, <1>6
<1>12. InStage(d)'
  <2>1. \A e \in new : ~e.private
    BY <1>10 DEF Stands, StandsIn, Public
  <2>2. d \notin torn'
    BY <1>3
  <2> QED
    BY <1>2, <1>3, <1>4, <1>11, <2>1, <2>2 DEF InStage, Pulling, Merging, Recovering
<1>13. Removed' = Removed
  BY <1>3 DEF Removed
<1>14. Stands(head[d].engrams, base[d])
  BY <1>2 DEF Device, Trees
<1>15. Trees(d)'
  BY <1>3, <1>7, <1>10, <1>11, <1>13, <1>14 DEF Trees, Stands
<1>16. Private(d)'
  BY <1>3, <1>10, <1>11 DEF Private
<1>17. Below(remote[k].engrams, top'[d])
  BY <1>1, <1>5, <1>10, <1>11, TopCoversTheirs
<1>18. Below(head[d].engrams, top'[d]) /\ Below(remote[base[d]].engrams, top'[d])
  <2>1. Below(head[d].engrams, top[d]) /\ Below(remote[base[d]].engrams, top[d])
    BY <1>2 DEF Device, Topped
  <2> QED
    BY <1>1, <1>5, <2>1, TopGrows, Parts, CommitIs
<1>19. \A x \in BirthsOf(head[d].engrams) : x \in Met(d)
  BY DEF Met
<1> HIDE DEF k
<1> QED
  BY <1>1, <1>3, <1>5, <1>7, <1>8, <1>10, <1>11, <1>12, <1>15, <1>16, <1>17, <1>18, <1>19, Moved

----------------------------------------------------------------------------
(* The user's writes *)

\* A write of the store keeps the invariant if the records it leaves are as they should be.
LEMMA CoreSaved ==
  ASSUME GitTypes, GitTypes', GitCore, NEW d \in Devices, NEW E, NEW P, Saved(d, E, P), births' \in {births, births + 1},
         purged[d] \subseteq P,
         SoundBy(E, births'),
         \A e \in E : e.private => e.birth # 0 /\ e.birth \notin BirthsOf(head[d].engrams) /\ ~PushedIn(e.birth, remote),
         StandsIn(PushedEngrams(E), Stand(d), remote, births', Removed'),
         known[d] \ Removed' \subseteq BirthsOf(E), Stays(E, P, retired[d]),
         \A x \in BirthsOf(E) : x \in Met(d) \/ (x = births /\ births' = births + 1),
         \A x \in P : x \in purged[d] \/ x \in BirthsOf(Readable(d))
  PROVE  GitCore'
<1> DEFINE S == head[d].engrams
<1>1. E \in SUBSET Engram /\ P \in SUBSET Nat /\ Below(E, births') /\ SaveStore(d, E) /\ purged' = Put(purged, d, P)
  BY DEF Saved
<1>2. Only(d) /\ engrams'[d] = E /\ hold'[d].engrams = {} /\ purged'[d] = P
  BY <1>1, SaveFits
<1>3. /\ notes' = notes /\ head' = head /\ base' = base /\ merging' = merging /\ torn' = torn /\ syncing' = syncing
      /\ remote' = remote /\ Notice(d) /\ d \notin torn /\ syncing[d].at = "idle"
      /\ touched' = (IF merging[d] # 0 THEN touched \cup {d} ELSE touched)
  BY <1>1 DEF SaveStore
<1>4. Device(d) /\ InStage(d) /\ RemoteInv /\ Owned
  BY DEF GitCore, Device
<1>5. /\ d \in touched' <=> merging[d] # 0
      /\ d \in touched => merging[d] # 0
      /\ merging[d] # 0 => base[d] <= merging[d]
  BY <1>3, <1>4 DEF InStage
<1>6. InStage(d)'
  BY <1>3, <1>5 DEF InStage, Pulling, Merging, Recovering
<1>7. /\ Stand(d)' = Stand(d) /\ Bound(d)' = Stand(d) /\ ~Abortable(d)'
      /\ Bound(d) <= Stand(d) /\ Bound(d) \in Nat /\ Stand(d) \in 1..Len(remote)
  <2>1. base[d] \in 1..Len(remote) /\ merging[d] \in 0..Len(remote) /\ Len(remote) \in Nat
    BY Parts
  <2>2. Stand(d)' = Stand(d) /\ Bound(d)' = Stand(d) /\ ~Abortable(d)'
    BY <1>3, <1>5 DEF Stand, Bound, Abortable
  <2>3. Stand(d) = (IF merging[d] # 0 THEN merging[d] ELSE base[d])
    BY <1>3 DEF Stand
  <2> QED
    BY <1>5, <2>1, <2>2, <2>3 DEF Bound
<1>8. births \in Nat /\ births' \in Nat /\ births <= births' /\ S \in SUBSET Engram
  <2>1. births \in Nat /\ S \in SUBSET Engram
    BY Parts
  <2> QED
    BY <2>1
<1>9. Removed \subseteq Removed'
  BY <1>2, RemovedGrows
<1>10. Trees(d)'
  <2>1. StandsIn(S, base[d], remote, births, Removed)
    BY <1>4 DEF Device, Trees, Stands
  <2>2. StandsIn(S, base[d], remote, births', Removed')
    BY <1>8, <1>9, <2>1, StandsGrows
  <2> QED
    BY <1>2, <1>3, <1>7, <2>2 DEF Trees, Stands
<1>11. Private(d)'
  <2>1. PrivateIn(E, {}, S, remote, births')
    BY DEF PrivateIn, SoundBy
  <2> QED
    BY <1>2, <1>3, <2>1 DEF Private
<1>12. /\ retired[d] \subseteq known[d] /\ SeenBy(known[d], remote, Bound(d)) /\ SeenBy(purged[d], remote, Bound(d))
  BY <1>4 DEF Device, Gone
<1>13. SeenBy(known[d], remote, Stand(d)) /\ SeenBy(purged[d], remote, Stand(d))
  BY <1>7, <1>12, SeenGrows
<1>14. BirthsOf(Readable(d)) = BirthsOf(engrams[d]) \cup BirthsOf(hold[d].engrams)
  BY ReadableIs, PutBackIn, Parts
<1>15. SeenBy(P, remote, Stand(d))
  <2> SUFFICES ASSUME NEW x \in P, x \in BirthsOf(Readable(d)), PushedIn(x, remote)
               PROVE  \E i \in 1..Stand(d) : x \in BirthsOf(remote[i].engrams)
    BY <1>13 DEF SeenBy
  <2>1. x \in BirthsOf(remote[Stand(d)].engrams)
    BY <1>4, <1>14, SeenIs DEF Device, Pushed
  <2>2. Stand(d) \in 1..Stand(d)
    BY <1>7
  <2> QED
    BY <2>1, <2>2
<1>16. Stays({}, P, retired[d])
  BY DEF Stays
<1>17. /\ Kept(d)' /\ Gone(d)'
       /\ known'[d] \subseteq known[d] \cup BirthsOf(engrams'[d]) \cup BirthsOf(hold'[d].engrams)
       /\ top[d] <= top'[d] /\ Below(engrams'[d], top'[d]) /\ Below(hold'[d].engrams, top'[d])
  BY <1>2, <1>3, <1>6, <1>7, <1>8, <1>10, <1>11, <1>12, <1>13, <1>15, <1>16, Noticed
<1>18. Topped(d)'
  <2>1. Topped(d) /\ top[d] \in Nat /\ top'[d] \in Nat /\ top[d] <= top'[d]
    BY <1>4, <1>17 DEF Device, GitTypes
  <2>2. \A T \in SUBSET Engram : Below(T, top[d]) => Below(T, top'[d])
    BY <2>1, FreshIn DEF Below
  <2>3. Below(S, top'[d]) /\ Below(remote[base[d]].engrams, top'[d]) /\ Below(remote[Stand(d)].engrams, top'[d])
    BY <1>7, <1>8, <2>1, <2>2, Parts, CommitIs DEF Topped
  <2> QED
    BY <1>3, <1>7, <1>17, <2>3 DEF Topped
<1>19. Device(d)'
  BY <1>6, <1>10, <1>11, <1>17, <1>18 DEF Device
<1>20. BirthsOf({}) = {}
  BY DEF BirthsOf
<1>21. \A x \in Met(d)' : x \in Met(d) \/ (x = births /\ births' = births + 1)
  <2>1. \A x \in Met(d)' : x \in known[d] \cup BirthsOf(E) \cup P \cup BirthsOf(S)
    BY <1>2, <1>3, <1>17, <1>20 DEF Met
  <2> QED
    BY <1>14, <2>1 DEF Met
<1>22. \A x \in Met(d)' : x < births' /\ (x \in Met(d) \/ Pushed(x) \/ ~(x < births))
  <2> TAKE x \in Met(d)'
  <2>1. CASE x \in Met(d)
    <3>1. x < births
      BY <1>4, <2>1 DEF Owned
    <3>2. x \in Nat
      <4>1. BirthsOf(engrams[d]) \in SUBSET Nat /\ BirthsOf(hold[d].engrams) \in SUBSET Nat /\ BirthsOf(S) \in SUBSET Nat
        BY Parts DEF BirthsOf, Engram
      <4> QED
        BY <2>1, <4>1, Parts DEF Met
    <3> QED
      BY <1>8, <2>1, <3>1, <3>2
  <2>2. CASE x = births /\ births' = births + 1
    BY <1>8, <2>2
  <2> QED
    BY <1>21, <2>1, <2>2
<1>23. purged[d] \subseteq purged'[d]
  BY <1>2
<1> QED
  BY <1>2, <1>3, <1>19, <1>22, <1>23, CoreStep

\* What a device can read: each memory once, what is pushed of it on its commit, nothing gone, all that is known.
LEMMA Reads ==
  ASSUME GitTypes, GitCore, NEW d \in Devices
  PROVE  LET R == Readable(d) IN
         /\ R \in SUBSET Engram /\ SoundBy(R, births) /\ Below(R, top[d]) /\ PushedEngrams(R) = PushedEngrams(engrams[d])
         /\ \A e \in R : e.private => e.birth # 0 /\ e.birth \notin BirthsOf(head[d].engrams) /\ ~PushedIn(e.birth, remote)
         /\ StandsIn(PushedEngrams(R), Stand(d), remote, births, Removed)
         /\ known[d] \ Removed \subseteq BirthsOf(R) /\ Stays(R, purged[d], retired[d]) /\ BirthsOf(R) \subseteq Met(d)
<1> DEFINE E == engrams[d]
           H == hold[d].engrams
           S == head[d].engrams
           R == PutBack(E, H)
<1>1. Device(d)
  BY DEF GitCore
<1>2. E \in SUBSET Engram /\ H \in SUBSET Engram
  BY Parts
<1>3. PrivateIn(E, H, S, remote, births)
  BY <1>1 DEF Device, Private
<1>4. Readable(d) = R /\ R \in SUBSET Engram /\ BirthsOf(R) = BirthsOf(E) \cup BirthsOf(H)
  BY <1>2, PutBackIn DEF Readable
<1>5. SoundBy(R, births)
  <2>1. SoundBy(E, births) /\ SoundBy(H, births) /\ (\A h \in H : h.birth # 0)
    BY <1>3 DEF PrivateIn
  <2>2. \A h \in H, e \in E : h.birth = e.birth => e = h \/ (e = [h EXCEPT !.id = FreshId(h)] /\ h.id \in IdsOf(E))
    BY <1>3 DEF PrivateIn
  <2> QED
    BY <1>2, <2>1, <2>2, PutBackSound DEF Sound
<1>6. Below(R, top[d])
  <2>1. Below(E, top[d]) /\ Below(H, top[d])
    BY <1>1 DEF Device, Topped
  <2> QED
    BY <1>2, <2>1, PutBackBelow
<1>7. PushedEngrams(R) = PushedEngrams(E)
  BY <1>2, <1>3, PutBackPublic DEF PrivateIn
<1>8. \A r \in R : r \in E \/ \E h \in H : r.birth = h.birth /\ r.retired = h.retired
  BY <1>2, PutBackFrom
<1>9. \A e \in R : e.private => e.birth # 0 /\ e.birth \notin BirthsOf(S) /\ ~PushedIn(e.birth, remote)
  BY <1>3, <1>8 DEF PrivateIn
<1>10. Stays(R, purged[d], retired[d])
  <2>1. Stays(E, purged[d], retired[d]) /\ Stays(H, purged[d], retired[d])
    BY <1>1 DEF Device, Gone
  <2> QED
    BY <1>8, <2>1 DEF Stays
<1>11. StandsIn(PushedEngrams(E), Stand(d), remote, births, Removed)
  BY <1>1 DEF Device, Trees, Stands
<1>12. known[d] \ Removed \subseteq BirthsOf(R)
  BY <1>1, <1>4 DEF Device, Kept
<1>13. BirthsOf(R) \subseteq Met(d)
  BY <1>4 DEF Met
<1> HIDE DEF R
<1> QED
  BY <1>4, <1>5, <1>6, <1>7, <1>9, <1>10, <1>11, <1>12, <1>13

\* A new engram: neither its birth nor its id is anybody's.
LEMMA CoreLearn ==
  ASSUME GitTypes, GitTypes', GitCore, NEW d \in Devices, NEW private \in BOOLEAN, Learn(d, private)
  PROVE  GitCore'
<1> DEFINE R == Readable(d)
           S == PushedEngrams(R)
           n == NewEngram(d, private)
           k == Stand(d)
<1>1. Saved(d, R \cup {n}, purged[d]) /\ births' = births + 1 /\ n \in Engram
  BY LearnIs
<1>2. /\ R \in SUBSET Engram /\ SoundBy(R, births) /\ Below(R, top[d])
      /\ \A e \in R : e.private => e.birth # 0 /\ e.birth \notin BirthsOf(head[d].engrams) /\ ~PushedIn(e.birth, remote)
      /\ StandsIn(S, k, remote, births, Removed)
      /\ known[d] \ Removed \subseteq BirthsOf(R) /\ Stays(R, purged[d], retired[d]) /\ BirthsOf(R) \subseteq Met(d)
  BY Reads
<1>3. /\ n.id = <<top[d] + 1, 0>> /\ n.birth = births /\ n.private = private /\ n.id[1] = top[d] + 1 /\ n.id[2] = 0
  BY DEF NewEngram
<1>4. Device(d) /\ InStage(d) /\ RemoteInv /\ Owned
  BY DEF GitCore, Device
<1>5. births \in Nat /\ top[d] \in Nat /\ top[d] <= births /\ known[d] \in SUBSET Nat
  BY Parts
<1> HIDE DEF R, n
<1>6. \A e \in R : e.id[1] \in Nat /\ e.birth \in Nat /\ e.birth < births /\ e.id # n.id /\ e.birth # n.birth
  <2> TAKE e \in R
  <2>1. e.id[1] \in Nat /\ e.birth \in Nat
    BY <1>2, FreshIn DEF Engram
  <2>2. e.birth < births /\ e.id[1] <= top[d]
    BY <1>2 DEF SoundBy, Below
  <2> QED
    BY <1>3, <1>5, <2>1, <2>2
<1>7. SoundBy(R \cup {n}, births')
  <2>1. SoundBy(R, births')
    BY <1>1, <1>2, <1>5, SoundGrows
  <2>2. n.id[2] \in {0, n.birth} /\ n.id[1] <= births' /\ n.birth < births'
    BY <1>1, <1>3, <1>5
  <2> QED
    BY <1>6, <2>1, <2>2 DEF SoundBy
<1>8. \A x : PushedIn(x, remote) => x < births
  BY <1>4, PushedBorn DEF Pushed
<1>9. \A x \in BirthsOf(head[d].engrams) : x < births
  BY <1>4 DEF Owned, Met
<1>10. births # 0
  <2>1. PushedIn(0, remote)
    BY <1>4 DEF RemoteInv, RemoteIn
  <2> QED
    BY <1>5, <1>8, <2>1
<1>11. ~(births < births)
  BY <1>5
<1>12. \A e \in R \cup {n} : e.private => e.birth # 0 /\ e.birth \notin BirthsOf(head[d].engrams) /\ ~PushedIn(e.birth, remote)
  BY <1>2, <1>3, <1>8, <1>9, <1>10, <1>11
<1>13. d \notin torn /\ syncing[d].at = "idle"
  BY <1>1 DEF Saved, SaveStore
<1>14. k \in 1..Len(remote)
  <2>1. base[d] \in 1..Len(remote) /\ merging[d] \in 0..Len(remote)
    BY Parts
  <2> QED
    BY <2>1 DEF Stand
<1>15. purged[d] \subseteq purged'[d] /\ Only(d)
  <2>1. R \cup {n} \in SUBSET Engram /\ purged[d] \in SUBSET Nat /\ SaveStore(d, R \cup {n}) /\ purged' = Put(purged, d, purged[d])
        /\ Below(R \cup {n}, births')
    BY <1>1 DEF Saved
  <2> QED
    BY <1>1, <2>1, SaveFits
<1>16. Removed \subseteq Removed'
  BY <1>15, RemovedGrows
<1>17. S \in SUBSET Engram /\ S \subseteq R
  BY <1>2 DEF PushedEngrams
<1>18. StandsIn(S, k, remote, births', Removed')
  BY <1>1, <1>2, <1>5, <1>16, <1>17, StandsGrows
<1>19. PushedEngrams(R \cup {n}) = IF private THEN S ELSE S \cup {n}
  BY <1>3 DEF PushedEngrams
<1>20. StandsIn(S \cup {n}, k, remote, births', Removed') \/ private
  <2> SUFFICES ASSUME ~private PROVE StandsIn(S \cup {n}, k, remote, births', Removed')
    OBVIOUS
  <2> HIDE DEF S, k
  <2>1. SoundBy(S \cup {n}, births')
    BY <1>7, <1>17 DEF SoundBy
  <2>2. Public(S \cup {n})
    BY <1>3, <1>18 DEF StandsIn, Public
  <2>3. \A i \in 1..Len(remote) : \A f \in remote[i].engrams : f.birth # n.birth
    <3>1. \A i \in 1..Len(remote) : \A f \in remote[i].engrams : f.birth < births
      BY <1>4 DEF RemoteInv, RemoteIn, SoundBy
    <3> QED
      BY <1>3, <1>11, <3>1
  <2>4. \A f \in remote[k].engrams : f.id # n.id
    <3>1. Below(remote[k].engrams, top[d])
      BY <1>4 DEF Device, Topped, k
    <3>2. \A f \in remote[k].engrams : f.id[1] \in Nat
      BY <1>14, CommitIs, FreshIn
    <3> QED
      BY <1>3, <1>5, <3>1, <3>2 DEF Below
  <2>5. \A x \in BirthsOf(S) : x \in BirthsOf(S \cup {n})
    BY DEF BirthsOf
  <2> QED
    BY <1>14, <1>18, <2>1, <2>2, <2>3, <2>4, <2>5 DEF StandsIn
<1>21. StandsIn(PushedEngrams(R \cup {n}), k, remote, births', Removed')
  BY <1>18, <1>19, <1>20
<1>22. \A x : x \in BirthsOf(R \cup {n}) <=> x \in BirthsOf(R) \/ x = births
  BY <1>3 DEF BirthsOf
<1>23. known[d] \ Removed' \subseteq BirthsOf(R \cup {n})
  BY <1>2, <1>16, <1>22
<1>24. Stays(R \cup {n}, purged[d], retired[d])
  <2>1. births \notin purged[d] /\ births \notin known[d]
    BY <1>4, <1>11 DEF Owned, Met
  <2>2. retired[d] \subseteq known[d]
    BY <1>4 DEF Device, Gone
  <2> QED
    BY <1>2, <1>3, <2>1, <2>2 DEF Stays
<1>25. \A x \in BirthsOf(R \cup {n}) : x \in Met(d) \/ (x = births /\ births' = births + 1)
  BY <1>1, <1>2, <1>22
<1> HIDE DEF k
<1> QED
  BY <1>1, <1>7, <1>12, <1>21, <1>23, <1>24, <1>25, CoreSaved DEF k

\* A change of an engram.
LEMMA CoreChange ==
  ASSUME GitTypes, GitTypes', GitCore, NEW d \in Devices, NEW e \in Readable(d), Edit(d, e) \/ Retire(d, e)
  PROVE  GitCore'
<1> DEFINE R == Readable(d)
           k == Stand(d)
<1>1. PICK f : Changes(f, e) /\ Saved(d, (R \ {e}) \cup {f}, purged[d]) /\ births' = births
  BY ChangeIs
<1> DEFINE T == (R \ {e}) \cup {f}
<1>2. /\ R \in SUBSET Engram /\ SoundBy(R, births)
      /\ \A r \in R : r.private => r.birth # 0 /\ r.birth \notin BirthsOf(head[d].engrams) /\ ~PushedIn(r.birth, remote)
      /\ StandsIn(PushedEngrams(R), k, remote, births, Removed)
      /\ known[d] \ Removed \subseteq BirthsOf(R) /\ Stays(R, purged[d], retired[d]) /\ BirthsOf(R) \subseteq Met(d)
  BY Reads
<1>3. f \in Engram /\ f.id = e.id /\ f.birth = e.birth /\ f.private = e.private /\ (e.retired => f.retired)
  BY <1>1 DEF Changes
<1>4. Only(d) /\ purged'[d] = purged[d] /\ purged' = Put(purged, d, purged[d]) /\ T \in SUBSET Engram
  <2>1. T \in SUBSET Engram /\ purged[d] \in SUBSET Nat /\ SaveStore(d, T) /\ purged' = Put(purged, d, purged[d])
        /\ Below(T, births')
    BY <1>1 DEF Saved
  <2> QED
    BY <1>1, <2>1, SaveFits
<1>5. purged' = purged /\ Removed' = Removed
  <2>1. purged' = purged
    BY <1>4, AreFunctions
  <2> QED
    BY <2>1 DEF Removed
<1> HIDE DEF R
<1>6. e \in R
  BY DEF R
<1>7. \A r \in T : \E q \in R : r.id = q.id /\ r.birth = q.birth /\ r.private = q.private /\ (q.retired => r.retired)
                              /\ (q = e <=> r = f)
  <2>1. \A r \in R \ {e} : r # f
    BY <1>2, <1>3, <1>6 DEF SoundBy
  <2> QED
    BY <1>3, <1>6, <2>1
<1>8. \A q \in R : \E r \in T : r.id = q.id /\ r.birth = q.birth /\ r.private = q.private /\ (q.retired => r.retired)
  BY <1>3, <1>6
<1>9. SoundBy(T, births')
  <2>1. \A r, s \in T : r.id = s.id \/ r.birth = s.birth => r = s
    BY <1>2, <1>3, <1>6 DEF SoundBy
  <2> QED
    BY <1>1, <1>2, <1>7, <2>1 DEF SoundBy
<1>10. \A r \in T : r.private => r.birth # 0 /\ r.birth \notin BirthsOf(head[d].engrams) /\ ~PushedIn(r.birth, remote)
  BY <1>2, <1>7
<1>11. \A x : x \in BirthsOf(T) <=> x \in BirthsOf(R)
  BY <1>7, <1>8, SetsAre
<1>12. StandsIn(PushedEngrams(T), k, remote, births', Removed')
  <2> DEFINE P == PushedEngrams(R)
             Q == PushedEngrams(T)
  <2>1. \A r \in Q : \E q \in P : r.id = q.id /\ r.birth = q.birth /\ (q.retired => r.retired)
    BY <1>7 DEF PushedEngrams
  <2>2. \A q \in P : \E r \in Q : r.birth = q.birth
    BY <1>8 DEF PushedEngrams
  <2>3. Q \subseteq T /\ Public(Q)
    BY DEF PushedEngrams, Public
  <2>4. SoundBy(Q, births')
    BY <1>9, <2>3 DEF SoundBy
  <2> HIDE DEF P, Q, k
  <2>5. \A x : x \in BirthsOf(P) => x \in BirthsOf(Q)
    BY <2>2, SetsAre
  <2>6. StandsIn(P, k, remote, births, Removed)
    BY <1>2 DEF P
  <2>7. \A r \in Q : \A i \in 1..Len(remote) : \A g \in remote[i].engrams : r.birth = g.birth =>
          r.id = g.id /\ r.birth \in BirthsOf(remote[k].engrams)
    BY <2>1, <2>6 DEF StandsIn
  <2>8. \A r \in Q : \A g \in remote[k].engrams :
          (r.id = g.id => r.birth = g.birth) /\ (r.birth = g.birth /\ g.retired => r.retired)
    BY <2>1, <2>6 DEF StandsIn
  <2>9. \A g \in remote[k].engrams : g.birth \in Removed' \/ g.birth \in BirthsOf(Q)
    BY <1>5, <2>5, <2>6 DEF StandsIn
  <2>10. StandsIn(Q, k, remote, births', Removed')
    BY <2>3, <2>4, <2>7, <2>8, <2>9 DEF StandsIn
  <2> QED
    BY <2>10 DEF Q
<1>13. Stays(T, purged[d], retired[d])
  BY <1>2, <1>7 DEF Stays
<1>14. known[d] \ Removed' \subseteq BirthsOf(T) /\ \A x \in BirthsOf(T) : x \in Met(d)
  BY <1>2, <1>5, <1>11
<1> HIDE DEF T, k
<1>15. Saved(d, T, purged[d])
  BY <1>1 DEF T, R
<1> QED
  BY <1>1, <1>9, <1>10, <1>12, <1>13, <1>14, <1>15, CoreSaved DEF k

\* A removal.
LEMMA CorePurge ==
  ASSUME GitTypes, GitTypes', GitCore, NEW d \in Devices, NEW e \in Readable(d), Purge(d, e)
  PROVE  GitCore'
<1> DEFINE R == Readable(d)
           k == Stand(d)
           T == R \ {e}
           P == purged[d] \cup {e.birth}
<1>1. Saved(d, T, P) /\ births' = births
  BY PurgeIs
<1>2. /\ R \in SUBSET Engram /\ SoundBy(R, births)
      /\ \A r \in R : r.private => r.birth # 0 /\ r.birth \notin BirthsOf(head[d].engrams) /\ ~PushedIn(r.birth, remote)
      /\ StandsIn(PushedEngrams(R), k, remote, births, Removed)
      /\ known[d] \ Removed \subseteq BirthsOf(R) /\ Stays(R, purged[d], retired[d]) /\ BirthsOf(R) \subseteq Met(d)
  BY Reads
<1>3. Only(d) /\ purged'[d] = P
  <2>1. T \in SUBSET Engram /\ P \in SUBSET Nat /\ SaveStore(d, T) /\ purged' = Put(purged, d, P) /\ Below(T, births')
    BY <1>1 DEF Saved
  <2> HIDE DEF T, P
  <2> QED
    BY <1>1, <2>1, SaveFits
<1>4. Removed \subseteq Removed'
  BY <1>3, RemovedGrows
<1>5. e.birth \in Removed'
  BY <1>3 DEF Removed
<1> HIDE DEF R
<1>6. e \in R
  BY DEF R
<1>7. SoundBy(T, births')
  BY <1>1, <1>2 DEF SoundBy
<1>8. \A x \in BirthsOf(R) : x = e.birth \/ x \in BirthsOf(T)
  BY DEF BirthsOf
<1>9. StandsIn(PushedEngrams(T), k, remote, births', Removed')
  <2> DEFINE Q == PushedEngrams(R)
             U == PushedEngrams(T)
  <2>1. U \subseteq Q /\ U \subseteq T /\ Public(U)
    BY DEF PushedEngrams, Public
  <2>2. \A x \in BirthsOf(Q) : x = e.birth \/ x \in BirthsOf(U)
    BY DEF PushedEngrams, BirthsOf
  <2>3. SoundBy(U, births')
    BY <1>7, <2>1 DEF SoundBy
  <2> HIDE DEF Q, U, k
  <2>4. StandsIn(Q, k, remote, births, Removed)
    BY <1>2 DEF Q
  <2>5. StandsIn(U, k, remote, births', Removed')
    BY <1>4, <1>5, <2>1, <2>2, <2>3, <2>4 DEF StandsIn
  <2> QED
    BY <2>5 DEF U
<1>10. known[d] \ Removed' \subseteq BirthsOf(T)
  BY <1>2, <1>4, <1>5, <1>8
<1>11. Stays(T, P, retired[d])
  <2>1. \A r \in T : r.birth # e.birth
    BY <1>2, <1>6 DEF SoundBy
  <2> QED
    BY <1>2, <2>1 DEF Stays
<1>12. \A x \in BirthsOf(T) : x \in Met(d)
  BY <1>2 DEF BirthsOf
<1>13. \A x \in P : x \in purged[d] \/ x \in BirthsOf(R)
  BY <1>6, SetsAre
<1>14. \A r \in T : r.private => r.birth # 0 /\ r.birth \notin BirthsOf(head[d].engrams) /\ ~PushedIn(r.birth, remote)
  BY <1>2
<1> HIDE DEF T, P, k
<1>15. purged[d] \subseteq P
  BY DEF P
<1> QED
  BY <1>1, <1>7, <1>9, <1>10, <1>11, <1>12, <1>13, <1>14, <1>15, CoreSaved DEF k, R

----------------------------------------------------------------------------
(* The steps that move no engram of the store *)

\* Such a step keeps the invariant if the stage is as it should be, and so is what is held.
LEMMA Still ==
  ASSUME GitTypes, GitTypes', GitCore, NEW d \in Devices, Quiet(d), InStage(d)', Stand(d)' = Stand(d), Bound(d)' = Bound(d),
         PrivateIn(engrams[d], hold'[d].engrams, head[d].engrams, remote, births),
         known[d] \ Removed \subseteq BirthsOf(engrams[d]) \cup BirthsOf(hold'[d].engrams),
         Abortable(d)' => known[d] \ Removed \subseteq BirthsOf(head[d].engrams) \cup BirthsOf(hold'[d].engrams),
         Abortable(d)' => Stays(head[d].engrams, purged[d], retired[d]),
         Below(hold'[d].engrams, top[d]), Stays(hold'[d].engrams, purged[d], retired[d]),
         BirthsOf(hold'[d].engrams) \subseteq BirthsOf(engrams[d]) \cup BirthsOf(hold[d].engrams)
  PROVE  GitCore'
<1>1. /\ Only(d) /\ engrams' = engrams /\ head' = head /\ base' = base /\ purged' = purged /\ remote' = remote /\ births' = births
      /\ UNCHANGED unnoticed
  BY QuietFits
<1>2. known' = known /\ retired' = retired /\ top' = top /\ Removed' = Removed
  BY <1>1 DEF unnoticed, Removed
<1>3. Device(d)
  BY DEF GitCore
<1>4. Trees(d)'
  BY <1>1, <1>2, <1>3 DEF Device, Trees, Stands
<1>5. Private(d)'
  BY <1>1 DEF Private
<1>6. Topped(d)'
  BY <1>1, <1>2, <1>3 DEF Device, Topped
<1>7. Kept(d)'
  BY <1>1, <1>2 DEF Kept
<1>8. Gone(d)'
  BY <1>1, <1>2, <1>3 DEF Device, Gone
<1>9. Device(d)'
  BY <1>4, <1>5, <1>6, <1>7, <1>8 DEF Device
<1>10. \A x \in Met(d)' : x \in Met(d)
  BY <1>1, <1>2 DEF Met
<1>11. \A x \in Met(d)' : x < births'
  BY <1>1, <1>10 DEF GitCore, Owned
<1> QED
  BY <1>1, <1>9, <1>10, <1>11, CoreStep

\* What is held stays as it is, and so does a merge under way.
LEMMA SameHold ==
  ASSUME GitTypes, GitTypes', GitCore, NEW d \in Devices, Quiet(d), InStage(d)',
         hold'[d].engrams = hold[d].engrams, merging' = merging, torn' = torn, touched' = touched
  PROVE  GitCore'
<1>1. base' = base
  BY QuietFits
<1>2. Stand(d)' = Stand(d) /\ Bound(d)' = Bound(d) /\ (Abortable(d)' <=> Abortable(d))
  BY <1>1 DEF Stand, Bound, Abortable
<1>3. Private(d) /\ Topped(d) /\ Kept(d) /\ Gone(d)
  BY DEF GitCore, Device
<1> QED
  BY <1>2, <1>3, Still DEF Private, Topped, Kept, Gone

\* A note, the steps that only go on, the renames that are saved, and a crash.
LEMMA CoreGoesOn ==
  ASSUME GitTypes, GitTypes', GitCore, NEW d \in Devices,
         \/ StartSync(d) \/ PullFails(d) \/ SaveRenames(d) \/ Crash(d)
         \/ RestoreNotes(d, "recoverNotes", "recovered") \/ RestoreNotes(d, "restoreNotes", "restored")
  PROVE  GitCore'
<1>1. Quiet(d)
  BY DEF Quiet
<1>2. InStage(d)
  BY DEF GitCore, Device
<1>3. engrams' = engrams /\ head' = head /\ base' = base
  BY <1>1, QuietFits
<1>4. merging' = merging /\ torn' = torn /\ touched' = touched
  BY DEF StartSync, PullFails, SaveRenames, Crash, RestoreNotes, RestoreNotesBy, branch
<1>6. ASSUME StartSync(d) PROVE InStage(d)' /\ hold'[d].engrams = hold[d].engrams
  <2>1. /\ syncing[d].at = "idle" /\ hold' = hold
        /\ syncing'[d].at = (IF hold[d] = NoHold THEN "commit" ELSE "recover")
        /\ hold[d] # NoHold \/ d \notin torn
    BY <1>6, AreFunctions DEF StartSync, GoOn, SyncAt
  <2> QED
    BY <1>2, <1>3, <1>4, <2>1 DEF InStage, Pulling, Merging, Recovering
<1>7. ASSUME PullFails(d) PROVE InStage(d)' /\ hold'[d].engrams = hold[d].engrams
  <2>1. syncing[d].at = "pull" /\ hold' = hold /\ syncing'[d].at = "restore"
    BY <1>7, AreFunctions DEF PullFails, GoOn, SyncAt
  <2> QED
    BY <1>2, <1>3, <1>4, <2>1 DEF InStage, Pulling, Merging, Recovering
<1>8. ASSUME SaveRenames(d) PROVE InStage(d)' /\ hold'[d].engrams = hold[d].engrams
  <2>1. syncing[d].at = "saveRenames" /\ syncing'[d].at = "conclude"
    BY <1>8, AreFunctions DEF SaveRenames, GoOn, SyncAt
  <2>2. hold'[d].engrams = hold[d].engrams
    <3> DEFINE h == [hold[d] EXCEPT !.renames = syncing[d].map]
    <3>1. h.engrams = hold[d].engrams
      BY Parts, PartsBelow, HoldIs
    <3>2. hold' = hold \/ hold' = Put(hold, d, h)
      BY <1>8 DEF SaveRenames
    <3> HIDE DEF h
    <3> QED
      BY <3>1, <3>2, AreFunctions
  <2> QED
    BY <1>2, <1>3, <1>4, <2>1, <2>2 DEF InStage, Pulling, Merging, Recovering
<1>9. ASSUME Crash(d) PROVE InStage(d)' /\ hold'[d].engrams = hold[d].engrams
  <2>1. syncing'[d] = Idle /\ hold' = hold
    BY <1>9, AreFunctions DEF Crash
  <2>2. syncing'[d].at = "idle"
    BY <2>1 DEF Idle
  <2> QED
    BY <1>2, <1>3, <1>4, <2>1, <2>2 DEF InStage, Pulling, Merging, Recovering
<1>10. ASSUME RestoreNotes(d, "recoverNotes", "recovered") \/ RestoreNotes(d, "restoreNotes", "restored")
       PROVE InStage(d)' /\ hold'[d].engrams = hold[d].engrams
  <2>1. /\ hold' = hold
        /\ \/ syncing[d].at = "recoverNotes" /\ syncing'[d].at = "recovered"
           \/ syncing[d].at = "restoreNotes" /\ syncing'[d].at = "restored"
    BY <1>10, AreFunctions DEF RestoreNotes, RestoreNotesBy, GoOn, SyncAt
  <2> QED
    BY <1>2, <1>3, <1>4, <2>1 DEF InStage, Pulling, Merging, Recovering
<1> QED
  BY <1>1, <1>4, <1>6, <1>7, <1>8, <1>9, <1>10, SameHold

\* A merge is begun, or given up by hand.
LEMMA CoreMerges ==
  ASSUME GitTypes, GitTypes', GitCore, NEW d \in Devices, StartMerge(d) \/ AbortByHand(d)
  PROVE  GitCore'
<1>1. Quiet(d)
  BY DEF Quiet
<1>2. InStage(d) /\ Trees(d) /\ Private(d) /\ Topped(d) /\ Kept(d) /\ Gone(d)
  BY DEF GitCore, Device
<1>3. engrams' = engrams /\ head' = head /\ base' = base /\ hold' = hold /\ touched' = touched /\ remote' = remote
  BY <1>1, QuietFits DEF StartMerge, AbortByHand
<1>4. base[d] \in 1..Len(remote) /\ Len(remote) \in Nat
  BY Parts
<1>5. ASSUME StartMerge(d)
      PROVE  InStage(d)' /\ Stand(d)' = Stand(d) /\ Bound(d)' = Bound(d) /\ engrams[d] = head[d].engrams
  <2>1. /\ merging'[d] = Len(remote) /\ d \in torn' /\ syncing'[d].at = "merge" /\ syncing[d].at = "pull"
    BY <1>5, AreFunctions DEF StartMerge, GoOn, SyncAt
  <2>2. /\ merging[d] = 0 /\ d \notin torn /\ d \notin touched /\ engrams[d] = head[d].engrams
    BY <1>2, <2>1 DEF InStage, Pulling
  <2>3. InStage(d)'
    BY <1>3, <1>4, <2>1, <2>2 DEF InStage, Pulling, Merging, Recovering
  <2> QED
    BY <1>3, <2>1, <2>2, <2>3 DEF Stand, Bound
<1>6. ASSUME AbortByHand(d)
      PROVE  InStage(d)' /\ Stand(d)' = Stand(d) /\ Bound(d)' = Bound(d) /\ ~Abortable(d)'
  <2>1. /\ merging'[d] = 0 /\ d \notin torn' /\ d \in torn /\ syncing' = syncing /\ syncing[d].at = "idle"
    BY <1>6, AreFunctions DEF AbortByHand
  <2>2. d \notin touched
    BY <1>2, <2>1 DEF InStage
  <2>3. InStage(d)'
    BY <1>3, <2>1, <2>2 DEF InStage, Pulling, Merging, Recovering
  <2> QED
    BY <1>3, <2>1, <2>2, <2>3 DEF Stand, Bound, Abortable
<1> QED
  BY <1>1, <1>2, <1>3, <1>5, <1>6, Still DEF Private, Topped, Kept, Gone

\* What a pull must not touch is set aside.
LEMMA CoreHold ==
  ASSUME GitTypes, GitTypes', GitCore, NEW d \in Devices, Hold(d)
  PROVE  GitCore'
<1> DEFINE E == engrams[d]
           H == E \ PushedEngrams(E)
<1>1. Quiet(d)
  BY DEF Quiet
<1>2. InStage(d) /\ Trees(d) /\ Private(d) /\ Topped(d) /\ Kept(d) /\ Gone(d)
  BY DEF GitCore, Device
<1>3. /\ engrams' = engrams /\ head' = head /\ base' = base /\ notes' = notes /\ merging' = merging /\ torn' = torn
      /\ touched' = touched
  BY <1>1, QuietFits DEF Hold, tree, branch
<1>4. /\ hold'[d] = HeldOf(d) /\ syncing[d].at = "hold"
      /\ syncing'[d].at = (IF HeldOf(d) = NoHold THEN "pull" ELSE "reset")
  BY AreFunctions DEF Hold, Held, GoOn, SyncAt
<1>5. HeldOf(d).engrams = H /\ HeldOf(d).notes = notes[d] \ PushedNotes(notes[d], E)
  BY DEF HeldOf
<1>6. E \in SUBSET Engram /\ PushedEngrams(E) \subseteq E /\ PushedNotes(notes[d], E) \subseteq notes[d]
  BY Parts DEF PushedEngrams, PushedNotes
<1>7. /\ merging[d] = 0 /\ d \notin torn /\ d \notin touched /\ hold[d] = NoHold
      /\ head[d] = Strip(engrams[d], notes[d])
  BY <1>2, <1>4 DEF InStage, Pulling
<1>8. head[d].engrams = PushedEngrams(E) /\ head[d].notes = PushedNotes(notes[d], E)
  BY <1>7 DEF Strip
<1>9. HeldOf(d) = NoHold => head[d].engrams = engrams[d] /\ head[d].notes = notes[d]
  <2>1. NoHold.engrams = {} /\ NoHold.notes = {}
    BY DEF NoHold
  <2> QED
    BY <1>5, <1>6, <1>8, <2>1
<1>10. HeldOf(d)' = HeldOf(d)
  BY <1>3 DEF HeldOf
<1>11. InStage(d)'
  <2>1. CASE HeldOf(d) = NoHold
    <3>1. syncing'[d].at = "pull"
      BY <1>4, <2>1
    <3> QED
      BY <1>3, <1>7, <1>8, <1>9, <2>1, <3>1 DEF InStage, Pulling, Merging, Recovering
  <2>2. CASE HeldOf(d) # NoHold
    <3>1. syncing'[d].at = "reset"
      BY <1>4, <2>2
    <3> QED
      BY <1>3, <1>4, <1>7, <1>8, <1>10, <3>1 DEF InStage, Pulling, Merging, Recovering
  <2> QED
    BY <2>1, <2>2
<1>12. Stand(d)' = Stand(d) /\ Bound(d)' = Bound(d) /\ ~Abortable(d)'
  BY <1>3, <1>7 DEF Stand, Bound, Abortable
<1>13. PrivateIn(E, H, head[d].engrams, remote, births)
  <2>1. PrivateIn(E, hold[d].engrams, head[d].engrams, remote, births)
    BY <1>2 DEF Private
  <2>2. \A h \in H : h.private /\ h \in E
    BY DEF PushedEngrams
  <2> HIDE DEF H, E
  <2> QED
    BY <2>1, <2>2 DEF PrivateIn, SoundBy
<1>14. known[d] \ Removed \subseteq BirthsOf(E)
  <2>1. BirthsOf(hold[d].engrams) = {}
    BY <1>7 DEF NoHold, BirthsOf
  <2> QED
    BY <1>2, <2>1 DEF Kept
<1>15. BirthsOf(H) \subseteq BirthsOf(E)
  BY DEF BirthsOf
<1>16. Below(H, top[d]) /\ Stays(H, purged[d], retired[d])
  BY <1>2 DEF Topped, Gone, Below, Stays
<1> HIDE DEF H
<1> QED
  BY <1>1, <1>4, <1>5, <1>11, <1>12, <1>13, <1>14, <1>15, <1>16, Still

\* What was held is back, and the file goes.
LEMMA CoreDrop ==
  ASSUME GitTypes, GitTypes', GitCore, NEW d \in Devices, DropHold(d, "recovered", "commit") \/ DropHold(d, "restored", "push")
  PROVE  GitCore'
<1>1. Quiet(d)
  BY DEF Quiet
<1>2. InStage(d) /\ Trees(d) /\ Private(d) /\ Topped(d) /\ Kept(d) /\ Gone(d)
  BY DEF GitCore, Device
<1>3. /\ engrams' = engrams /\ head' = head /\ base' = base /\ merging' = merging /\ torn' = torn
      /\ touched' = touched /\ hold'[d] = NoHold
      /\ \/ syncing[d].at = "recovered" /\ syncing'[d].at = "commit"
         \/ syncing[d].at = "restored" /\ syncing'[d].at = "push"
  BY AreFunctions DEF DropHold, SyncAt, tree, branch
<1>4. /\ d \notin torn /\ ~Abortable(d)
      /\ \A h \in hold[d].engrams : \E e \in engrams[d] : e.birth = h.birth
  BY <1>2, <1>3 DEF InStage, Pulling, Recovering, Abortable
<1>5. InStage(d)'
  BY <1>2, <1>3, <1>4 DEF InStage, Pulling, Merging, Recovering
<1>6. Stand(d)' = Stand(d) /\ Bound(d)' = Bound(d) /\ ~Abortable(d)'
  BY <1>3, <1>4 DEF Stand, Bound, Abortable
<1>7. hold'[d].engrams = {}
  BY <1>3 DEF NoHold
<1>8. BirthsOf({}) = {} /\ Below({}, top[d]) /\ Stays({}, purged[d], retired[d])
  BY DEF BirthsOf, Below, Stays
<1>9. BirthsOf(hold[d].engrams) \subseteq BirthsOf(engrams[d])
  <2>1. \A x \in BirthsOf(hold[d].engrams) : x \in BirthsOf(engrams[d])
    BY <1>4, SetsAre
  <2> QED
    BY <2>1
<1>10. known[d] \ Removed \subseteq BirthsOf(engrams[d])
  BY <1>2, <1>9 DEF Kept
<1>11. PrivateIn(engrams[d], {}, head[d].engrams, remote, births)
  <2>1. PrivateIn(engrams[d], hold[d].engrams, head[d].engrams, remote, births)
    BY <1>2 DEF Private
  <2> QED
    BY <2>1 DEF PrivateIn, SoundBy
<1> QED
  BY <1>1, <1>5, <1>6, <1>7, <1>8, <1>10, <1>11, Still

----------------------------------------------------------------------------
(* The push *)

\* The remote's commits after a push: those that were there, and the branch.
PushedOn(R, T) == /\ Len(R) \in Nat /\ Len(T) = Len(R) + 1 /\ \A i \in 1..Len(R) : T[i] = R[i]

\* What is pushed then.
LEMMA PushedOnIs ==
  ASSUME NEW R, NEW T, PushedOn(R, T), NEW x
  PROVE  PushedIn(x, T) <=> PushedIn(x, R) \/ x \in BirthsOf(T[Len(T)].engrams)
<1>1. \A i : i \in 1..Len(T) <=> i \in 1..Len(R) \/ i = Len(T)
  BY DEF PushedOn
<1> QED
  BY <1>1 DEF PushedIn, PushedOn

\* A branch that stands on the remote's last commit is a commit for the remote.
LEMMA RemotePushed ==
  ASSUME NEW R, NEW T, PushedOn(R, T), NEW n, NEW X, Len(R) > 0, RemoteIn(R, n, X),
         StandsIn(T[Len(T)].engrams, Len(R), R, n, X)
  PROVE  RemoteIn(T, n, X)
<1> DEFINE L == Len(R)
           C == T[Len(T)].engrams
<1>1. \A i \in 1..Len(T) : (i \in 1..L /\ T[i] = R[i]) \/ (i = Len(T) /\ i > L)
  BY DEF PushedOn
<1>2. L \in 1..L /\ L \in Nat /\ Len(T) = L + 1
  BY DEF PushedOn
<1>3. PushedIn(0, T)
  BY PushedOnIs DEF RemoteIn
<1> HIDE DEF L, C
<1>4. SoundBy(C, n) /\ Public(C)
  BY DEF StandsIn, C
<1>5. \A e \in C : \A i \in 1..L : \A f \in R[i].engrams : e.birth = f.birth => e.id = f.id /\ e.birth \in BirthsOf(R[L].engrams)
  BY DEF StandsIn, C, L
<1>6. \A e \in C : \A f \in R[L].engrams : e.birth = f.birth /\ f.retired => e.retired
  BY DEF StandsIn, C, L
<1>7. \A f \in R[L].engrams : f.birth \in X \/ f.birth \in BirthsOf(C)
  BY DEF StandsIn, C, L
<1>8. \A i \in 1..Len(T) : SoundBy(T[i].engrams, n) /\ Public(T[i].engrams)
  BY <1>1, <1>4 DEF RemoteIn, L, C
<1>9. \A i, j \in 1..L : \A e \in R[i].engrams, f \in R[j].engrams :
        e.birth = f.birth => e.id = f.id /\ (i <= j /\ e.retired => f.retired)
  BY DEF RemoteIn, L
<1>10. \A i \in 1..L : \A e \in R[i].engrams, f \in C : e.birth = f.birth => e.id = f.id /\ (e.retired => f.retired)
  <2> TAKE i \in 1..L
  <2> TAKE e \in R[i].engrams, f \in C
  <2> HAVE e.birth = f.birth
  <2>1. f.id = e.id /\ f.birth \in BirthsOf(R[L].engrams)
    BY <1>5
  <2>2. PICK g \in R[L].engrams : g.birth = f.birth
    BY <2>1, SetsAre
  <2>3. i <= L
    BY <1>2
  <2>4. e.retired => g.retired
    BY <1>2, <1>9, <2>2, <2>3
  <2> QED
    BY <1>6, <2>1, <2>2, <2>4
<1>11. \A e, f \in C : e.birth = f.birth => e = f
  BY <1>4 DEF SoundBy
<1>12. \A i, j \in 1..Len(T) : \A e \in T[i].engrams, f \in T[j].engrams :
         e.birth = f.birth => e.id = f.id /\ (i <= j /\ e.retired => f.retired)
  <2> TAKE i, j \in 1..Len(T)
  <2> TAKE e \in T[i].engrams, f \in T[j].engrams
  <2> HAVE e.birth = f.birth
  <2>1. CASE i \in 1..L /\ j \in 1..L
    BY <1>1, <1>2, <1>9, <2>1
  <2>2. CASE i \in 1..L /\ j = Len(T)
    BY <1>1, <1>2, <1>10, <2>2 DEF C
  <2>3. CASE i = Len(T) /\ j \in 1..L
    <3>1. ~(i <= j)
      BY <1>2, <2>3
    <3> QED
      BY <1>1, <1>2, <1>5, <2>3, <3>1 DEF C
  <2>4. CASE i = Len(T) /\ j = Len(T)
    BY <1>11, <2>4 DEF C
  <2> QED
    BY <1>1, <2>1, <2>2, <2>3, <2>4
<1>13. \A i, j \in 1..L : \A e \in R[i].engrams : i <= j => e.birth \in X \/ e.birth \in BirthsOf(R[j].engrams)
  BY DEF RemoteIn, L
<1>14. \A i, j \in 1..Len(T) : \A e \in T[i].engrams : i <= j => e.birth \in X \/ e.birth \in BirthsOf(T[j].engrams)
  <2> TAKE i, j \in 1..Len(T)
  <2> TAKE e \in T[i].engrams
  <2> HAVE i <= j
  <2>1. CASE i \in 1..L /\ j \in 1..L
    BY <1>1, <1>2, <1>13, <2>1
  <2>2. CASE i \in 1..L /\ j = Len(T)
    <3>1. e \in R[i].engrams /\ i <= L
      BY <1>1, <1>2, <2>2
    <3>2. e.birth \in X \/ e.birth \in BirthsOf(R[L].engrams)
      BY <1>2, <1>13, <2>2, <3>1
    <3>3. e.birth \in BirthsOf(R[L].engrams) => e.birth \in X \/ e.birth \in BirthsOf(C)
      BY <1>7, SetsAre
    <3> QED
      BY <2>2, <3>2, <3>3 DEF C
  <2>3. CASE i = Len(T)
    <3>1. j = i
      BY <1>1, <1>2, <2>3
    <3> QED
      BY <3>1, SetsAre
  <2> QED
    BY <1>1, <2>1, <2>2, <2>3
<1>15. \A i, j, k \in 1..L : \A e \in R[i].engrams : i <= j /\ j <= k
         /\ e.birth \in BirthsOf(R[k].engrams) => e.birth \in BirthsOf(R[j].engrams)
  BY DEF RemoteIn, L
<1>16. \A i, j, k \in 1..Len(T) : \A e \in T[i].engrams : i <= j /\ j <= k
         /\ e.birth \in BirthsOf(T[k].engrams) => e.birth \in BirthsOf(T[j].engrams)
  <2> TAKE i, j, k \in 1..Len(T)
  <2> TAKE e \in T[i].engrams
  <2> HAVE i <= j /\ j <= k /\ e.birth \in BirthsOf(T[k].engrams)
  <2>1. CASE j = Len(T)
    <3>1. k = j
      BY <1>1, <1>2, <2>1
    <3> QED
      BY <3>1
  <2>2. CASE j \in 1..L /\ k \in 1..L
    <3>1. i \in 1..L
      BY <1>1, <1>2, <2>2
    <3> QED
      BY <1>1, <1>2, <1>15, <2>2, <3>1
  <2>3. CASE j \in 1..L /\ k = Len(T)
    <3>1. i \in 1..L /\ e \in R[i].engrams
      BY <1>1, <1>2, <2>3
    <3>2. PICK c \in C : c.birth = e.birth
      BY <2>3, SetsAre DEF C
    <3>3. e.birth \in BirthsOf(R[L].engrams)
      BY <1>5, <3>1, <3>2
    <3>4. j <= L
      BY <1>2, <2>3
    <3> QED
      BY <1>1, <1>2, <1>15, <2>3, <3>1, <3>3, <3>4
  <2> QED
    BY <1>1, <2>1, <2>2, <2>3
<1> QED
  BY <1>3, <1>8, <1>12, <1>14, <1>16 DEF RemoteIn

\* It stands on itself then.
LEMMA StandsPushed ==
  ASSUME NEW R, NEW T, PushedOn(R, T), NEW n, NEW X, NEW k, StandsIn(T[Len(T)].engrams, k, R, n, X)
  PROVE  StandsIn(T[Len(T)].engrams, Len(T), T, n, X)
<1> DEFINE C == T[Len(T)].engrams
<1>1. \A i \in 1..Len(T) : (i \in 1..Len(R) /\ T[i] = R[i]) \/ i = Len(T)
  BY DEF PushedOn
<1>2. SoundBy(C, n) /\ Public(C)
  BY DEF StandsIn
<1>3. \A e, f \in C : e.id = f.id \/ e.birth = f.birth => e = f
  BY <1>2 DEF SoundBy
<1>4. \A e \in C : e.birth \in BirthsOf(C)
  BY SetsAre
<1> HIDE DEF C
<1>5. \A e \in C : \A i \in 1..Len(R) : \A f \in R[i].engrams : e.birth = f.birth => e.id = f.id
  BY DEF StandsIn, C
<1>6. \A e \in C : \A i \in 1..Len(T) : \A f \in T[i].engrams : e.birth = f.birth => e.id = f.id
  <2> TAKE e \in C
  <2> TAKE i \in 1..Len(T)
  <2> TAKE f \in T[i].engrams
  <2>1. CASE i \in 1..Len(R) /\ T[i] = R[i]
    BY <1>5, <2>1
  <2>2. CASE i = Len(T)
    BY <1>3, <2>2 DEF C
  <2> QED
    BY <1>1, <2>1, <2>2
<1>7. StandsIn(C, Len(T), T, n, X)
  BY <1>2, <1>3, <1>4, <1>6 DEF StandsIn, C
<1> QED
  BY <1>7 DEF C

\* A branch that stands on an earlier commit still does, if what it shares with the new one was pushed before.
LEMMA OthersPushed ==
  ASSUME NEW R, NEW T, PushedOn(R, T), NEW n, NEW X, NEW S, NEW k \in 1..Len(R), StandsIn(S, k, R, n, X),
         StandsIn(T[Len(T)].engrams, Len(R), R, n, X),
         \A x \in BirthsOf(S) \cap BirthsOf(T[Len(T)].engrams) : PushedIn(x, R)
  PROVE  StandsIn(S, k, T, n, X)
<1> DEFINE C == T[Len(T)].engrams
<1>1. \A i \in 1..Len(T) : (i \in 1..Len(R) /\ T[i] = R[i]) \/ i = Len(T)
  BY DEF PushedOn
<1>2. T[k] = R[k]
  BY DEF PushedOn
<1> HIDE DEF C
<1>3. /\ \A e \in S : \A i \in 1..Len(R) : \A f \in R[i].engrams : e.birth = f.birth =>
           e.id = f.id /\ e.birth \in BirthsOf(R[k].engrams)
      /\ \A e \in C : \A i \in 1..Len(R) : \A f \in R[i].engrams : e.birth = f.birth => e.id = f.id
  BY DEF StandsIn, C
<1>4. \A e \in S, f \in C : e.birth = f.birth => e.id = f.id /\ e.birth \in BirthsOf(R[k].engrams)
  <2> TAKE e \in S, f \in C
  <2> HAVE e.birth = f.birth
  <2>1. PushedIn(e.birth, R)
    BY SetsAre DEF C
  <2>2. PICK i \in 1..Len(R) : e.birth \in BirthsOf(R[i].engrams)
    BY <2>1 DEF PushedIn
  <2>3. PICK g \in R[i].engrams : g.birth = e.birth
    BY <2>2, SetsAre
  <2> QED
    BY <1>3, <2>3
<1>5. \A e \in S : \A i \in 1..Len(T) : \A f \in T[i].engrams : e.birth = f.birth =>
        e.id = f.id /\ e.birth \in BirthsOf(T[k].engrams)
  <2> TAKE e \in S
  <2> TAKE i \in 1..Len(T)
  <2> TAKE f \in T[i].engrams
  <2>1. CASE i \in 1..Len(R) /\ T[i] = R[i]
    BY <1>2, <1>3, <2>1
  <2>2. CASE i = Len(T)
    BY <1>2, <1>4, <2>2 DEF C
  <2> QED
    BY <1>1, <2>1, <2>2
<1> QED
  BY <1>2, <1>5 DEF StandsIn

\* A push keeps the invariant: the branch it makes public is sound, and no other device has a memory of it
\* that was not pushed before.
LEMMA CorePush ==
  ASSUME GitTypes, GitCore, NEW d \in Devices, Push(d)
  PROVE  GitCore'
<1> DEFINE L == Len(remote)
           C == head[d].engrams
<1>1. /\ Only(d) /\ GitTypes'
      /\ engrams' = engrams /\ head' = head /\ merging' = merging /\ torn' = torn /\ touched' = touched /\ hold' = hold
      /\ purged' = purged /\ births' = births /\ notes' = notes /\ UNCHANGED unnoticed
      /\ syncing'[d].at = "idle" /\ syncing[d].at = "push"
      /\ Lands(d) => /\ base'[d] = L + 1 /\ Len(remote') = L + 1 /\ remote'[L + 1] = head[d]
                     /\ \A i \in 1..L : remote'[i] = remote[i]
      /\ ~Lands(d) => remote' = remote /\ base' = base
  <2>1. syncing'[d] = [at |-> "idle", map |-> syncing[d].map]
    BY PushIs
  <2>2. syncing'[d].at = "idle"
    BY <2>1
  <2> HIDE DEF L
  <2>3. Lands(d) => /\ base'[d] = L + 1 /\ Len(remote') = L + 1 /\ remote'[L + 1] = head[d]
                    /\ \A i \in 1..L : remote'[i] = remote[i]
    BY PushIs DEF L
  <2> QED
    BY <2>2, <2>3, PushIs
<1>2. /\ known' = known /\ retired' = retired /\ top' = top /\ Removed' = Removed
  BY <1>1 DEF unnoticed, Removed
<1>3. Device(d) /\ InStage(d) /\ RemoteInv /\ Owned
  BY DEF GitCore, Device
<1>4. merging[d] = 0 /\ d \notin torn /\ d \notin touched /\ C = PushedEngrams(engrams[d])
  BY <1>1, <1>3 DEF InStage, Pulling
<1>5. InStage(d)'
  BY <1>1, <1>4 DEF InStage, Pulling, Merging, Recovering
<1>6. \A c \in Devices : Met(c)' = Met(c)
  BY <1>1, <1>2 DEF Met
<1>7. ASSUME ~Lands(d) PROVE GitCore'
  <2>1. Stand(d)' = Stand(d) /\ Bound(d)' = Bound(d) /\ (Abortable(d)' <=> Abortable(d))
    BY <1>1, <1>7 DEF Stand, Bound, Abortable
  <2>2. Trees(d)' /\ Private(d)' /\ Topped(d)' /\ Kept(d)' /\ Gone(d)'
    BY <1>1, <1>2, <1>3, <1>7, <2>1 DEF Device, Trees, Stands, Private, Topped, Kept, Gone
  <2>3. Device(d)'
    BY <1>5, <2>2 DEF Device
  <2>4. \A x \in Met(d)' : x < births' /\ x \in Met(d)
    BY <1>1, <1>3, <1>6 DEF Owned
  <2> QED
    BY <1>1, <1>7, <2>3, <2>4, CoreStep
<1>8. ASSUME Lands(d) PROVE GitCore'
  <2>1. /\ base'[d] = L + 1 /\ Len(remote') = L + 1 /\ remote'[L + 1] = head[d] /\ base[d] = L
        /\ \A i \in 1..L : remote'[i] = remote[i]
    BY <1>1, <1>8 DEF Lands
  <2>2. L \in Nat /\ L > 0 /\ base[d] \in 1..L
    <3>1. base[d] \in 1..Len(remote) /\ Len(remote) \in Nat
      BY Parts
    <3> QED
      BY <3>1
  <2>3. PushedOn(remote, remote') /\ remote'[Len(remote')].engrams = C
    BY <2>1, <2>2 DEF PushedOn
  <2>4. StandsIn(C, L, remote, births, Removed) /\ RemoteIn(remote, births, Removed)
    BY <1>3, <2>1 DEF Device, Trees, Stands, RemoteInv
  <2>5. RemoteIn(remote', births, Removed)
    BY <2>2, <2>3, <2>4, RemotePushed
  <2>6. RemoteInv'
    BY <1>1, <1>2, <2>5 DEF RemoteInv
  <2>7. \A x : PushedIn(x, remote') <=> PushedIn(x, remote) \/ x \in BirthsOf(C)
    BY <2>3, PushedOnIs
  <2>8. Owned'
    <3>1. \A x : Pushed(x) => Pushed(x)'
      BY <2>7 DEF Pushed
    <3> QED
      BY <1>1, <1>3, <1>6, <3>1 DEF Owned
  <2>9. \A c \in Devices \ {d} : \A x \in Met(c) : x \in BirthsOf(C) => PushedIn(x, remote)
    <3>1. \A x \in BirthsOf(C) : x \in Met(d)
      BY DEF Met
    <3> QED
      BY <1>3, <3>1 DEF Owned, Pushed
  <2>10. Device(d)'
    <3>1. StandsIn(C, L + 1, remote', births, Removed)
      BY <2>1, <2>3, <2>4, StandsPushed
    <3>2. Stand(d)' = L + 1 /\ Bound(d)' = L + 1 /\ ~Abortable(d)'
      BY <1>1, <1>4, <2>1 DEF Stand, Bound, Abortable
    <3>3. Trees(d)'
      BY <1>1, <1>2, <1>4, <2>1, <3>1, <3>2 DEF Trees, Stands
    <3>4. Private(d)'
      <4>1. PrivateIn(engrams[d], hold[d].engrams, C, remote, births)
        BY <1>3 DEF Device, Private
      <4>2. PrivateIn(engrams[d], hold[d].engrams, C, remote', births)
        BY <2>7, <4>1 DEF PrivateIn
      <4> QED
        BY <1>1, <4>2 DEF Private
    <3>5. Topped(d)'
      BY <1>1, <1>2, <1>3, <2>1, <3>2 DEF Device, Topped
    <3>6. Kept(d)'
      BY <1>1, <1>2, <1>3, <3>2 DEF Device, Kept
    <3>7. \A K : SeenBy(K, remote', L + 1)
      BY <2>1 DEF SeenBy, PushedIn
    <3>8. Gone(d)'
      BY <1>1, <1>2, <1>3, <3>2, <3>7 DEF Device, Gone
    <3> QED
      BY <1>5, <3>3, <3>4, <3>5, <3>6, <3>8 DEF Device
  <2>11. ASSUME NEW c \in Devices \ {d} PROVE Device(c)'
    <3>1. /\ base'[c] = base[c] /\ syncing'[c] = syncing[c]
      BY <1>1, OthersKeep
    <3>2. Device(c)
      BY DEF GitCore
    <3>3. InStage(c)'
      <4>1. InStage(c)
        BY <3>2 DEF Device
      <4>2. (HeldOf(c))' = HeldOf(c)
        BY <1>1 DEF HeldOf
      <4> QED
        BY <1>1, <3>1, <4>1, <4>2, Zenon DEF InStage
    <3>4. Stand(c)' = Stand(c) /\ Bound(c)' = Bound(c) /\ (Abortable(c)' <=> Abortable(c))
      BY <1>1, <3>1 DEF Stand, Bound, Abortable
    <3>5. base[c] \in 1..L /\ merging[c] \in 0..L
      BY Parts
    <3>6. Stand(c) \in 1..L /\ Bound(c) \in 0..L
      BY <2>2, <3>5 DEF Stand, Bound
    <3>7. remote'[base[c]] = remote[base[c]] /\ remote'[Stand(c)] = remote[Stand(c)]
      BY <2>1, <3>5, <3>6
    <3>8. BirthsOf(PushedEngrams(engrams[c])) \subseteq BirthsOf(engrams[c])
      BY DEF BirthsOf, PushedEngrams
    <3>9. \A x \in BirthsOf(head[c].engrams) \cap BirthsOf(C) : PushedIn(x, remote)
      BY <2>9 DEF Met
    <3>10. \A x \in BirthsOf(PushedEngrams(engrams[c])) \cap BirthsOf(C) : PushedIn(x, remote)
      BY <2>9, <3>8 DEF Met
    <3>11. StandsIn(head[c].engrams, base[c], remote, births, Removed)
           /\ StandsIn(PushedEngrams(engrams[c]), Stand(c), remote, births, Removed)
      BY <3>2 DEF Device, Trees, Stands
    <3>12. StandsIn(head[c].engrams, base[c], remote', births, Removed)
      BY <2>3, <2>4, <3>5, <3>9, <3>11, OthersPushed
    <3>13. StandsIn(PushedEngrams(engrams[c]), Stand(c), remote', births, Removed)
      BY <2>3, <2>4, <3>6, <3>10, <3>11, OthersPushed
    <3>14. Trees(c)'
      BY <1>1, <1>2, <3>1, <3>4, <3>12, <3>13 DEF Trees, Stands
    <3>15. Private(c)'
      <4>1. PrivateIn(engrams[c], hold[c].engrams, head[c].engrams, remote, births)
        BY <3>2 DEF Device, Private
      <4>2. \A e \in engrams[c] \cup hold[c].engrams : e.birth \in Met(c)
        BY SetsAre DEF Met
      <4>3. \A e \in engrams[c] \cup hold[c].engrams : e.private => ~PushedIn(e.birth, remote')
        BY <2>7, <2>9, <4>1, <4>2 DEF PrivateIn
      <4>4. PrivateIn(engrams[c], hold[c].engrams, head[c].engrams, remote', births)
        BY <4>1, <4>3 DEF PrivateIn
      <4> QED
        BY <1>1, <4>4 DEF Private
    <3>16. Topped(c)'
      BY <1>1, <1>2, <3>1, <3>2, <3>4, <3>7 DEF Device, Topped
    <3>17. Kept(c)'
      BY <1>1, <1>2, <3>2, <3>4 DEF Device, Kept
    <3>18. ASSUME NEW K, K \subseteq Met(c), SeenBy(K, remote, Bound(c)) PROVE SeenBy(K, remote', Bound(c))
      <4> SUFFICES ASSUME NEW x \in K, PushedIn(x, remote') PROVE \E i \in 1..Bound(c) : x \in BirthsOf(remote'[i].engrams)
        BY DEF SeenBy
      <4>1. PushedIn(x, remote)
        BY <2>7, <2>9, <3>18
      <4>2. PICK i \in 1..Bound(c) : x \in BirthsOf(remote[i].engrams)
        BY <3>18, <4>1 DEF SeenBy
      <4>3. i \in 1..L
        BY <2>2, <3>6
      <4> QED
        BY <2>1, <4>2, <4>3
    <3>19. known[c] \subseteq Met(c) /\ purged[c] \subseteq Met(c)
      BY DEF Met
    <3>20. SeenBy(known[c], remote', Bound(c)) /\ SeenBy(purged[c], remote', Bound(c))
      BY <3>2, <3>18, <3>19 DEF Device, Gone
    <3>21. Gone(c)'
      BY <1>1, <1>2, <3>2, <3>4, <3>20 DEF Device, Gone
    <3> QED
      BY <3>3, <3>14, <3>15, <3>16, <3>17, <3>21 DEF Device
  <2> QED
    BY <2>6, <2>8, <2>10, <2>11 DEF GitCore
<1> QED
  BY <1>7, <1>8

----------------------------------------------------------------------------
(* The invariant, and what it is for *)

\* Every step keeps the invariant, while no id has come to name two memories.
LEMMA CoreKept ==
  ASSUME GitTypes, GitTypes', GitCore, [GitNext]_gitVars, ~reused'
  PROVE  GitCore'
<1>1. ASSUME UNCHANGED gitVars PROVE GitCore'
  <2>1. Removed' = Removed
    BY <1>1 DEF gitVars, Removed
  <2>2. RemoteInv'
    BY <1>1, <2>1 DEF gitVars, GitCore, RemoteInv
  <2>3. Owned'
    <3>1. \A c \in Devices : Met(c)' = Met(c)
      BY <1>1 DEF gitVars, Met
    <3> QED
      BY <1>1, <3>1 DEF gitVars, GitCore, Owned, Pushed
  <2>4. \A c \in Devices : Device(c)'
    <3> TAKE c \in Devices
    <3>1. Device(c) /\ Stand(c)' = Stand(c) /\ Bound(c)' = Bound(c) /\ (Abortable(c)' <=> Abortable(c)) /\ HeldOf(c)' = HeldOf(c)
      BY <1>1 DEF gitVars, GitCore, Stand, Bound, Abortable, HeldOf
    <3>2. InStage(c)'
      BY <1>1, <3>1, Zenon DEF gitVars, Device, InStage
    <3>3. Trees(c)' /\ Private(c)' /\ Topped(c)' /\ Kept(c)' /\ Gone(c)'
      BY <1>1, <2>1, <3>1 DEF gitVars, Device, Trees, Stands, Private, Topped, Kept, Gone
    <3> QED
      BY <3>2, <3>3 DEF Device
  <2> QED
    BY <2>2, <2>3, <2>4 DEF GitCore
<1>2. ASSUME NEW d \in Devices, Writing(d) PROVE GitCore'
  BY <1>2, CoreLearn, CoreChange, CorePurge DEF Writing
<1>3. ASSUME NEW d \in Devices, Quiet(d) PROVE GitCore'
  BY <1>3, CoreGoesOn, CoreMerges, CoreHold, CoreDrop DEF Quiet
<1>4. ASSUME NEW d \in Devices, Moving(d) PROVE GitCore'
  BY <1>4, CoreNoted, CoreBack, CoreRecover, CoreRestore, CoreCommit, CoreRebase, CoreRecords DEF Moving
<1>5. ASSUME NEW d \in Devices, Push(d) PROVE GitCore'
  BY <1>5, CorePush
<1> QED
  BY <1>1, <1>2, <1>3, <1>4, <1>5, Kinds

\* At first every device stands on the one commit there is, with the one memory there is.
LEMMA CoreFirst ==
  ASSUME GitInit
  PROVE  GitCore
<1>1. /\ First.id = <<1, 0>> /\ First.birth = 0 /\ First.private = FALSE /\ First.retired = FALSE
      /\ First.id[1] = 1 /\ First.id[2] = 0
  BY DEF First
<1>2. Strip({First}, {}).engrams = {First} /\ PushedEngrams({First}) = {First}
  BY <1>1 DEF Strip, PushedEngrams
<1>3. /\ Len(remote) = 1 /\ \A i \in 1..Len(remote) : i = 1 /\ remote[i].engrams = {First}
  <2>1. remote = <<Strip({First}, {})>>
    BY DEF GitInit
  <2>2. \A t : Len(<<t>>) = 1 /\ <<t>>[1] = t
    OBVIOUS
  <2>3. Len(remote) = 1 /\ remote[1].engrams = {First}
    BY <1>2, <2>1, <2>2
  <2> QED
    BY <2>3
<1>4. /\ births = 1 /\ torn = {} /\ touched = {}
      /\ \A d \in Devices : /\ engrams[d] = {First} /\ head[d] = remote[1] /\ base[d] = 1 /\ merging[d] = 0
                            /\ hold[d] = NoHold /\ syncing[d] = Idle /\ top[d] = 1
                            /\ known[d] = {0} /\ purged[d] = {} /\ retired[d] = {}
  BY DEF GitInit
<1>5. Removed = {}
  BY <1>4 DEF Removed
<1>6. BirthsOf({First}) = {0} /\ BirthsOf({}) = {} /\ NoHold.engrams = {} /\ Idle.at = "idle"
  BY <1>1 DEF BirthsOf, NoHold, Idle
<1>7. SoundBy({First}, 1) /\ SoundBy({}, 1) /\ Public({First})
  BY <1>1 DEF SoundBy, Public
<1>8. PushedIn(0, remote)
  BY <1>3, <1>6 DEF PushedIn
<1> HIDE DEF First
<1>9. RemoteInv
  <2>1. \A i \in 1..Len(remote) : SoundBy(remote[i].engrams, births) /\ Public(remote[i].engrams)
    BY <1>3, <1>4, <1>7
  <2>2. \A i, j \in 1..Len(remote) : \A e \in remote[i].engrams, f \in remote[j].engrams :
          e.birth = f.birth => e.id = f.id /\ (i <= j /\ e.retired => f.retired)
    BY <1>3
  <2>3. \A i \in 1..Len(remote) : \A e \in remote[i].engrams : \A j \in 1..Len(remote) : e.birth \in BirthsOf(remote[j].engrams)
    BY <1>1, <1>3, <1>6
  <2> QED
    BY <1>8, <2>1, <2>2, <2>3 DEF RemoteInv, RemoteIn
<1>10. Stands({First}, 1)
  <2>1. \A e \in {First} : \A i \in 1..Len(remote) : \A f \in remote[i].engrams : e = f /\ e.birth \in BirthsOf(remote[1].engrams)
    BY <1>1, <1>3, <1>6
  <2>2. 1 \in 1..Len(remote)
    BY <1>3
  <2>7. remote[1].engrams = {First}
    BY <1>3, <2>2
  <2>3. \A f \in remote[1].engrams : f.birth \in BirthsOf({First})
    BY <2>7 DEF BirthsOf
  <2>4. \A e \in {First} : \A f \in remote[1].engrams : e = f
    BY <2>1, <2>2
  <2>5. SoundBy({First}, births)
    BY <1>4, <1>7
  <2>6. StandsIn({First}, 1, remote, births, Removed)
    BY <1>7, <2>1, <2>3, <2>4, <2>5 DEF StandsIn
  <2> QED
    BY <2>6 DEF Stands
<1>11. ASSUME NEW d \in Devices PROVE Device(d) /\ Met(d) = {0}
  <2>1. /\ engrams[d] = {First} /\ head[d].engrams = {First} /\ base[d] = 1 /\ merging[d] = 0 /\ hold[d].engrams = {}
        /\ hold[d] = NoHold /\ syncing[d].at = "idle" /\ top[d] = 1 /\ known[d] = {0} /\ purged[d] = {} /\ retired[d] = {}
    BY <1>3, <1>4, <1>6
  <2>2. Stand(d) = 1 /\ Bound(d) = 1 /\ ~Abortable(d)
    BY <1>4, <2>1 DEF Stand, Bound, Abortable
  <2>3. InStage(d)
    BY <1>4, <2>1 DEF InStage, Pulling, Merging, Recovering
  <2>4. Trees(d)
    BY <1>2, <1>10, <2>1, <2>2 DEF Trees
  <2>5. Private(d)
    BY <1>1, <1>4, <1>7, <2>1 DEF Private, PrivateIn
  <2>6. Topped(d)
    <3>1. Below({First}, 1) /\ Below({}, 1)
      BY <1>1 DEF Below
    <3>2. remote[1].engrams = {First}
      BY <1>3
    <3> QED
      BY <2>1, <2>2, <3>1, <3>2 DEF Topped
  <2>7. Kept(d)
    BY <1>6, <2>1, <2>2 DEF Kept
  <2>8. Gone(d)
    <3>1. 0 \in BirthsOf(remote[1].engrams) /\ 1 \in 1..1
      BY <1>3, <1>6
    <3> QED
      BY <1>1, <2>1, <2>2, <3>1 DEF Gone, Stays, SeenBy
  <2>9. Met(d) = {0}
    BY <1>6, <2>1 DEF Met
  <2> QED
    BY <2>3, <2>4, <2>5, <2>6, <2>7, <2>8, <2>9 DEF Device
<1>12. Owned
  BY <1>4, <1>8, <1>11 DEF Owned, Pushed
<1> QED
  BY <1>9, <1>11, <1>12 DEF GitCore

\* Neither that a pull has met such an id nor that a sync was cut short is ever forgotten.
LEMMA ReusedStays ==
  ASSUME GitTypes, [GitNext]_gitVars
  PROVE  (reused => reused') /\ crashes' \in Nat /\ crashes <= crashes'
<1>1. crashes \in Nat
  BY DEF GitTypes
<1>2. CASE UNCHANGED gitVars
  <2>1. crashes' = crashes /\ (reused => reused')
    BY <1>2, Zenon DEF gitVars
  <2> QED
    BY <1>1, <2>1
<1>3. CASE GitNext
  <2>1. PICK d \in Devices : Writing(d) \/ Quiet(d) \/ Moving(d) \/ Push(d)
    BY <1>3, Kinds
  <2>2. reused => reused'
    BY <2>1, Zenon DEF Writing, Quiet, Moving, Noting, Restoring, Learn, Edit, Retire, Purge, SaveStore, Note, AbortByHand, StartSync,
       Recover, RestoreEngrams, RestoreNotes, RestoreNotesBy, DropHold, Commit, Hold, Reset, PullFails, StartMerge,
       SaveRenames, Conclude, ConcludeFails, Push, Crash, still, users, Rebase, MergeRecords
  <2>3. crashes' = crashes \/ Crash(d)
    BY <2>1, Zenon DEF Writing, Quiet, Moving, Noting, Restoring, Learn, Edit, Retire, Purge, SaveStore, Note, AbortByHand, StartSync,
       Recover, RestoreEngrams, RestoreNotes, RestoreNotesBy, DropHold, Commit, Hold, Reset, PullFails, StartMerge,
       SaveRenames, Conclude, ConcludeFails, Push, Crash, still, users, Rebase, MergeRecords
  <2>4. Crash(d) => crashes' = crashes + 1
    BY DEF Crash
  <2> QED
    BY <1>1, <2>2, <2>3, <2>4
<1> QED
  BY <1>2, <1>3

\* The invariant holds until a pull meets such an id.
LEMMA GitHolds == GitSpec => [](GitTypes /\ GitInv)
<1>1. GitInit => GitTypes /\ GitInv
  BY GitTypesInit, CoreFirst DEF GitInv
<1>2. GitTypes /\ GitInv /\ [GitNext]_gitVars => (GitTypes /\ GitInv)'
  <2> SUFFICES ASSUME GitTypes, GitInv, [GitNext]_gitVars PROVE GitTypes' /\ GitInv'
    OBVIOUS
  <2>1. GitTypes'
    BY GitTypesStep
  <2>2. ASSUME ~reused' PROVE GitCore'
    <3>1. ~reused
      BY <2>2, ReusedStays
    <3>2. GitCore
      BY <3>1 DEF GitInv
    <3> QED
      BY <2>1, <2>2, <3>2, CoreKept
  <2> QED
    BY <2>1, <2>2 DEF GitInv
<1> QED
  BY <1>1, <1>2, PTL DEF GitSpec

\* While no pull has met an id that names another memory than when the branch left the remote, a memory that a
\* device could read stays readable there until somebody removes it.
THEOREM MemoriesKept == GitSpec => [](~reused => NothingLost)
<1>1. ASSUME GitTypes, GitInv, ~reused PROVE NothingLost
  <2> SUFFICES ASSUME NEW d \in Devices PROVE known[d] \ Removed \subseteq BirthsOf(Readable(d))
    BY DEF NothingLost
  <2> QED
    BY <1>1, Reads DEF GitInv
<1> QED
  BY <1>1, GitHolds, PTL

\* And what it removed is not read there again, nor live there again what it saw retired.
THEOREM RemovalsStand == GitSpec => [](~reused => RemovalStands)
<1>1. ASSUME GitTypes, GitInv, ~reused PROVE RemovalStands
  <2> SUFFICES ASSUME NEW d \in Devices, NEW e \in Readable(d)
               PROVE  e.birth \notin purged[d] /\ (e.birth \in retired[d] => e.retired)
    BY DEF RemovalStands
  <2>1. Stays(Readable(d), purged[d], retired[d])
    BY <1>1, Reads DEF GitInv
  <2> QED
    BY <2>1 DEF Stays
<1> QED
  BY <1>1, GitHolds, PTL

----------------------------------------------------------------------------
(* The notes *)

\* More records, and more removals, leave a note as good.
LEMMA MeantGrows ==
  ASSUME NEW N, NEW S, NEW T, NEW X, NEW Y, Meant(N, S, X), X \subseteq Y,
         \A e \in S : e.birth \in Y \/ \E f \in T : f.birth = e.birth /\ f.id = e.id
  PROVE  Meant(N, T, Y)
  BY DEF Meant

\* The notes of a commit are about what is in it, and those set aside about what is set aside.
LEMMA MeantPushed ==
  ASSUME NEW N, NEW E, NEW n, SoundBy(E, n), NEW X, Meant(N, E, X)
  PROVE  /\ Meant(PushedNotes(N, E), PushedEngrams(E), X)
         /\ Meant(N \ PushedNotes(N, E), E \ PushedEngrams(E), X)
<1> DEFINE P == PushedEngrams(E)
<1>1. P \subseteq E
  BY DEF PushedEngrams
<1> HIDE DEF P
<1>2. \A m : m \in PushedNotes(N, E) <=> m \in N /\ \E p \in P : p.id = m.ref
  BY SetsAre DEF PushedNotes, P
<1>3. \A e, f \in E : e.id = f.id => e = f
  BY DEF SoundBy
<1>4. Meant(PushedNotes(N, E), P, X)
  BY <1>1, <1>2, <1>3 DEF Meant
<1>5. Meant(N \ PushedNotes(N, E), E \ P, X)
  BY <1>1, <1>2, <1>3 DEF Meant
<1> QED
  BY <1>4, <1>5 DEF P

\* Held notes follow the records they are about when these are put back.
LEMMA MeantBack ==
  ASSUME NEW E \in SUBSET Engram, NEW H \in SUBSET Engram, NEW N \in SUBSET About, NEW n, NEW X,
         NEW map \in SUBSET (Ids \X Ids),
         Public(E), \A h \in H : h.private, SoundBy(H, n), Meant(N, H, X), \A r \in map : r[1] \notin IdsOf(H)
  PROVE  Meant(RenameNotes(N, map \cup HeldRenames(E, H)), PutBack(E, H), X)
<1> DEFINE all == map \cup HeldRenames(E, H)
           P == PutBack(E, H)
           Fresh(h) == [h EXCEPT !.id = FreshId(h)]
<1>1. all \in SUBSET (Ids \X Ids)
  BY PureTypes
<1>2. \A h \in H : h.id \in Ids /\ FreshId(h) \in Ids /\ h \in Engram
  BY FreshIn DEF Engram
<1>3. \A h \in H : Fresh(h).id = FreshId(h) /\ Fresh(h).birth = h.birth /\ Fresh(h).private
  <2>1. \A h \in H : Fresh(h).private = h.private /\ Fresh(h).id = FreshId(h) /\ Fresh(h).birth = h.birth
    BY <1>2, IdChanged
  <2> QED
    BY <2>1
<1>4. \A h \in H : h \notin E /\ Fresh(h) \notin E
  BY <1>3 DEF Public
<1>5. \A h \in H : h \in Clashing(E, H) <=> h.id \in IdsOf(E)
  BY <1>4 DEF Clashing
<1>6. ASSUME NEW h \in H PROVE \E e \in P : e.birth = h.birth /\ e.id = Renamed(all, h.id)
  <2>1. CASE h.id \in IdsOf(E)
    <3>1. h \in Clashing(E, H)
      BY <1>5, <2>1
    <3>2. <<h.id, FreshId(h)>> \in all
      BY <3>1 DEF HeldRenames
    <3>3. <<h.id, Renamed(all, h.id)>> \in all
      BY <1>1, <1>2, <3>2, RenamedIs
    <3>4. <<h.id, Renamed(all, h.id)>> \notin map
      BY SetsAre
    <3>5. PICK g \in Clashing(E, H) : <<h.id, Renamed(all, h.id)>> = <<g.id, FreshId(g)>>
      BY <3>3, <3>4 DEF HeldRenames
    <3>6. g \in H
      BY DEF Clashing
    <3>7. g = h
      BY <3>5, <3>6 DEF SoundBy
    <3>8. Renamed(all, h.id) = FreshId(h)
      BY <3>5, <3>7
    <3>9. Fresh(h) \in P
      BY <3>1 DEF PutBack
    <3> QED
      BY <1>3, <3>8, <3>9
  <2>2. CASE h.id \notin IdsOf(E)
    <3>1. h \in P
      BY <2>2 DEF PutBack
    <3>2. \A r \in map : r[1] # h.id
      BY SetsAre
    <3>3. \A g \in Clashing(E, H) : g.id # h.id
      BY <2>2 DEF Clashing
    <3>4. \A r \in all : r[1] # h.id
      BY <3>2, <3>3 DEF HeldRenames
    <3> HIDE DEF all
    <3>5. Renamed(all, h.id) = h.id
      BY <1>1, <1>2, <3>4, RenamedIs
    <3> QED
      BY <3>1, <3>5
  <2> QED
    BY <2>1, <2>2
<1> HIDE DEF all, P
<1>7. \A r \in RenameNotes(N, all) : \E m \in N : r.means = m.means /\ r.ref = Renamed(all, m.ref)
  BY DEF RenameNotes, About
<1>8. Meant(RenameNotes(N, all), P, X)
  BY <1>6, <1>7 DEF Meant
<1> QED
  BY <1>8 DEF all, P

\* In a merge the notes of the branch follow its records, and those of the remote find theirs.
LEMMA MeantMerged ==
  ASSUME NEW o, NEW i, NEW k, Merges(o, i, k), NEW N \in SUBSET About, NEW B,
         Meant(N, o, Removed), Meant(remote[k].notes, remote[k].engrams, Removed)
  PROVE  Meant(MergeNotes(B, RenameNotes(N, MergeMap(o, i, k)), remote[k].notes), Merged(o, i, k), Removed)
<1> DEFINE b == remote[i].engrams
           t == remote[k].engrams
           map == MergeMap(o, i, k)
           new == Merged(o, i, k)
<1>1. /\ GitTypes /\ RemoteInv /\ i \in 1..Len(remote) /\ k \in 1..Len(remote) /\ o \in SUBSET Engram /\ Stands(o, i)
      /\ ~Reused(remote[i], remote[k]) /\ i <= k
  BY DEF Merges
<1>2. Stands(new, k)
  BY MergedStands
<1> HIDE DEF map, new
<1>3. ASSUME NEW e \in o PROVE e.birth \in Removed \/ \E g \in new : g.birth = e.birth /\ g.id = Renamed(map, e.id)
  <2>1. CASE e.id \notin IdsOf(b)
    <3>1. Re(e, o, i, k) \in new /\ Re(e, o, i, k).birth = e.birth /\ Re(e, o, i, k).id = Renamed(map, e.id)
      BY <2>1, MergedIs, ReIs DEF new, map
    <3> QED
      BY <3>1
  <2>2. CASE e.id \in IdsOf(b)
    <3>1. e \notin Clashes(o, i, k)
      BY <2>2 DEF Clashes, LocalClashes
    <3>2. Renamed(map, e.id) = e.id
      BY <3>1, ClashIs DEF map
    <3>3. PICK c \in b : c.id = e.id
      BY <2>2, SetsAre
    <3>4. c.birth = e.birth
      BY <1>1, <3>3 DEF Stands, StandsIn
    <3>5. CASE c.birth \in BirthsOf(t)
      <4>1. PICK f \in t : f.birth = c.birth
        BY <3>5, SetsAre
      <4>2. f.id = c.id
        BY <1>1, <4>1 DEF RemoteInv, RemoteIn
      <4>3. \E g \in new : g.id = e.id /\ g.birth = e.birth
        BY <3>3, <4>2, MergedIs DEF new
      <4> QED
        BY <3>2, <4>3
    <3>6. c.birth \in Removed \/ c.birth \in BirthsOf(t)
      BY <1>1 DEF RemoteInv, RemoteIn
    <3> QED
      BY <3>4, <3>5, <3>6
  <2> QED
    BY <2>1, <2>2
<1>4. ASSUME NEW f \in t PROVE f.birth \in Removed \/ \E g \in new : g.birth = f.birth /\ g.id = f.id
  <2>1. f.birth \in Removed \/ f.birth \in BirthsOf(new)
    BY <1>2 DEF Stands, StandsIn
  <2>2. \A g \in new : g.birth = f.birth => g.id = f.id
    BY <1>1, <1>2 DEF Stands, StandsIn
  <2> QED
    BY <2>1, <2>2, SetsAre
<1>5. \A r \in RenameNotes(N, map) : \E m \in N : r.means = m.means /\ r.ref = Renamed(map, m.ref)
  BY DEF RenameNotes, About
<1>6. Meant(RenameNotes(N, map), new, Removed)
  BY <1>3, <1>5 DEF Meant
<1>7. Meant(remote[k].notes, new, Removed)
  BY <1>4 DEF Meant
<1>8. \A m \in MergeNotes(B, RenameNotes(N, map), remote[k].notes) : m \in RenameNotes(N, map) \/ m \in remote[k].notes
  BY DEF MergeNotes
<1>9. Meant(MergeNotes(B, RenameNotes(N, map), remote[k].notes), new, Removed)
  BY <1>6, <1>7, <1>8 DEF Meant
<1> QED
  BY <1>9 DEF map, new

\* Notes stay as good when more is removed.
LEMMA MeantStays ==
  ASSUME NEW N, NEW S, NEW X, NEW Y, Meant(N, S, X), X \subseteq Y
  PROVE  Meant(N, S, Y)
  BY DEF Meant

\* A step that leaves the remote as it is keeps the notes of the other devices.
LEMMA NotesStep ==
  ASSUME GitTypes, NotesCore, NEW d \in Devices, Only(d), remote' = remote, Removed \subseteq Removed', Noted(d)'
  PROVE  NotesCore'
<1>1. ASSUME NEW c \in Devices, c # d PROVE Noted(c)'
  <2>1. /\ engrams'[c] = engrams[c] /\ notes'[c] = notes[c] /\ head'[c] = head[c] /\ merging'[c] = merging[c]
        /\ hold'[c] = hold[c] /\ syncing'[c] = syncing[c]
    BY <1>1, OthersKeep
  <2>2. NoteStage(c) /\ Meant(notes[c], engrams[c], Removed) /\ Meant(head[c].notes, head[c].engrams, Removed)
    BY DEF NotesCore, Noted
  <2>3. \A N, S : Meant(N, S, Removed) => Meant(N, S, Removed')
    BY MeantStays
  <2>4. NoteStage(c)'
    BY <2>1, <2>2, <2>3, Zenon DEF NoteStage
  <2>5. Meant(notes'[c], engrams'[c], Removed') /\ Meant(head'[c].notes, head'[c].engrams, Removed')
    BY <2>1, <2>2, <2>3
  <2> QED
    BY <2>4, <2>5 DEF Noted
<1>2. \A i \in 1..Len(remote) : Meant(remote[i].notes, remote[i].engrams, Removed')
  BY MeantStays DEF NotesCore
<1> QED
  BY <1>1, <1>2 DEF NotesCore

\* A write leaves the notes about what is still there.
LEMMA NotesWritten ==
  ASSUME GitTypes, GitCore, NotesCore, NEW d \in Devices, NEW E, NEW P, Saved(d, E, P), births' \in {births, births + 1},
         purged[d] \subseteq P,
         \A e \in engrams[d] : e.birth \in P \/ \E f \in E : f.birth = e.birth /\ f.id = e.id
  PROVE  NotesCore'
<1>1. E \in SUBSET Engram /\ P \in SUBSET Nat /\ Below(E, births') /\ SaveStore(d, E) /\ purged' = Put(purged, d, P)
  BY DEF Saved
<1>2. Only(d) /\ engrams'[d] = E /\ purged'[d] = P
  BY <1>1, SaveFits
<1>3. /\ notes' = notes /\ head' = head /\ merging' = merging /\ syncing' = syncing /\ remote' = remote
      /\ hold' = Put(hold, d, DropEngrams(hold[d])) /\ syncing[d].at = "idle"
  BY <1>1 DEF SaveStore
<1>4. NoteStage(d) /\ Meant(notes[d], engrams[d], Removed) /\ Meant(head[d].notes, head[d].engrams, Removed)
  BY DEF NotesCore, Noted
<1>5. hold[d] = NoHold /\ merging[d] = 0 /\ syncing[d].map = {}
  BY <1>3, <1>4 DEF NoteStage
<1>6. hold'[d] = NoHold
  <2>1. DropEngrams(NoHold) = NoHold
    BY DEF DropEngrams, NoHold
  <2> QED
    BY <1>3, <1>5, <2>1, AreFunctions
<1>7. NoteStage(d)'
  BY <1>3, <1>5, <1>6 DEF NoteStage, Recovering
<1>8. Removed \subseteq Removed'
  BY <1>2, RemovedGrows
<1>9. P \subseteq Removed'
  BY <1>2 DEF Removed
<1>10. Meant(notes[d], E, Removed') /\ Meant(head[d].notes, head[d].engrams, Removed')
  BY <1>4, <1>8, <1>9, MeantGrows
<1>11. Noted(d)'
  BY <1>2, <1>3, <1>7, <1>10 DEF Noted
<1> QED
  BY <1>2, <1>3, <1>8, <1>11, NotesStep

\* With nothing held, what a device can read is its store.
LEMMA ReadsAll ==
  ASSUME NEW E
  PROVE  PutBack(E, {}) = E
<1>1. Clashing(E, {}) = {}
  BY DEF Clashing
<1> QED
  BY <1>1 DEF PutBack

\* The user's writes keep the notes about what they name.
LEMMA NotesWriting ==
  ASSUME GitTypes, GitCore, NotesCore, NEW d \in Devices, Writing(d)
  PROVE  NotesCore'
<1>1. syncing[d].at = "idle"
  BY DEF Writing, Learn, Edit, Retire, Purge, SaveStore
<1>2. Readable(d) = engrams[d]
  <2>1. hold[d] = NoHold
    BY <1>1 DEF NotesCore, Noted, NoteStage
  <2> QED
    BY <2>1, ReadsAll DEF Readable, NoHold
<1>3. ASSUME NEW private \in BOOLEAN, Learn(d, private) PROVE NotesCore'
  <2>1. Saved(d, Readable(d) \cup {NewEngram(d, private)}, purged[d]) /\ births' = births + 1
    BY <1>3, LearnIs
  <2> QED
    BY <1>2, <2>1, NotesWritten
<1>4. ASSUME NEW e \in Readable(d), Edit(d, e) \/ Retire(d, e) PROVE NotesCore'
  <2>1. PICK f : Changes(f, e) /\ Saved(d, (Readable(d) \ {e}) \cup {f}, purged[d]) /\ births' = births
    BY <1>4, ChangeIs
  <2>2. f.id = e.id /\ f.birth = e.birth
    BY <2>1 DEF Changes
  <2>3. \A g \in engrams[d] : \E h \in (Readable(d) \ {e}) \cup {f} : h.birth = g.birth /\ h.id = g.id
    BY <1>2, <2>2
  <2> QED
    BY <2>1, <2>3, NotesWritten
<1>5. ASSUME NEW e \in Readable(d), Purge(d, e) PROVE NotesCore'
  <2>1. Saved(d, Readable(d) \ {e}, purged[d] \cup {e.birth}) /\ births' = births
    BY <1>5, PurgeIs
  <2> DEFINE E == Readable(d) \ {e}
             P == purged[d] \cup {e.birth}
  <2>2. \A g \in engrams[d] : g.birth \in P \/ \E h \in E : h.birth = g.birth /\ h.id = g.id
    BY <1>2
  <2>3. Saved(d, E, P) /\ purged[d] \subseteq P
    BY <2>1
  <2> HIDE DEF E, P
  <2> QED
    BY <2>1, <2>2, <2>3, NotesWritten
<1> QED
  BY <1>3, <1>4, <1>5 DEF Writing

\* The steps that move no engram: the notes of the store are written only by the user, and when held ones are put back.
LEMMA NotesQuiet ==
  ASSUME GitTypes, GitCore, NotesCore, NEW d \in Devices, Quiet(d), crashes' = 0
  PROVE  NotesCore'
<1>1. Only(d) /\ engrams' = engrams /\ head' = head /\ base' = base /\ purged' = purged /\ remote' = remote
  BY QuietFits
<1>2. Removed' = Removed
  BY <1>1 DEF Removed
<1>3. NoteStage(d) /\ Meant(notes[d], engrams[d], Removed) /\ Meant(head[d].notes, head[d].engrams, Removed)
  BY DEF NotesCore, Noted
<1>4. Device(d) /\ InStage(d)
  BY DEF GitCore, Device
<1>5. ASSUME NoteStage(d)', Meant(notes'[d], engrams[d], Removed) PROVE NotesCore'
  <2>1. Noted(d)'
    BY <1>1, <1>2, <1>3, <1>5 DEF Noted
  <2> QED
    BY <1>1, <1>2, <2>1, NotesStep
<1>7. ASSUME AbortByHand(d) PROVE FALSE
  <2>1. syncing[d].at = "idle" /\ d \in torn
    BY <1>7 DEF AbortByHand
  <2> QED
    BY <1>3, <1>4, <2>1 DEF NoteStage, InStage
<1>8. ASSUME StartSync(d) PROVE NotesCore'
  <2>1. /\ syncing[d].at = "idle" /\ hold' = hold /\ merging' = merging /\ notes' = notes
        /\ syncing'[d] = [at |-> IF hold[d] = NoHold THEN "commit" ELSE "recover", map |-> syncing[d].map]
    BY <1>8, AreFunctions DEF StartSync, GoOn, SyncAt, tree, branch
  <2>2. hold[d] = NoHold /\ merging[d] = 0 /\ syncing[d].map = {}
    BY <1>3, <2>1 DEF NoteStage
  <2>3. syncing'[d].at = "commit" /\ syncing'[d].map = {}
    BY <2>1, <2>2
  <2>4. NoteStage(d)'
    BY <2>1, <2>2, <2>3 DEF NoteStage, Recovering
  <2> QED
    BY <1>3, <1>5, <2>1, <2>4
<1>9. ASSUME PullFails(d) PROVE NotesCore'
  <2>1. /\ syncing[d].at = "pull" /\ hold' = hold /\ merging' = merging /\ notes' = notes
        /\ syncing'[d].at = "restore" /\ syncing'[d].map = syncing[d].map
    <3>1. syncing'[d] = [at |-> "restore", map |-> syncing[d].map]
      BY <1>9, AreFunctions DEF PullFails, GoOn, SyncAt
    <3> QED
      BY <1>9, <3>1 DEF PullFails, tree, branch
  <2>2. syncing[d].map = {} /\ Meant(hold[d].notes, hold[d].engrams, Removed)
    BY <1>3, <2>1 DEF NoteStage
  <2>3. Public(engrams[d])
    BY <1>4, <2>1 DEF InStage, Device, Trees, Stands, StandsIn
  <2>4. NoteStage(d)'
    BY <1>1, <1>2, <2>1, <2>2, <2>3 DEF NoteStage, Recovering
  <2> QED
    BY <1>3, <1>5, <2>1, <2>4
<1>10. ASSUME StartMerge(d) PROVE NotesCore'
  <2>1. /\ syncing[d].at = "pull" /\ hold' = hold /\ notes' = notes
        /\ syncing'[d].at = "merge" /\ syncing'[d].map = syncing[d].map
    <3>1. syncing'[d] = [at |-> "merge", map |-> syncing[d].map]
      BY <1>10, AreFunctions DEF StartMerge, GoOn, SyncAt
    <3> QED
      BY <1>10, <3>1 DEF StartMerge, tree
  <2>2. /\ syncing[d].map = {} /\ Meant(hold[d].notes, hold[d].engrams, Removed)
        /\ IdsOf(head[d].engrams) \cap IdsOf(hold[d].engrams) = {}
    BY <1>3, <2>1 DEF NoteStage
  <2>3. NoteStage(d)'
    BY <1>1, <1>2, <2>1, <2>2 DEF NoteStage, Recovering
  <2> QED
    BY <1>3, <1>5, <2>1, <2>3
<1>11. ASSUME SaveRenames(d) PROVE NotesCore'
  <2>1. /\ syncing[d].at = "saveRenames" /\ notes' = notes
        /\ syncing'[d].at = "conclude" /\ syncing'[d].map = syncing[d].map
    <3>1. syncing'[d] = [at |-> "conclude", map |-> syncing[d].map]
      BY <1>11, AreFunctions DEF SaveRenames, GoOn, SyncAt
    <3> QED
      BY <1>11, <3>1 DEF SaveRenames, tree
  <2>2. hold'[d].engrams = hold[d].engrams /\ hold'[d].notes = hold[d].notes
    <3> DEFINE h == [hold[d] EXCEPT !.renames = syncing[d].map]
    <3>1. h.engrams = hold[d].engrams /\ h.notes = hold[d].notes
      BY Parts, PartsBelow, HoldIs
    <3>2. hold' = hold \/ hold' = Put(hold, d, h)
      BY <1>11 DEF SaveRenames
    <3> HIDE DEF h
    <3> QED
      BY <3>1, <3>2, AreFunctions
  <2>3. /\ Meant(hold[d].notes, hold[d].engrams, Removed)
        /\ \A r \in syncing[d].map : r[1] \notin IdsOf(hold[d].engrams)
    BY <1>3, <2>1 DEF NoteStage
  <2>4. NoteStage(d)'
    BY <1>1, <1>2, <2>1, <2>2, <2>3 DEF NoteStage, Recovering
  <2> QED
    BY <1>3, <1>5, <2>1, <2>4
<1>12. ASSUME Crash(d) PROVE FALSE
  <2>1. crashes' = crashes + 1 /\ crashes \in Nat
    BY <1>12 DEF Crash, GitTypes
  <2> QED
    BY <2>1
<1>13. ASSUME Hold(d) PROVE NotesCore'
  <2> DEFINE E == engrams[d]
             H == E \ PushedEngrams(E)
             N == notes[d] \ PushedNotes(notes[d], E)
  <2>1. /\ syncing[d].at = "hold" /\ notes' = notes /\ hold'[d] = HeldOf(d) /\ merging' = merging
        /\ syncing'[d].at \in {"pull", "reset"} /\ syncing'[d].map = syncing[d].map
    <3>1. \E s \in {"pull", "reset"} : syncing'[d] = [at |-> s, map |-> syncing[d].map]
      BY <1>13, AreFunctions DEF Hold, GoOn, SyncAt
    <3>2. hold'[d] = HeldOf(d)
      BY <1>13, AreFunctions DEF Hold, Held
    <3>3. syncing'[d].at \in {"pull", "reset"} /\ syncing'[d].map = syncing[d].map
      BY <3>1
    <3> QED
      BY <1>13, <3>2, <3>3 DEF Hold, tree, branch
  <2>2. hold'[d].engrams = H /\ hold'[d].notes = N
    BY <2>1 DEF HeldOf
  <2>3. syncing[d].map = {}
    BY <1>3, <2>1 DEF NoteStage
  <2>4. SoundBy(E, births)
    BY <1>4 DEF Device, Private, PrivateIn
  <2>5. Meant(N, H, Removed)
    BY <1>3, <2>4, MeantPushed
  <2>6. head[d].engrams = PushedEngrams(E)
    BY <1>4, <2>1 DEF InStage, Strip
  <2>7. IdsOf(head[d].engrams) \cap IdsOf(H) = {}
    <3>1. \A e, f \in E : e.id = f.id => e = f
      BY <2>4 DEF SoundBy
    <3>2. head[d].engrams \subseteq E /\ \A e \in H : e \in E /\ e \notin head[d].engrams
      BY <2>6 DEF PushedEngrams
    <3> HIDE DEF H
    <3> QED
      BY <3>1, <3>2 DEF IdsOf
  <2> HIDE DEF H, N
  <2>8. NoteStage(d)'
    BY <1>1, <1>2, <2>1, <2>2, <2>3, <2>5, <2>7 DEF NoteStage, Recovering
  <2> QED
    BY <1>3, <1>5, <2>1, <2>8
<1>14. ASSUME RestoreNotes(d, "restoreNotes", "restored") PROVE NotesCore'
  <2>1. /\ syncing[d].at = "restoreNotes" /\ syncing'[d].at = "restored"
        /\ notes'[d] = notes[d] \cup RenameNotes(hold[d].notes, syncing[d].map)
    BY <1>14, AreFunctions DEF RestoreNotes, RestoreNotesBy, GoOn, SyncAt
  <2>2. Meant(RenameNotes(hold[d].notes, syncing[d].map), engrams[d], Removed)
    BY <1>3, <2>1 DEF NoteStage
  <2>3. Meant(notes'[d], engrams[d], Removed)
    BY <1>3, <2>1, <2>2 DEF Meant
  <2>4. NoteStage(d)'
    BY <2>1 DEF NoteStage, Recovering
  <2> QED
    BY <1>5, <2>3, <2>4
<1>15. ASSUME DropHold(d, "restored", "push") PROVE NotesCore'
  <2>1. syncing'[d].at = "push" /\ syncing'[d].map = {} /\ hold'[d] = NoHold /\ notes' = notes
    <3>1. syncing'[d] = [at |-> "push", map |-> {}]
      BY <1>15, AreFunctions DEF DropHold, SyncAt
    <3> QED
      BY <1>15, <3>1, AreFunctions DEF DropHold, tree
  <2>2. NoteStage(d)'
    BY <2>1 DEF NoteStage, Recovering
  <2> QED
    BY <1>3, <1>5, <2>1, <2>2
<1>16. ASSUME RestoreNotes(d, "recoverNotes", "recovered") \/ DropHold(d, "recovered", "commit") PROVE FALSE
  <2>1. syncing[d].at \in Recovering
    BY <1>16 DEF RestoreNotes, RestoreNotesBy, DropHold, Recovering
  <2> QED
    BY <1>3, <2>1 DEF NoteStage
<1> QED
  BY <1>7, <1>8, <1>9, <1>10, <1>11, <1>12, <1>13, <1>14, <1>15, <1>16 DEF Quiet

\* The steps that move engrams: the notes of the store go with them.
LEMMA NotesMoving ==
  ASSUME GitTypes, GitCore, NotesCore, NEW d \in Devices, Moving(d), ~reused', crashes' = 0
  PROVE  NotesCore'
<1> DEFINE E == engrams[d]
           H == hold[d].engrams
           S == head[d].engrams
<1>1. /\ Only(d) /\ purged' = purged /\ remote' = remote /\ hold'[d].engrams = H /\ hold'[d].notes = hold[d].notes
  BY MovingFits
<1>2. Removed' = Removed
  BY <1>1 DEF Removed
<1>3. NoteStage(d) /\ Meant(notes[d], E, Removed) /\ Meant(head[d].notes, S, Removed)
  BY DEF NotesCore, Noted
<1>4. Device(d) /\ InStage(d) /\ Trees(d) /\ RemoteInv
  BY DEF GitCore, Device
<1>5. /\ E \in SUBSET Engram /\ H \in SUBSET Engram /\ S \in SUBSET Engram /\ head[d].notes \in SUBSET About
      /\ hold[d].notes \in SUBSET About /\ syncing[d].map \in SUBSET (Ids \X Ids)
      /\ base[d] \in 1..Len(remote) /\ merging[d] \in 0..Len(remote) /\ Len(remote) \in Nat
  BY Parts
<1>6. SoundBy(E, births) /\ SoundBy(H, births) /\ \A h \in H : h.private
  BY <1>4 DEF Device, Private, PrivateIn
<1>7. Public(S) /\ Stands(S, base[d])
  BY <1>4 DEF Trees, Stands, StandsIn
<1>8. ASSUME NoteStage(d)', Meant(notes'[d], engrams'[d], Removed), Meant(head'[d].notes, head'[d].engrams, Removed) PROVE NotesCore'
  <2>1. Noted(d)'
    BY <1>2, <1>8 DEF Noted
  <2> QED
    BY <1>1, <1>2, <2>1, NotesStep
<1>16. ASSUME NEW e \in Readable(d), Note(d, e) PROVE NotesCore'
  <2>1. /\ syncing[d].at = "idle" /\ hold' = hold /\ merging' = merging /\ syncing' = syncing /\ head' = head
        /\ engrams' = engrams /\ notes'[d] = notes[d] \cup {[ref |-> e.id, means |-> e.birth]}
    BY <1>16, AreFunctions DEF Note
  <2>2. NoteStage(d)'
    BY <1>3, <2>1 DEF NoteStage, Recovering
  <2>3. Readable(d) = E
    <3>1. hold[d] = NoHold
      BY <1>3, <2>1 DEF NoteStage
    <3> QED
      BY <3>1, ReadsAll DEF Readable, NoHold
  <2>4. Meant(notes'[d], E, Removed)
    BY <1>3, <2>1, <2>3 DEF Meant
  <2> QED
    BY <1>3, <1>8, <2>1, <2>2, <2>4
<1>9. ASSUME Recover(d) \/ RestoreEngrams(d, "recoverEngrams", "recoverNotes") PROVE FALSE
  BY <1>3, <1>9 DEF Recover, RestoreEngrams, NoteStage, Recovering
<1>10. ASSUME RestoreEngrams(d, "restore", "restoreNotes") PROVE NotesCore'
  <2> DEFINE map == syncing[d].map \cup HeldRenames(E, H)
  <2>1. syncing'[d] = [at |-> "restoreNotes", map |-> map]
    BY <1>10, AreFunctions DEF RestoreEngrams, SyncAt
  <2>2. /\ syncing[d].at = "restore" /\ syncing'[d].at = "restoreNotes" /\ syncing'[d].map = map
        /\ notes' = notes /\ head' = head /\ engrams'[d] = PutBack(E, H)
    BY <1>10, <2>1, AreFunctions DEF RestoreEngrams, Readable, branch
  <2>3. Public(E) /\ Meant(hold[d].notes, H, Removed) /\ \A r \in syncing[d].map : r[1] \notin IdsOf(H)
    BY <1>3, <2>2 DEF NoteStage
  <2>4. Meant(RenameNotes(hold[d].notes, map), PutBack(E, H), Removed)
    BY <1>5, <1>6, <2>3, MeantBack
  <2> HIDE DEF map
  <2>5. NoteStage(d)'
    BY <1>1, <1>2, <2>2, <2>4 DEF NoteStage, Recovering
  <2>6. E \subseteq PutBack(E, H)
    BY <1>5, PutBackIs
  <2>7. Meant(notes[d], PutBack(E, H), Removed)
    BY <1>3, <2>6, MeantGrows
  <2> QED
    BY <1>3, <1>8, <2>2, <2>5, <2>7
<1>11. ASSUME Commit(d) \/ Conclude(d) PROVE NotesCore'
  <2>1. /\ engrams' = engrams /\ notes' = notes /\ hold' = hold /\ merging'[d] = 0 /\ head'[d] = Strip(E, notes[d])
    BY <1>11, AreFunctions DEF Commit, Conclude, tree
  <2>2. head'[d].engrams = PushedEngrams(E) /\ head'[d].notes = PushedNotes(notes[d], E)
    BY <2>1 DEF Strip
  <2>3. Meant(head'[d].notes, head'[d].engrams, Removed)
    BY <1>3, <1>6, <2>2, MeantPushed
  <2>4. CASE Commit(d)
    <3>1. \E s \in {"hold", "push"} : syncing'[d] = [at |-> s, map |-> syncing[d].map]
      BY <2>4, AreFunctions DEF Commit, GoOn, SyncAt
    <3>2. syncing'[d].at \in {"hold", "push"} /\ syncing'[d].map = syncing[d].map
      BY <3>1
    <3>3. hold[d] = NoHold /\ syncing[d].map = {}
      BY <1>3, <2>4 DEF NoteStage, Commit
    <3>4. NoteStage(d)'
      BY <2>1, <3>2, <3>3 DEF NoteStage, Recovering
    <3> QED
      BY <1>3, <1>8, <2>1, <2>3, <3>4
  <2>5. CASE Conclude(d)
    <3>1. syncing'[d] = [at |-> "restore", map |-> syncing[d].map] /\ syncing[d].at = "conclude"
      BY <2>5, AreFunctions DEF Conclude, GoOn, SyncAt
    <3>2. syncing'[d].at = "restore" /\ syncing'[d].map = syncing[d].map
      BY <3>1
    <3>3. /\ Meant(hold[d].notes, H, Removed) /\ \A r \in syncing[d].map : r[1] \notin IdsOf(H)
      BY <1>3, <3>1 DEF NoteStage
    <3>4. Public(E)
      BY <1>4, <3>1 DEF InStage, Public
    <3>5. NoteStage(d)'
      BY <1>2, <2>1, <3>2, <3>3, <3>4 DEF NoteStage, Recovering
    <3> QED
      BY <1>3, <1>8, <2>1, <2>3, <3>5
  <2> QED
    BY <1>11, <2>4, <2>5
<1>12. ASSUME Reset(d) \/ ConcludeFails(d) PROVE NotesCore'
  <2>1. /\ engrams'[d] = S /\ notes'[d] = head[d].notes /\ head' = head
    BY <1>12, AreFunctions DEF Reset, ConcludeFails, branch
  <2>2. CASE Reset(d)
    <3>1. syncing'[d] = [at |-> "pull", map |-> syncing[d].map] /\ syncing[d].at = "reset"
      BY <2>2, AreFunctions DEF Reset, GoOn, SyncAt
    <3>2. syncing'[d].at = "pull" /\ syncing'[d].map = syncing[d].map
      BY <3>1
    <3>3. /\ Meant(hold[d].notes, H, Removed) /\ syncing[d].map = {} /\ IdsOf(S) \cap IdsOf(H) = {}
      BY <1>3, <3>1 DEF NoteStage
    <3>4. NoteStage(d)'
      BY <1>1, <1>2, <2>1, <3>2, <3>3 DEF NoteStage, Recovering
    <3> QED
      BY <1>3, <1>8, <2>1, <3>4
  <2>3. CASE ConcludeFails(d)
    <3>1. syncing'[d] = [at |-> "restore", map |-> {}] /\ syncing[d].at = "conclude"
      BY <2>3, AreFunctions DEF ConcludeFails, SyncAt
    <3>2. syncing'[d].at = "restore" /\ syncing'[d].map = {}
      BY <3>1
    <3>3. Meant(hold[d].notes, H, Removed)
      BY <1>3, <3>1 DEF NoteStage
    <3>4. NoteStage(d)'
      BY <1>1, <1>2, <1>7, <2>1, <3>2, <3>3 DEF NoteStage, Recovering
    <3> QED
      BY <1>3, <1>8, <2>1, <3>4
  <2> QED
    BY <1>12, <2>2, <2>3
<1>13. ASSUME NEW k \in 1..Len(remote), base[d] <= k, ~Reused(remote[base[d]], remote[k])
       PROVE  LET M == MergeTrees(remote[base[d]], head[d], remote[k]) IN
              Meant(M.notes, M.engrams, Removed) /\ M.engrams = Merged(S, base[d], k) /\ Public(M.engrams)
  <2> DEFINE M == MergeTrees(remote[base[d]], head[d], remote[k])
             map == MergeMap(S, base[d], k)
             B == remote[base[d]].notes
  <2>1. Merges(S, base[d], k)
    BY <1>4, <1>5, <1>7, <1>13 DEF Merges
  <2>2. Meant(remote[k].notes, remote[k].engrams, Removed)
    BY DEF NotesCore
  <2>3. Meant(MergeNotes(B, RenameNotes(head[d].notes, map), remote[k].notes), Merged(S, base[d], k), Removed)
    BY <1>3, <1>5, <2>1, <2>2, MeantMerged
  <2>4. M.engrams = Merged(S, base[d], k) /\ M.notes = MergeNotes(B, RenameNotes(head[d].notes, map), remote[k].notes)
    <3>1. /\ remote[base[d]] \in Tree /\ remote[k] \in Tree /\ head[d] \in Tree
          /\ Below(head[d].engrams, births) /\ Below(remote[k].engrams, births)
      <4>1. remote[base[d]] \in Tree /\ remote[k] \in Tree
        BY <1>5, CommitIs
      <4>2. Below(remote[k].engrams, births)
        BY DEF GitTypes
      <4>3. head[d] \in Tree
        BY Parts
      <4>4. Below(head[d].engrams, births)
        BY PartsBelow
      <4> QED
        BY <4>1, <4>2, <4>3, <4>4
    <3> QED
      BY <3>1, MergeTypes DEF Merged, MergeMap
  <2>5. Public(Merged(S, base[d], k))
    BY <2>1, MergedSound
  <2> HIDE DEF M
  <2>6. Meant(M.notes, M.engrams, Removed) /\ M.engrams = Merged(S, base[d], k) /\ Public(M.engrams)
    BY <2>3, <2>4, <2>5
  <2> QED
    BY <2>6 DEF M
<1>14. ASSUME Rebase(d) PROVE NotesCore'
  <2> DEFINE k == Len(remote)
             M == MergeTrees(remote[base[d]], head[d], remote[k])
  <2>1. /\ engrams' = Put(engrams, d, M.engrams) /\ notes' = Put(notes, d, M.notes) /\ head' = Put(head, d, M)
        /\ GoOn(d, "restore") /\ syncing[d].at = "pull" /\ hold' = hold
    BY <1>14 DEF Rebase, Base, Theirs
  <2>2. ~Reused(remote[base[d]], remote[k])
    BY <1>14, Zenon DEF Rebase, Base, Theirs
  <2>3. base[d] <= k /\ k \in 1..Len(remote)
    BY <1>5
  <2>4. Meant(M.notes, M.engrams, Removed) /\ Public(M.engrams)
    BY <1>13, <2>2, <2>3
  <2> HIDE DEF M
  <2>5. engrams'[d] = M.engrams /\ notes'[d] = M.notes /\ head'[d] = M
    BY <2>1, AreFunctions
  <2>6. syncing'[d] = [at |-> "restore", map |-> syncing[d].map]
    BY <2>1, AreFunctions DEF GoOn, SyncAt
  <2>7. syncing'[d].at = "restore" /\ syncing'[d].map = syncing[d].map
    BY <2>6
  <2>8. syncing[d].map = {} /\ Meant(hold[d].notes, H, Removed)
    BY <1>3, <2>1 DEF NoteStage
  <2>9. NoteStage(d)'
    BY <1>2, <2>1, <2>4, <2>5, <2>7, <2>8 DEF NoteStage, Recovering
  <2> QED
    BY <1>8, <2>4, <2>5, <2>9
<1>15. ASSUME MergeRecords(d) PROVE NotesCore'
  <2> DEFINE k == merging[d]
             M == MergeTrees(remote[base[d]], head[d], remote[k])
             map == MergeRenames(remote[base[d]].engrams, S, remote[k].engrams)
  <2>1. /\ engrams' = Put(engrams, d, M.engrams) /\ notes' = Put(notes, d, M.notes) /\ head' = head
        /\ SyncAt(d, "saveRenames", map) /\ syncing[d].at = "merge" /\ hold' = hold
    BY <1>15 DEF MergeRecords, Base
  <2>2. ~Reused(remote[base[d]], remote[k])
    BY <1>15, Zenon DEF MergeRecords, Base
  <2>3. base[d] <= k /\ k \in 1..Len(remote)
    <3>1. merging[d] # 0 /\ base[d] <= merging[d]
      BY <1>4, <2>1 DEF InStage, Merging
    <3> QED
      BY <1>5, <3>1
  <2>4. Meant(M.notes, M.engrams, Removed)
    BY <1>13, <2>2, <2>3
  <2>5. \A r \in map : r[1] \in IdsOf(S)
    BY DEF MergeRenames, LocalClashes, IdsOf
  <2> HIDE DEF M, map
  <2>6. engrams'[d] = M.engrams /\ notes'[d] = M.notes
    BY <2>1, AreFunctions
  <2>7. syncing'[d] = [at |-> "saveRenames", map |-> map]
    BY <2>1, AreFunctions DEF SyncAt
  <2>8. syncing'[d].at = "saveRenames" /\ syncing'[d].map = map
    BY <2>7
  <2>9. Meant(hold[d].notes, H, Removed) /\ IdsOf(S) \cap IdsOf(H) = {}
    BY <1>3, <2>1 DEF NoteStage
  <2>10. NoteStage(d)'
    BY <1>2, <2>1, <2>5, <2>8, <2>9 DEF NoteStage, Recovering
  <2> QED
    BY <1>3, <1>8, <2>1, <2>4, <2>6, <2>10
<1> QED
  BY <1>9, <1>10, <1>11, <1>12, <1>14, <1>15, <1>16 DEF Moving, Noting, Restoring

\* A push, of a commit whose notes are about what is in it.
LEMMA NotesPush ==
  ASSUME GitTypes, GitCore, NotesCore, NEW d \in Devices, Push(d)
  PROVE  NotesCore'
<1> DEFINE L == Len(remote)
<1>1. /\ engrams' = engrams /\ head' = head /\ merging' = merging /\ hold' = hold /\ purged' = purged /\ notes' = notes
      /\ Only(d) /\ syncing'[d] = [at |-> "idle", map |-> syncing[d].map] /\ syncing[d].at = "push"
  BY PushIs
<1>2. Removed' = Removed
  BY <1>1 DEF Removed
<1>3. syncing'[d].at = "idle" /\ syncing'[d].map = syncing[d].map
  BY <1>1
<1>4. NoteStage(d)
  BY DEF NotesCore, Noted
<1>5. hold[d] = NoHold /\ syncing[d].map = {} /\ merging[d] = 0
  <2>1. InStage(d)
    BY DEF GitCore, Device
  <2> QED
    BY <1>1, <1>4, <2>1 DEF NoteStage, InStage, Pulling
<1>6. NoteStage(d)'
  BY <1>1, <1>3, <1>5 DEF NoteStage, Recovering
<1>7. ASSUME NEW c \in Devices PROVE Noted(c)'
  <2>1. Noted(c)
    BY DEF NotesCore
  <2>2. NoteStage(c)'
    <3>1. CASE c # d
      <4>1. syncing'[c] = syncing[c]
        BY <1>1, <3>1, OthersKeep
      <4> QED
        BY <1>1, <1>2, <2>1, <4>1, Zenon DEF Noted, NoteStage
    <3> QED
      BY <1>6, <3>1
  <2> QED
    BY <1>1, <1>2, <2>1, <2>2 DEF Noted
<1>8. \A i \in 1..Len(remote') : Meant(remote'[i].notes, remote'[i].engrams, Removed)
  <2>1. Meant(head[d].notes, head[d].engrams, Removed) /\ \A i \in 1..L : Meant(remote[i].notes, remote[i].engrams, Removed)
    BY DEF NotesCore, Noted
  <2>2. CASE Lands(d)
    <3>1. Len(remote') = L + 1 /\ remote'[L + 1] = head[d] /\ \A i \in 1..L : remote'[i] = remote[i]
      BY <2>2, PushIs
    <3>2. L \in Nat
      BY Parts
    <3> HIDE DEF L
    <3>3. \A i \in 1..Len(remote') : i \in 1..L \/ i = L + 1
      BY <3>1, <3>2
    <3> QED
      BY <2>1, <3>1, <3>3
  <2>3. CASE ~Lands(d)
    <3>1. remote' = remote
      BY <2>3, PushIs
    <3> QED
      BY <2>1, <3>1
  <2> QED
    BY <2>2, <2>3
<1> QED
  BY <1>2, <1>7, <1>8 DEF NotesCore

\* At first there is no note.
LEMMA NotesFirst ==
  ASSUME GitInit
  PROVE  NotesCore
<1>1. \A S, X : Meant({}, S, X)
  BY DEF Meant
<1>2. /\ Len(remote) = 1 /\ remote[1].notes = {}
      /\ \A d \in Devices : notes[d] = {} /\ head[d] = remote[1] /\ merging[d] = 0 /\ hold[d] = NoHold /\ syncing[d] = Idle
  BY DEF GitInit, Strip, PushedNotes
<1>3. Idle.at = "idle" /\ Idle.map = {}
  BY DEF Idle
<1>4. \A d \in Devices : NoteStage(d)
  BY <1>2, <1>3 DEF NoteStage, Recovering
<1>5. \A i \in 1..Len(remote) : i = 1
  BY <1>2
<1>6. ASSUME NEW d \in Devices PROVE Noted(d)
  <2>1. notes[d] = {} /\ head[d].notes = {}
    BY <1>2
  <2>2. Meant(notes[d], engrams[d], Removed) /\ Meant(head[d].notes, head[d].engrams, Removed)
    BY <1>1, <2>1
  <2> QED
    BY <1>4, <2>2 DEF Noted
<1>7. ASSUME NEW i \in 1..Len(remote) PROVE Meant(remote[i].notes, remote[i].engrams, Removed)
  <2>1. i = 1
    BY <1>5
  <2>2. remote[i].notes = {}
    BY <1>2, <2>1
  <2> QED
    BY <1>1, <2>2
<1> QED
  BY <1>6, <1>7 DEF NotesCore

\* A step keeps the notes as long as no sync has been cut short.
LEMMA NotesKept ==
  ASSUME GitTypes, GitTypes', GitCore, NotesCore, [GitNext]_gitVars, ~reused', crashes' = 0
  PROVE  NotesCore'
<1>1. ASSUME UNCHANGED gitVars PROVE NotesCore'
  <2>1. Removed' = Removed
    BY <1>1 DEF gitVars, Removed
  <2>2. \A i \in 1..Len(remote') : Meant(remote'[i].notes, remote'[i].engrams, Removed')
    BY <1>1, <2>1 DEF gitVars, NotesCore
  <2>3. ASSUME NEW c \in Devices PROVE Noted(c)'
    <3>1. NoteStage(c) /\ Meant(notes[c], engrams[c], Removed) /\ Meant(head[c].notes, head[c].engrams, Removed)
      BY DEF NotesCore, Noted
    <3>2. NoteStage(c)'
      BY <1>1, <2>1, <3>1, Zenon DEF gitVars, NoteStage
    <3>3. Meant(notes'[c], engrams'[c], Removed') /\ Meant(head'[c].notes, head'[c].engrams, Removed')
      BY <1>1, <2>1, <3>1 DEF gitVars
    <3> QED
      BY <3>2, <3>3 DEF Noted
  <2> QED
    BY <2>2, <2>3 DEF NotesCore
<1>2. ASSUME NEW d \in Devices, Writing(d) PROVE NotesCore'
  BY <1>2, NotesWriting
<1>3. ASSUME NEW d \in Devices, Quiet(d) PROVE NotesCore'
  BY <1>3, NotesQuiet
<1>4. ASSUME NEW d \in Devices, Moving(d) PROVE NotesCore'
  BY <1>4, NotesMoving
<1>5. ASSUME NEW d \in Devices, Push(d) PROVE NotesCore'
  BY <1>5, NotesPush
<1> QED
  BY <1>1, <1>2, <1>3, <1>4, <1>5, Kinds

\* The notes' invariant beside the other one.
LEMMA NotesHold == GitSpec => [](GitTypes /\ GitInv /\ NotesInv)
<1>1. GitInit => NotesInv
  BY NotesFirst DEF NotesInv
<1>2. GitTypes /\ GitInv /\ NotesInv /\ [GitNext]_gitVars /\ GitTypes' => NotesInv'
  <2> SUFFICES ASSUME GitTypes, GitInv, NotesInv, [GitNext]_gitVars, GitTypes', ~reused', crashes' = 0 PROVE NotesCore'
    BY DEF NotesInv
  <2>1. ~reused /\ crashes = 0
    <3>1. ~reused
      BY ReusedStays
    <3>2. crashes \in Nat /\ crashes <= crashes'
      BY ReusedStays DEF GitTypes
    <3> QED
      BY <3>1, <3>2
  <2>2. GitCore /\ NotesCore
    BY <2>1 DEF GitInv, NotesInv
  <2> QED
    BY <2>2, NotesKept
<1> QED
  BY <1>1, <1>2, GitHolds, PTL DEF GitSpec

\* While no pull has met an id that names another memory, no commit of the remote holds an engram that is to stay on its
\* device, nor, while no sync was cut short, a note about a memory that the remote was not given.
THEOREM LocalStays == GitSpec => [](~reused => LocalStaysLocal)
<1>1. ASSUME GitTypes, GitInv, NotesInv, ~reused PROVE LocalStaysLocal
  <2> SUFFICES ASSUME NEW i \in DOMAIN remote
               PROVE  /\ \A e \in remote[i].engrams : ~e.private
                      /\ crashes = 0 => \A n \in remote[i].notes : n.means \in BirthsOf(remote[i].engrams) \cup Removed
    BY DEF LocalStaysLocal
  <2>1. i \in 1..Len(remote)
    <3>1. remote \in Seq(Tree)
      BY <1>1 DEF GitTypes
    <3> QED
      BY <3>1
  <2>2. Public(remote[i].engrams)
    BY <1>1, <2>1 DEF GitInv, GitCore, RemoteInv, RemoteIn
  <2>3. ASSUME crashes = 0, NEW n \in remote[i].notes PROVE n.means \in BirthsOf(remote[i].engrams) \cup Removed
    <3>1. Meant(remote[i].notes, remote[i].engrams, Removed)
      BY <1>1, <2>1, <2>3 DEF NotesInv, NotesCore
    <3> QED
      BY <2>3, <3>1 DEF Meant, BirthsOf
  <2> QED
    BY <2>2, <2>3 DEF Public
<1> QED
  BY <1>1, NotesHold, PTL

\* And every note that a device holds after a sync names the memory it was written about.
THEOREM NotesFollowIds == GitSpec => [](~reused => NotesFollow)
<1>1. ASSUME GitTypes, GitInv, NotesInv, ~reused PROVE NotesFollow
  <2> SUFFICES ASSUME crashes = 0, NEW d \in Devices, syncing[d].at = "idle", NEW n \in notes[d]
               PROVE  n.means \in Removed \/ \A e \in Readable(d) : e.id = n.ref => e.birth = n.means
    BY DEF NotesFollow, Means
  <2>1. NoteStage(d) /\ Meant(notes[d], engrams[d], Removed)
    BY <1>1 DEF NotesInv, NotesCore, Noted
  <2>2. Readable(d) = engrams[d]
    <3>1. hold[d] = NoHold
      BY <2>1 DEF NoteStage
    <3> QED
      BY <3>1, ReadsAll DEF Readable, NoHold
  <2>3. SoundBy(engrams[d], births)
    BY <1>1 DEF GitInv, GitCore, Device, Private, PrivateIn
  <2> QED
    BY <2>1, <2>2, <2>3 DEF Meant, SoundBy
<1> QED
  BY <1>1, NotesHold, PTL

----------------------------------------------------------------------------
(* What is to stay on its device, whatever ids are given again *)

\* A merge takes what stays local from this device's commit alone, and its commit has none.
LEMMA MergePublic ==
  ASSUME NEW b, NEW o \in SUBSET Engram, NEW t \in SUBSET Engram, Public(o), Public(t)
  PROVE  Public(MergeLists(b, RenameEngrams(o, MergeRenames(b, o, t)), t))
<1> DEFINE R == RenameEngrams(o, MergeRenames(b, o, t))
<1>1. Public(R)
  <2>1. ASSUME NEW e \in o PROVE ~[e EXCEPT !.id = Renamed(MergeRenames(b, o, t), e.id)].private
    BY <2>1 DEF Public, Engram
  <2> QED
    BY <2>1 DEF Public, RenameEngrams
<1>0. ASSUME NEW e \in R PROVE "private" \in DOMAIN e
  BY <1>0 DEF RenameEngrams, Engram
<1> HIDE DEF R
<1>2. ASSUME NEW id \in IdsOf(b) \cap IdsOf(R) \cap IdsOf(t) PROVE ~MergeOne(ById(b, id), ById(R, id), ById(t, id)).private
  <2>1. ById(R, id) \in R /\ ById(t, id) \in t
    BY <1>2 DEF ById, IdsOf
  <2>2. ~ById(R, id).private /\ ~ById(t, id).private
    BY <1>1, <2>1 DEF Public
  <2> DEFINE x == ById(R, id)
             y == ById(t, id)
             z == ById(b, id)
  <2>3. ~x.private /\ ~y.private
    BY <2>2
  <2>5. "private" \in DOMAIN x
    BY <1>0, <2>1
  <2> HIDE DEF x, y, z
  <2>4. ~MergeOne(z, x, y).private
    <3>1. MergeChanged(x, y, z).private = x.private
      BY <2>5 DEF MergeChanged
    <3> QED
      BY <2>3, <3>1 DEF MergeOne, ChangedOne
  <2> QED
    BY <2>4 DEF x, y, z
<1> QED
  BY <1>1, <1>2 DEF Public, MergeLists, R

\* No commit, pushed or not, holds what is to stay on its device.
LocalInv == (\A d \in Devices : Public(head[d].engrams)) /\ \A i \in 1..Len(remote) : Public(remote[i].engrams)

\* What a step commits or pushes has been stripped.
LEMMA LocalKept ==
  ASSUME GitTypes, LocalInv, NEW d \in Devices, Writing(d) \/ Quiet(d) \/ Moving(d) \/ Push(d)
  PROVE  LocalInv'
<1> SUFFICES (\A c \in Devices : Public(head'[c].engrams)) /\ \A i \in 1..Len(remote') : Public(remote'[i].engrams)
  BY DEF LocalInv
<1>1. ASSUME NEW E, NEW N PROVE Public(Strip(E, N).engrams)
  BY DEF Public, Strip, PushedEngrams
<1>2. ASSUME head' = head, remote' = remote
      PROVE  (\A c \in Devices : Public(head'[c].engrams)) /\ \A i \in 1..Len(remote') : Public(remote'[i].engrams)
  BY <1>2 DEF LocalInv
<1>3. ASSUME NEW T, Public(T.engrams), head' = Put(head, d, T), remote' = remote
      PROVE  (\A c \in Devices : Public(head'[c].engrams)) /\ \A i \in 1..Len(remote') : Public(remote'[i].engrams)
  <2>1. \A c \in Devices : head'[c] = (IF c = d THEN T ELSE head[c])
    BY <1>3, AreFunctions DEF Put
  <2> QED
    BY <1>3, <2>1 DEF LocalInv
<1>4. CASE Writing(d)
  BY <1>2, <1>4 DEF Writing, Learn, Edit, Retire, Purge, SaveStore
<1>5. CASE Quiet(d)
  BY <1>2, <1>5, QuietFits
<1>6. ASSUME Commit(d) \/ Conclude(d) PROVE head' = Put(head, d, Strip(engrams[d], notes[d])) /\ remote' = remote
  BY <1>6 DEF Commit, Conclude, still
<1>7. ASSUME Rebase(d)
      PROVE  /\ head' = Put(head, d, MergeTrees(Base(d), head[d], Theirs)) /\ remote' = remote
             /\ Public(MergeTrees(Base(d), head[d], Theirs).engrams)
  <2>1. head' = Put(head, d, MergeTrees(Base(d), head[d], Theirs)) /\ remote' = remote
    BY <1>7 DEF Rebase
  <2>2. Public(head[d].engrams) /\ Public(Theirs.engrams)
    <3>1. Len(remote) \in 1..Len(remote)
      BY Parts
    <3> QED
      BY <3>1 DEF LocalInv, Theirs
  <2>3. MergeTrees(Base(d), head[d], Theirs).engrams
          = MergeLists(Base(d).engrams, RenameEngrams(head[d].engrams, MergeRenames(Base(d).engrams, head[d].engrams, Theirs.engrams)), Theirs.engrams)
    BY DEF MergeTrees
  <2>4. head[d].engrams \in SUBSET Engram /\ Theirs.engrams \in SUBSET Engram
    <3>1. Len(remote) \in 1..Len(remote)
      BY Parts
    <3>2. remote[Len(remote)] \in Tree
      BY <3>1 DEF GitTypes
    <3> QED
      BY <3>2, Parts DEF Tree, Theirs
  <2> QED
    BY <2>1, <2>2, <2>3, <2>4, MergePublic
<1>8. ASSUME Noting(d) \/ Recover(d) \/ Restoring(d) \/ Reset(d) \/ MergeRecords(d) \/ ConcludeFails(d)
      PROVE  head' = head /\ remote' = remote
  BY <1>8 DEF Noting, Note, Recover, Restoring, RestoreEngrams, Reset, MergeRecords, ConcludeFails, still, branch
<1>9. CASE Moving(d)
  BY <1>1, <1>2, <1>3, <1>6, <1>7, <1>8, <1>9 DEF Moving
<1>10. CASE Push(d)
  <2>1. head' = head
    BY <1>10, PushIs
  <2>2. CASE ~Lands(d)
    BY <1>2, <1>10, <2>1, <2>2, PushIs
  <2>3. CASE Lands(d)
    <3>1. /\ Len(remote') = Len(remote) + 1 /\ remote'[Len(remote) + 1] = head[d]
          /\ \A i \in 1..Len(remote) : remote'[i] = remote[i]
      BY <1>10, <2>3, PushIs
    <3>2. Len(remote) \in Nat
      BY Parts
    <3>3. \A i \in 1..Len(remote') : i \in 1..Len(remote) \/ i = Len(remote) + 1
      BY <3>1, <3>2
    <3> QED
      BY <2>1, <3>1, <3>3 DEF LocalInv
  <2> QED
    BY <2>2, <2>3
<1> QED
  BY <1>4, <1>5, <1>9, <1>10

\* Whatever the devices do, and whatever ids they give again, no commit ever pushed holds an engram that is to stay on its
\* device: the part of LocalStaysLocal about engrams, with no condition.
THEOREM PrivateNeverPushed == GitSpec => [](\A i \in DOMAIN remote : \A e \in remote[i].engrams : ~e.private)
<1>1. GitInit => LocalInv
  <2> SUFFICES ASSUME GitInit PROVE LocalInv
    OBVIOUS
  <2>1. Len(remote) = 1 /\ remote[1] = Strip({First}, {}) /\ \A d \in Devices : head[d] = remote[1]
    BY DEF GitInit
  <2>2. Public(remote[1].engrams)
    BY <2>1 DEF Public, Strip, PushedEngrams
  <2>3. \A i \in 1..Len(remote) : i = 1
    BY <2>1
  <2> QED
    BY <2>1, <2>2, <2>3 DEF LocalInv
<1>2. GitTypes /\ LocalInv /\ [GitNext]_gitVars => LocalInv'
  <2> SUFFICES ASSUME GitTypes, LocalInv, [GitNext]_gitVars PROVE LocalInv'
    OBVIOUS
  <2>1. CASE UNCHANGED gitVars
    BY <2>1 DEF gitVars, LocalInv
  <2>2. CASE GitNext
    BY <2>2, Kinds, LocalKept
  <2> QED
    BY <2>1, <2>2
<1>3. GitTypes /\ LocalInv => \A i \in DOMAIN remote : \A e \in remote[i].engrams : ~e.private
  <2> SUFFICES ASSUME GitTypes, LocalInv, NEW i \in DOMAIN remote PROVE Public(remote[i].engrams)
    BY DEF Public
  <2>1. remote \in Seq(Tree)
    BY DEF GitTypes
  <2>2. i \in 1..Len(remote)
    BY <2>1
  <2> QED
    BY <2>2 DEF LocalInv
<1> QED
  BY <1>1, <1>2, <1>3, GitTyped, PTL DEF GitSpec

----------------------------------------------------------------------------
(* Two devices: an id never comes to name another memory *)

AtMostTwo == \A a, b, c \in Devices : a = b \/ a = c \/ b = c

\* The commits that a device has not taken up, with the one it stands on.
Ahead(d) == base[d]..Len(remote)

\* A device that pulls, or that has a merge open, is behind.
Level(d) ==
  /\ syncing[d].at \in {"hold", "reset", "pull"} => base[d] < Len(remote)
  /\ merging[d] # 0 => base[d] < merging[d]

Agree(S, T) == \A e \in S, f \in T : e.id = f.id => e.birth = f.birth

\* Of two devices one is level with the remote.  It made all that the other is behind by, so that it has seen their
\* numbers, and nothing it holds disagrees with them.
TwoInv ==
  /\ \A d \in Devices : Level(d) /\ \A i, j \in Ahead(d) : Agree(remote[i].engrams, remote[j].engrams)
  /\ \A d, c \in Devices : d # c =>
       /\ base[d] < Len(remote) => base[c] = Len(remote) /\ \A i \in Ahead(d) : Below(remote[i].engrams, top[c])
       /\ base[c] = Len(remote) => \A i \in Ahead(d) : /\ Agree(remote[i].engrams, PushedEngrams(engrams[c]))
                                                      /\ Agree(remote[i].engrams, head[c].engrams)

\* Then no pull meets an id that names another memory than before.
LEMMA TwoQuiet ==
  ASSUME GitTypes, GitCore, TwoInv, ~reused, [GitNext]_gitVars
  PROVE  ~reused'
<1>1. ASSUME NEW d \in Devices, NEW i \in Ahead(d) PROVE ~Reused(remote[base[d]], remote[i])
  <2>1. base[d] \in Ahead(d)
    BY Parts DEF Ahead
  <2>2. Agree(remote[base[d]].engrams, remote[i].engrams)
    BY <2>1 DEF TwoInv
  <2> QED
    BY <2>2 DEF Agree, Reused
<1>2. CASE UNCHANGED gitVars
  BY <1>2, Zenon DEF gitVars
<1>3. ASSUME NEW d \in Devices, Rebase(d) PROVE ~reused'
  <2>1. reused' = (reused \/ Reused(Base(d), Theirs))
    BY <1>3 DEF Rebase
  <2>2. Len(remote) \in Ahead(d)
    BY Parts DEF Ahead
  <2>3. ~Reused(Base(d), Theirs)
    BY <1>1, <2>2 DEF Base, Theirs
  <2> QED
    BY <2>1, <2>3, Zenon
<1>4. ASSUME NEW d \in Devices, MergeRecords(d) PROVE ~reused'
  <2>1. reused' = (reused \/ Reused(Base(d), remote[merging[d]])) /\ syncing[d].at = "merge"
    BY <1>4 DEF MergeRecords
  <2>2. merging[d] # 0
    BY <2>1 DEF GitTypes, Merging
  <2>3. merging[d] \in Ahead(d)
    BY <2>2, Parts DEF TwoInv, Level, Ahead
  <2>4. ~Reused(Base(d), remote[merging[d]])
    BY <1>1, <2>3 DEF Base
  <2> QED
    BY <2>1, <2>4, Zenon
<1>5. CASE GitNext
  <2>1. PICK d \in Devices : Writing(d) \/ Quiet(d) \/ Moving(d) \/ Push(d)
    BY <1>5, Kinds
  <2>2. reused' = reused \/ Rebase(d) \/ MergeRecords(d)
    BY <2>1, Zenon DEF Writing, Quiet, Moving, Noting, Restoring, Learn, Edit, Retire, Purge, SaveStore, Note, AbortByHand, StartSync,
       Recover, RestoreEngrams, RestoreNotes, RestoreNotesBy, DropHold, Commit, Hold, Reset, PullFails, StartMerge,
       SaveRenames, Conclude, ConcludeFails, Push, Crash, still, users
  <2> QED
    BY <1>3, <1>4, <2>1, <2>2, Zenon
<1> QED
  BY <1>2, <1>5, Zenon

\* What a device had, or that has a number it had not seen.
Old(d, x) == (\E y \in PushedEngrams(engrams[d]) \cup head[d].engrams : y.id = x.id /\ y.birth = x.birth) \/ x.id[1] > top[d]

\* A step of a device that is level changes what may be pushed to nothing else.
Steady(d) ==
  /\ base[d] <= base'[d] /\ Level(d)'
  /\ base[d] = Len(remote) => \A x \in PushedEngrams(engrams'[d]) \cup head'[d].engrams : Old(d, x)

\* So the invariant is kept.
LEMMA TwoStep ==
  ASSUME GitTypes, GitTypes', GitCore, GitCore', TwoInv, NEW s \in Devices, Only(s), remote' = remote, top[s] <= top'[s], Steady(s)
  PROVE  TwoInv'
<1> DEFINE L == Len(remote)
<1>1. L \in Nat /\ \A d \in Devices : base[d] \in 1..L /\ base'[d] \in 1..L /\ top[d] \in Nat /\ top'[d] \in Nat /\ merging'[d] \in 0..L
  BY DEF GitTypes
<1>2. \A d \in Devices \ {s} : /\ base'[d] = base[d] /\ top'[d] = top[d] /\ engrams'[d] = engrams[d] /\ head'[d] = head[d]
                               /\ merging'[d] = merging[d] /\ syncing'[d] = syncing[d]
  BY OthersKeep
<1>3. \A d \in Devices : base[d] <= base'[d] /\ top[d] <= top'[d] /\ Level(d)'
  <2>1. \A d \in Devices \ {s} : Level(d)'
    BY <1>2 DEF TwoInv, Level
  <2> QED
    BY <1>1, <1>2, <2>1 DEF Steady
<1>4. \A d \in Devices : Ahead(d)' \subseteq Ahead(d) /\ Ahead(d) \subseteq 1..L
  BY <1>1, <1>3 DEF Ahead
<1>5. \A i \in 1..L : remote[i].engrams \in SUBSET Engram
  <2>1. \A i \in 1..L : remote[i] \in Tree
    BY DEF GitTypes
  <2> QED
    BY <2>1 DEF Tree
<1>6. ASSUME NEW d \in Devices PROVE \A i, j \in Ahead(d)' : Agree(remote[i].engrams, remote[j].engrams)
  BY <1>4 DEF TwoInv
<1>7. ASSUME NEW d \in Devices, NEW c \in Devices, d # c, base'[d] < L
      PROVE  base'[c] = L /\ \A i \in Ahead(d)' : Below(remote[i].engrams, top'[c])
  <2>1. base[d] < L
    BY <1>1, <1>3, <1>7
  <2>2. base[c] = L /\ \A i \in Ahead(d) : Below(remote[i].engrams, top[c])
    BY <1>7, <2>1 DEF TwoInv
  <2>3. base'[c] = L
    BY <1>1, <1>3, <2>2
  <2>4. ASSUME NEW i \in Ahead(d)' PROVE Below(remote[i].engrams, top'[c])
    <3>1. Below(remote[i].engrams, top[c]) /\ remote[i].engrams \in SUBSET Engram
      BY <1>4, <1>5, <2>2, <2>4
    <3>2. \A e \in remote[i].engrams : e.id[1] \in Nat
      BY <3>1, FreshIn
    <3> QED
      BY <1>1, <1>3, <3>1, <3>2 DEF Below
  <2> QED
    BY <2>3, <2>4
<1>8. ASSUME NEW d \in Devices, NEW c \in Devices, d # c, base'[c] = L, NEW i \in Ahead(d)', base'[d] = L
      PROVE  Agree(remote[i].engrams, PushedEngrams(engrams'[c])) /\ Agree(remote[i].engrams, head'[c].engrams)
  <2>1. i = L
    BY <1>1, <1>8 DEF Ahead
  <2>2. Trees(c)'
    BY DEF GitCore, Device
  <2>3. StandsIn(head'[c].engrams, L, remote, births', Removed')
    BY <1>8, <2>2 DEF Trees, Stands
  <2>4. merging'[c] = 0
    BY <1>1, <1>3, <1>8 DEF Level
  <2>5. Stand(c)' = L
    BY <1>8, <2>4 DEF Stand
  <2>6. StandsIn(PushedEngrams(engrams'[c]), L, remote, births', Removed')
    BY <2>2, <2>5 DEF Trees, Stands
  <2>7. ASSUME NEW S, StandsIn(S, L, remote, births', Removed') PROVE Agree(remote[i].engrams, S)
    BY <2>1, <2>7 DEF StandsIn, Agree
  <2> QED
    BY <2>3, <2>6, <2>7
<1>9. ASSUME NEW d \in Devices, NEW c \in Devices, d # c, base'[c] = L, NEW i \in Ahead(d)', base'[d] < L
      PROVE  Agree(remote[i].engrams, PushedEngrams(engrams'[c])) /\ Agree(remote[i].engrams, head'[c].engrams)
  <2>1. base[d] < L
    BY <1>1, <1>3, <1>9
  <2>2. base[c] = L /\ Below(remote[i].engrams, top[c]) /\ i \in Ahead(d) /\ remote[i].engrams \in SUBSET Engram
    BY <1>4, <1>5, <1>9, <2>1 DEF TwoInv
  <2>3. Agree(remote[i].engrams, PushedEngrams(engrams[c])) /\ Agree(remote[i].engrams, head[c].engrams)
    BY <1>9, <2>2 DEF TwoInv
  <2>4. CASE c # s
    BY <1>2, <2>3, <2>4
  <2>5. ASSUME c = s, NEW e \in remote[i].engrams, NEW x \in PushedEngrams(engrams'[c]) \cup head'[c].engrams, e.id = x.id
        PROVE  e.birth = x.birth
    <3>1. Old(c, x)
      BY <2>2, <2>5 DEF Steady
    <3>2. e.id[1] \in Nat /\ e.id[1] <= top[c]
      <4>1. e \in Engram
        BY <2>2, <2>5
      <4> QED
        BY <2>2, <2>5, <4>1, FreshIn DEF Below
    <3>3. ~(x.id[1] > top[c])
      BY <1>1, <2>5, <3>2
    <3>4. PICK y \in PushedEngrams(engrams[c]) \cup head[c].engrams : y.id = x.id /\ y.birth = x.birth
      BY <3>1, <3>3 DEF Old
    <3> QED
      BY <2>3, <2>5, <3>4 DEF Agree
  <2> QED
    BY <2>4, <2>5 DEF Agree
<1>10. ASSUME NEW d \in Devices, NEW c \in Devices, d # c, base'[c] = L, NEW i \in Ahead(d)'
       PROVE  Agree(remote[i].engrams, PushedEngrams(engrams'[c])) /\ Agree(remote[i].engrams, head'[c].engrams)
  <2>1. base'[d] = L \/ base'[d] < L
    BY <1>1
  <2> QED
    BY <1>8, <1>9, <1>10, <2>1
<1> HIDE DEF L
<1> QED
  BY <1>3, <1>6, <1>7, <1>10 DEF TwoInv, L

\* The number minted or seen only grows.
LEMMA TopUp ==
  ASSUME GitTypes, GitTypes', NEW d \in Devices, UNCHANGED unnoticed \/ Notice(d)
  PROVE  top[d] <= top'[d]
<1>1. top \in [Devices -> Nat]
  BY DEF GitTypes
<1>2. top' = top \/ \E n : top' = Put(top, d, IF n > top[d] THEN n ELSE top[d])
  BY Zenon DEF Notice, unnoticed
<1>3. CASE top' = top
  BY <1>1, <1>3
<1>4. ASSUME NEW n, top' = Put(top, d, IF n > top[d] THEN n ELSE top[d]) PROVE top[d] <= top'[d]
  <2>1. top'[d] = (IF n > top[d] THEN n ELSE top[d]) /\ top'[d] \in Nat /\ top[d] \in Nat
    BY <1>1, <1>4 DEF Put, GitTypes
  <2> QED
    BY <2>1
<1> QED
  BY <1>2, <1>3, <1>4

\* A write is of what the device had, or of a memory with the next number.
LEMMA TwoWrites ==
  ASSUME GitTypes, GitTypes', GitCore, TwoInv, NEW d \in Devices, Writing(d)
  PROVE  Only(d) /\ remote' = remote /\ top[d] <= top'[d] /\ Steady(d)
<1>1. /\ base' = base /\ head' = head /\ merging' = merging /\ syncing' = syncing /\ remote' = remote /\ Notice(d)
  BY DEF Writing, Learn, Edit, Retire, Purge, SaveStore
<1>2. top[d] <= top'[d]
  BY <1>1, TopUp
<1>3. base[d] <= base'[d] /\ Level(d)'
  <2>1. base[d] \in 1..Len(remote) /\ Len(remote) \in Nat
    BY Parts
  <2> QED
    BY <1>1, <2>1 DEF TwoInv, Level
<1>4. PushedEngrams(Readable(d)) = PushedEngrams(engrams[d]) /\ Readable(d) \in SUBSET Engram
  <2>1. \A h \in hold[d].engrams : h.private
    BY DEF GitCore, Device, Private, PrivateIn
  <2>2. Readable(d) = PutBack(engrams[d], hold[d].engrams) /\ Readable(d) \in SUBSET Engram
    BY ReadableIs
  <2>3. engrams[d] \in SUBSET Engram /\ hold[d].engrams \in SUBSET Engram
    BY Parts
  <2>4. PushedEngrams(PutBack(engrams[d], hold[d].engrams)) = PushedEngrams(engrams[d])
    BY <2>1, <2>3, PutBackPublic
  <2> QED
    BY <2>2, <2>4
<1>5. ASSUME NEW E, NEW P, Saved(d, E, P), births' \in {births, births + 1},
             \A x \in PushedEngrams(E) : (\E y \in PushedEngrams(Readable(d)) : y.id = x.id /\ y.birth = x.birth) \/ x.id[1] > top[d]
      PROVE  Only(d) /\ Steady(d)
  <2>1. Only(d) /\ engrams'[d] = E
    BY <1>5, SaveFits DEF Saved
  <2>2. \A x \in PushedEngrams(engrams'[d]) \cup head'[d].engrams : Old(d, x)
    BY <1>1, <1>4, <1>5, <2>1 DEF Old
  <2> QED
    BY <1>3, <2>1, <2>2 DEF Steady
<1>6. ASSUME NEW private \in BOOLEAN, Learn(d, private) PROVE Only(d) /\ Steady(d)
  <2> DEFINE x == NewEngram(d, private)
  <2>1. Saved(d, Readable(d) \cup {x}, purged[d]) /\ births' = births + 1
    BY <1>6, LearnIs
  <2>2. x.id[1] > top[d]
    BY Parts DEF NewEngram
  <2> HIDE DEF x
  <2>3. \A y \in PushedEngrams(Readable(d) \cup {x}) : y \in PushedEngrams(Readable(d)) \/ y = x
    BY DEF PushedEngrams
  <2> QED
    BY <1>5, <2>1, <2>2, <2>3
<1>7. ASSUME NEW e \in Readable(d), Edit(d, e) \/ Retire(d, e) PROVE Only(d) /\ Steady(d)
  <2>1. PICK f : Changes(f, e) /\ Saved(d, (Readable(d) \ {e}) \cup {f}, purged[d]) /\ births' = births
    BY <1>7, ChangeIs
  <2>2. f.id = e.id /\ f.birth = e.birth /\ f.private = e.private
    BY <2>1 DEF Changes
  <2>3. \A x \in PushedEngrams((Readable(d) \ {e}) \cup {f}) : \E y \in PushedEngrams(Readable(d)) : y.id = x.id /\ y.birth = x.birth
    BY <2>2 DEF PushedEngrams
  <2> QED
    BY <1>5, <2>1, <2>3
<1>8. ASSUME NEW e \in Readable(d), Purge(d, e) PROVE Only(d) /\ Steady(d)
  <2>1. Saved(d, Readable(d) \ {e}, purged[d] \cup {e.birth}) /\ births' = births
    BY <1>8, PurgeIs
  <2>2. \A x \in PushedEngrams(Readable(d) \ {e}) : x \in PushedEngrams(Readable(d))
    BY DEF PushedEngrams
  <2> QED
    BY <1>5, <2>1, <2>2
<1> QED
  BY <1>1, <1>2, <1>6, <1>7, <1>8 DEF Writing

\* The steps that move no engram: only a merge that is opened makes a device be behind, which it is.
LEMMA TwoQuietly ==
  ASSUME GitTypes, GitTypes', GitCore, TwoInv, NEW d \in Devices, Quiet(d)
  PROVE  Only(d) /\ remote' = remote /\ top[d] <= top'[d] /\ Steady(d)
<1>1. /\ Only(d) /\ engrams' = engrams /\ head' = head /\ base' = base /\ remote' = remote /\ UNCHANGED unnoticed
  BY QuietFits
<1>2. top[d] <= top'[d]
  BY <1>1, TopUp
<1>3. base[d] \in 1..Len(remote) /\ Len(remote) \in Nat /\ Level(d)
  BY Parts DEF TwoInv
<1>4. ASSUME Hold(d) PROVE Level(d)'
  <2>1. syncing[d].at = "hold" /\ merging' = merging
    BY <1>4 DEF Hold, branch
  <2> QED
    BY <1>1, <1>3, <2>1 DEF Level
<1>5. ASSUME StartMerge(d) PROVE Level(d)'
  <2>1. /\ syncing[d].at = "pull" /\ merging'[d] = Len(remote)
        /\ syncing'[d] = [at |-> "merge", map |-> syncing[d].map]
    BY <1>5, AreFunctions DEF StartMerge, GoOn, SyncAt
  <2>2. syncing'[d].at = "merge"
    BY <2>1
  <2> QED
    BY <1>1, <1>3, <2>1, <2>2 DEF Level
<1>6. ASSUME NEW t \in Stages \ {"hold", "reset", "pull"}, NEW m, syncing' = Put(syncing, d, [at |-> t, map |-> m]),
             merging'[d] \in {merging[d], 0}
      PROVE  Level(d)'
  <2>1. syncing'[d] = [at |-> t, map |-> m]
    BY <1>6, AreFunctions
  <2>2. syncing'[d].at = t
    BY <2>1
  <2> QED
    BY <1>1, <1>3, <1>6, <2>2 DEF Level
<1>7. ASSUME syncing' = syncing, merging'[d] \in {merging[d], 0} PROVE Level(d)'
  BY <1>1, <1>3, <1>7 DEF Level
<1>9. ASSUME AbortByHand(d) PROVE Level(d)'
  BY <1>7, <1>9, AreFunctions DEF AbortByHand
<1>10. ASSUME StartSync(d) PROVE Level(d)'
  <2>1. CASE hold[d] = NoHold
    <3>1. syncing' = Put(syncing, d, [at |-> "commit", map |-> syncing[d].map]) /\ merging' = merging
      BY <1>10, <2>1 DEF StartSync, GoOn, SyncAt, branch
    <3> QED
      BY <1>6, <3>1 DEF Stages
  <2>2. CASE hold[d] # NoHold
    <3>1. syncing' = Put(syncing, d, [at |-> "recover", map |-> syncing[d].map]) /\ merging' = merging
      BY <1>10, <2>2 DEF StartSync, GoOn, SyncAt, branch
    <3> QED
      BY <1>6, <3>1 DEF Stages
  <2> QED
    BY <2>1, <2>2
<1>11. ASSUME PullFails(d) PROVE Level(d)'
  <2>1. syncing' = Put(syncing, d, [at |-> "restore", map |-> syncing[d].map]) /\ merging' = merging
    BY <1>11 DEF PullFails, GoOn, SyncAt, branch
  <2> QED
    BY <1>6, <2>1 DEF Stages
<1>12. ASSUME SaveRenames(d) PROVE Level(d)'
  <2>1. syncing' = Put(syncing, d, [at |-> "conclude", map |-> syncing[d].map]) /\ merging' = merging
    BY <1>12 DEF SaveRenames, GoOn, SyncAt, branch
  <2> QED
    BY <1>6, <2>1 DEF Stages
<1>13. ASSUME Crash(d) PROVE Level(d)'
  <2>1. syncing' = Put(syncing, d, [at |-> "idle", map |-> {}]) /\ merging' = merging
    BY <1>13 DEF Crash, Idle, branch
  <2> QED
    BY <1>6, <2>1 DEF Stages
<1>14. ASSUME RestoreNotes(d, "recoverNotes", "recovered") PROVE Level(d)'
  <2>1. syncing' = Put(syncing, d, [at |-> "recovered", map |-> syncing[d].map]) /\ merging' = merging
    BY <1>14 DEF RestoreNotes, RestoreNotesBy, GoOn, SyncAt, branch
  <2> QED
    BY <1>6, <2>1 DEF Stages
<1>15. ASSUME RestoreNotes(d, "restoreNotes", "restored") PROVE Level(d)'
  <2>1. syncing' = Put(syncing, d, [at |-> "restored", map |-> syncing[d].map]) /\ merging' = merging
    BY <1>15 DEF RestoreNotes, RestoreNotesBy, GoOn, SyncAt, branch
  <2> QED
    BY <1>6, <2>1 DEF Stages
<1>16. ASSUME DropHold(d, "recovered", "commit") PROVE Level(d)'
  <2>1. syncing' = Put(syncing, d, [at |-> "commit", map |-> {}]) /\ merging' = merging
    BY <1>16 DEF DropHold, SyncAt, branch
  <2> QED
    BY <1>6, <2>1 DEF Stages
<1>17. ASSUME DropHold(d, "restored", "push") PROVE Level(d)'
  <2>1. syncing' = Put(syncing, d, [at |-> "push", map |-> {}]) /\ merging' = merging
    BY <1>17 DEF DropHold, SyncAt, branch
  <2> QED
    BY <1>6, <2>1 DEF Stages
<1>18. Level(d)'
  BY <1>4, <1>5, <1>9, <1>10, <1>11, <1>12, <1>13, <1>14, <1>15, <1>16, <1>17 DEF Quiet
<1>19. Steady(d)
  BY <1>1, <1>3, <1>18 DEF Steady, Old
<1> QED
  BY <1>1, <1>2, <1>19

\* The steps that move engrams: a device that is level only puts back what was held, or commits.
LEMMA TwoMoves ==
  ASSUME GitTypes, GitTypes', GitCore, TwoInv, NEW d \in Devices, Moving(d)
  PROVE  Only(d) /\ remote' = remote /\ top[d] <= top'[d] /\ Steady(d)
<1>1. Only(d) /\ remote' = remote /\ Notice(d)
  BY MovingFits
<1>2. top[d] <= top'[d]
  BY <1>1, TopUp
<1>3. /\ base[d] \in 1..Len(remote) /\ merging[d] \in 0..Len(remote) /\ Len(remote) \in Nat /\ Level(d)
      /\ engrams[d] \in SUBSET Engram /\ hold[d].engrams \in SUBSET Engram
  BY Parts DEF TwoInv
<1>4. ASSUME base[d] <= base'[d], Level(d)', base[d] # Len(remote) PROVE Steady(d)
  BY <1>4 DEF Steady
<1>5. ASSUME base[d] <= base'[d], Level(d)', PushedEngrams(engrams'[d]) = PushedEngrams(engrams[d]),
             head'[d].engrams \in {head[d].engrams, PushedEngrams(engrams[d])}
      PROVE  Steady(d)
  BY <1>5 DEF Steady, Old
<1>6. ASSUME NEW t \in Stages \ {"hold", "reset", "pull"}, NEW m, syncing' = Put(syncing, d, [at |-> t, map |-> m]),
             (base' = base /\ merging'[d] = merging[d]) \/ merging'[d] = 0
      PROVE  Level(d)'
  <2>1. syncing'[d] = [at |-> t, map |-> m]
    BY <1>6, AreFunctions
  <2>2. syncing'[d].at = t
    BY <2>1
  <2> QED
    BY <1>1, <1>3, <1>6, <2>2 DEF Level
<1>7. base' = base => base[d] <= base'[d]
  BY <1>3
<1>8. ASSUME Recover(d) PROVE Steady(d)
  <2>1. PICK m : syncing' = Put(syncing, d, [at |-> "recoverEngrams", map |-> m])
    BY <1>8 DEF Recover, SyncAt
  <2>2. base' = base /\ head' = head /\ (merging[d] = 0 => engrams' = engrams /\ merging' = merging)
        /\ merging'[d] \in {merging[d], 0}
    BY <1>8, AreFunctions DEF Recover, tree
  <2>3. Level(d)'
    BY <1>6, <2>1, <2>2 DEF Stages
  <2>4. CASE merging[d] # 0
    <3>1. base[d] # Len(remote)
      BY <1>3, <2>4 DEF Level
    <3> QED
      BY <1>4, <1>7, <2>2, <2>3, <3>1
  <2>5. CASE merging[d] = 0
    BY <1>5, <1>7, <2>2, <2>3, <2>5
  <2> QED
    BY <2>4, <2>5
<1>9. ASSUME NEW step, NEW next \in {"recoverNotes", "restoreNotes"}, RestoreEngrams(d, step, next) PROVE Steady(d)
  <2>1. PICK m : syncing' = Put(syncing, d, [at |-> next, map |-> m])
    BY <1>9 DEF RestoreEngrams, SyncAt
  <2>2. base' = base /\ head' = head /\ merging' = merging /\ engrams'[d] = PutBack(engrams[d], hold[d].engrams)
    BY <1>9, AreFunctions DEF RestoreEngrams, branch, Readable
  <2>3. Level(d)'
    BY <1>6, <2>1, <2>2 DEF Stages
  <2>4. \A h \in hold[d].engrams : h.private
    BY DEF GitCore, Device, Private, PrivateIn
  <2>5. PushedEngrams(PutBack(engrams[d], hold[d].engrams)) = PushedEngrams(engrams[d])
    BY <1>3, <2>4, PutBackPublic
  <2> QED
    BY <1>5, <1>7, <2>2, <2>3, <2>5
<1>10. ASSUME Commit(d) PROVE Steady(d)
  <2>1. /\ base' = (IF merging[d] = 0 THEN base ELSE Put(base, d, merging[d])) /\ merging'[d] = 0 /\ engrams' = engrams
        /\ head'[d] = Strip(engrams[d], notes[d])
        /\ syncing' = Put(syncing, d, [at |-> IF base'[d] < Len(remote) THEN "hold" ELSE "push", map |-> syncing[d].map])
    BY <1>10, AreFunctions DEF Commit, GoOn, SyncAt, tree
  <2>2. base'[d] = (IF merging[d] = 0 THEN base[d] ELSE merging[d])
    BY <2>1, AreFunctions
  <2>3. base[d] <= base'[d]
    BY <1>3, <2>2 DEF Level
  <2>4. Level(d)'
    <3>1. syncing'[d] = [at |-> IF base'[d] < Len(remote) THEN "hold" ELSE "push", map |-> syncing[d].map]
      BY <2>1, AreFunctions
    <3>2. syncing'[d].at = (IF base'[d] < Len(remote) THEN "hold" ELSE "push")
      BY <3>1
    <3> QED
      BY <1>1, <2>1, <3>2 DEF Level
  <2>5. head'[d].engrams = PushedEngrams(engrams[d])
    BY <2>1 DEF Strip
  <2> QED
    BY <1>5, <2>1, <2>3, <2>4, <2>5
<1>11. ASSUME Reset(d) PROVE Steady(d)
  <2>1. base' = base /\ merging' = merging /\ syncing[d].at = "reset"
    BY <1>11 DEF Reset, branch
  <2>2. base[d] < Len(remote)
    BY <1>3, <2>1 DEF Level
  <2>3. Level(d)'
    BY <1>1, <1>3, <2>1, <2>2 DEF Level
  <2> QED
    BY <1>3, <1>4, <1>7, <2>1, <2>2, <2>3
<1>12. ASSUME Rebase(d) PROVE Steady(d)
  <2>1. /\ base' = Put(base, d, Len(remote)) /\ merging' = merging /\ syncing[d].at = "pull"
        /\ syncing' = Put(syncing, d, [at |-> "restore", map |-> syncing[d].map])
    BY <1>12 DEF Rebase, GoOn, SyncAt
  <2>2. base'[d] = Len(remote) /\ base[d] < Len(remote)
    BY <1>3, <2>1, AreFunctions DEF Level
  <2>3. merging'[d] = 0
    <3>1. merging[d] = 0
      BY <2>1 DEF GitCore, Device, InStage, Pulling
    <3> QED
      BY <2>1, <3>1
  <2>4. Level(d)'
    BY <1>6, <2>1, <2>3 DEF Stages
  <2> QED
    BY <1>3, <1>4, <2>2, <2>4
<1>13. ASSUME NEW t \in {"saveRenames", "restore"}, NEW m, syncing' = Put(syncing, d, [at |-> t, map |-> m]),
              
              syncing[d].at \in Merging, base' = base \/ (base' = Put(base, d, merging[d]) /\ merging'[d] = 0), merging'[d] \in {merging[d], 0}
       PROVE  Steady(d)
  <2>1. merging[d] # 0
    BY <1>13 DEF GitTypes
  <2>2. base[d] < merging[d] /\ base[d] # Len(remote)
    BY <1>3, <2>1 DEF Level
  <2>3. base[d] <= base'[d]
    BY <1>3, <1>13, <2>2, AreFunctions
  <2>4. Level(d)'
    BY <1>6, <1>13 DEF Stages
  <2> QED
    BY <1>4, <2>2, <2>3, <2>4
<1>14. ASSUME MergeRecords(d) PROVE Steady(d)
  <2>1. PICK m : syncing' = Put(syncing, d, [at |-> "saveRenames", map |-> m])
    BY <1>14 DEF MergeRecords, SyncAt
  <2>2. base' = base /\ merging' = merging /\ syncing[d].at \in Merging
    BY <1>14 DEF MergeRecords, Merging
  <2> QED
    BY <1>13, <2>1, <2>2
<1>15. ASSUME Conclude(d) PROVE Steady(d)
  <2>1. /\ syncing' = Put(syncing, d, [at |-> "restore", map |-> syncing[d].map]) /\ base' = Put(base, d, merging[d])
        /\ merging'[d] = 0 /\ syncing[d].at \in Merging
    BY <1>15, AreFunctions DEF Conclude, Merging, GoOn, SyncAt
  <2> QED
    BY <1>13, <2>1
<1>16. ASSUME ConcludeFails(d) PROVE Steady(d)
  <2>1. /\ syncing' = Put(syncing, d, [at |-> "restore", map |-> {}]) /\ base' = base
        /\ merging'[d] = 0 /\ syncing[d].at \in Merging
    BY <1>16, AreFunctions DEF ConcludeFails, Merging, SyncAt
  <2> QED
    BY <1>13, <2>1
<1>18. ASSUME Noting(d) PROVE Steady(d)
  <2>1. engrams' = engrams /\ head' = head /\ base' = base /\ merging' = merging /\ syncing' = syncing
    BY <1>18 DEF Noting, Note
  <2>2. Level(d)'
    BY <1>1, <1>3, <2>1 DEF Level
  <2> QED
    BY <1>5, <1>7, <2>1, <2>2
<1>17. Steady(d)
  BY <1>8, <1>9, <1>10, <1>11, <1>12, <1>14, <1>15, <1>16, <1>18 DEF Moving, Noting, Restoring
<1> QED
  BY <1>1, <1>2, <1>17

\* A push is of a device that is level, and the other one has then been left behind.
LEMMA TwoPush ==
  ASSUME AtMostTwo, GitTypes, GitCore, TwoInv, NEW s \in Devices, Push(s)
  PROVE  TwoInv'
<1> DEFINE L == Len(remote)
           S == head[s].engrams
<1>1. /\ Only(s) /\ engrams' = engrams /\ head' = head /\ merging' = merging /\ UNCHANGED unnoticed /\ syncing[s].at = "push"
      /\ syncing'[s] = [at |-> "idle", map |-> syncing[s].map]
      /\ Lands(s) => /\ base'[s] = L + 1 /\ Len(remote') = L + 1 /\ remote'[L + 1] = head[s]
                     /\ \A i \in 1..L : remote'[i] = remote[i]
      /\ ~Lands(s) => remote' = remote /\ base' = base
  BY PushIs
<1>2. /\ L \in Nat /\ S \in SUBSET Engram
      /\ \A d \in Devices : base[d] \in 1..L /\ top[d] \in Nat /\ merging[d] \in 0..L
  BY Parts
<1>3. top' = top /\ \A d \in Devices \ {s} : base'[d] = base[d] /\ syncing'[d] = syncing[d]
  BY <1>1, OthersKeep DEF unnoticed
<1>4. syncing'[s].at = "idle"
  BY <1>1
<1>5. Device(s) /\ InStage(s)
  BY DEF GitCore, Device
<1>6. merging[s] = 0 /\ S = PushedEngrams(engrams[s]) /\ SoundBy(S, births) /\ Below(S, top[s]) /\ Below(remote[base[s]].engrams, top[s])
  <2>1. merging[s] = 0 /\ S = PushedEngrams(engrams[s])
    BY <1>1, <1>5 DEF InStage, Pulling
  <2>2. SoundBy(S, births)
    BY <1>5 DEF Device, Trees, Stands, StandsIn
  <2>3. Below(S, top[s]) /\ Below(remote[base[s]].engrams, top[s])
    BY <1>5 DEF Device, Topped
  <2> QED
    BY <2>1, <2>2, <2>3
<1>7. CASE ~Lands(s)
  <2>1. remote' = remote /\ base' = base
    BY <1>1, <1>7
  <2>2. \A d \in Devices : Level(d)'
    BY <1>1, <1>3, <1>4, <1>6, <2>1 DEF TwoInv, Level
  <2>3. \A d \in Devices : Ahead(d)' = Ahead(d)
    BY <2>1 DEF Ahead
  <2> QED
    BY <1>1, <1>3, <2>1, <2>2, <2>3 DEF TwoInv
<1>8. CASE Lands(s)
  <2>1. /\ base[s] = L /\ base'[s] = L + 1 /\ Len(remote') = L + 1 /\ remote'[L + 1] = head[s]
        /\ \A i \in 1..L : remote'[i] = remote[i]
    BY <1>1, <1>8 DEF Lands
  <2> HIDE DEF L
  <2>2. \A d \in Devices : Level(d)'
    <3>1. ASSUME NEW d \in Devices \ {s} PROVE Level(d)'
      <4>1. Level(d)
        BY DEF TwoInv
      <4> QED
        BY <1>1, <1>2, <1>3, <2>1, <4>1 DEF Level, L
    <3>2. Level(s)'
      BY <1>1, <1>4, <1>6 DEF Level
    <3> QED
      BY <3>1, <3>2
  <2>3. Ahead(s)' = {L + 1}
    BY <1>2, <2>1 DEF Ahead
  <2>4. ASSUME NEW d \in Devices, d # s, NEW i \in Ahead(d)' PROVE i = L + 1 \/ (i \in Ahead(d) /\ i \in 1..L)
    BY <1>2, <1>3, <2>1, <2>4 DEF Ahead, L
  <2>5. ASSUME NEW d \in Devices, d # s, NEW i \in Ahead(d) PROVE Agree(remote[i].engrams, S)
    BY <2>1, <2>5 DEF TwoInv, L
  <2>6. Agree(S, S)
    BY <1>6 DEF SoundBy, Agree
  <2>7. \A T, U : Agree(T, U) => Agree(U, T)
    BY DEF Agree
  <2>8. ASSUME NEW d \in Devices, NEW i \in Ahead(d)', NEW j \in Ahead(d)' PROVE Agree(remote'[i].engrams, remote'[j].engrams)
    <3>1. CASE d = s
      BY <2>1, <2>3, <2>6, <2>8, <3>1
    <3>2. CASE d # s
      <4>1. i \in Ahead(d) /\ j \in Ahead(d) => Agree(remote[i].engrams, remote[j].engrams)
        BY DEF TwoInv
      <4> QED
        BY <2>1, <2>4, <2>5, <2>6, <2>7, <2>8, <3>2, <4>1
    <3> QED
      BY <3>1, <3>2
  <2>9. ASSUME NEW d \in Devices, NEW c \in Devices, d # c, base'[d] < L + 1
        PROVE  base'[c] = L + 1 /\ \A i \in Ahead(d)' : Below(remote'[i].engrams, top'[c])
    <3>1. d # s
      BY <1>2, <2>1, <2>9
    <3>2. c = s
      BY <2>9, <3>1 DEF AtMostTwo
    <3>3. ASSUME NEW i \in Ahead(d), i \in 1..L PROVE Below(remote[i].engrams, top[s])
      <4>1. CASE base[d] < L
        BY <2>9, <3>2, <3>3, <4>1 DEF TwoInv, L
      <4>2. CASE base[d] = L
        <5>1. i = L
          BY <1>2, <3>3, <4>2 DEF Ahead, L
        <5> QED
          BY <1>6, <2>1, <5>1
      <4> QED
        BY <1>2, <4>1, <4>2
    <3> QED
      BY <1>3, <1>6, <2>1, <2>4, <3>1, <3>2, <3>3
  <2>10. ASSUME NEW d \in Devices, NEW c \in Devices, d # c, base'[c] = L + 1, NEW i \in Ahead(d)'
         PROVE  Agree(remote'[i].engrams, PushedEngrams(engrams'[c])) /\ Agree(remote'[i].engrams, head'[c].engrams)
    <3>1. c = s
      BY <1>2, <1>3, <2>10
    <3>2. PushedEngrams(engrams'[c]) = S /\ head'[c].engrams = S
      BY <1>1, <1>6, <3>1
    <3> QED
      BY <2>1, <2>4, <2>5, <2>6, <2>10, <3>1, <3>2
  <2> QED
    BY <2>1, <2>2, <2>8, <2>9, <2>10 DEF TwoInv
<1> QED
  BY <1>7, <1>8

\* With two devices, or one, no pull ever meets an id that names another memory than when the branch left the remote.
THEOREM TwoNeverReuse == ASSUME AtMostTwo PROVE GitSpec => []~reused
<1>1. GitInit => TwoInv /\ ~reused
  <2> SUFFICES ASSUME GitInit PROVE TwoInv /\ ~reused
    OBVIOUS
  <2>1. /\ ~reused /\ Len(remote) = 1
        /\ \A d \in Devices : /\ base[d] = 1 /\ merging[d] = 0 /\ syncing[d].at = "idle" /\ engrams[d] = {First} /\ head[d] = remote[1]
    BY DEF GitInit, Idle
  <2>2. \A d \in Devices : Ahead(d) = {1} /\ Level(d)
    BY <2>1 DEF Ahead, Level
  <2>3. PushedEngrams({First}) = {First} /\ remote[1].engrams = {First}
    BY DEF GitInit, Strip, PushedEngrams, First
  <2>4. Agree({First}, {First})
    BY DEF Agree
  <2>5. \A d, c \in Devices : \A i \in Ahead(d) : /\ Agree(remote[i].engrams, remote[1].engrams)
                                                /\ Agree(remote[i].engrams, PushedEngrams(engrams[c]))
                                                /\ Agree(remote[i].engrams, head[c].engrams)
    <3> TAKE d, c \in Devices
    <3> TAKE i \in Ahead(d)
    <3>1. i = 1
      BY <2>2
    <3>2. engrams[c] = {First} /\ head[c] = remote[1]
      BY <2>1
    <3> QED
      BY <2>3, <2>4, <3>1, <3>2
  <2>6. \A d \in Devices : \A i, j \in Ahead(d) : Agree(remote[i].engrams, remote[j].engrams)
    BY <2>2, <2>5
  <2>7. \A d \in Devices : ~(base[d] < Len(remote))
    BY <2>1
  <2> QED
    BY <2>1, <2>2, <2>5, <2>6, <2>7 DEF TwoInv
<1>2. GitTypes /\ GitInv /\ TwoInv /\ ~reused /\ [GitNext]_gitVars /\ GitTypes' => TwoInv' /\ ~reused'
  <2> SUFFICES ASSUME GitTypes, GitInv, TwoInv, ~reused, [GitNext]_gitVars, GitTypes' PROVE TwoInv' /\ ~reused'
    OBVIOUS
  <2>1. GitCore
    BY DEF GitInv
  <2>2. ~reused'
    BY <2>1, TwoQuiet
  <2>3. GitCore'
    BY <2>1, <2>2, CoreKept
  <2>4. ASSUME NEW d \in Devices, Writing(d) \/ Quiet(d) \/ Moving(d) PROVE TwoInv'
    <3>1. Only(d) /\ remote' = remote /\ top[d] <= top'[d] /\ Steady(d)
      BY <2>1, <2>4, TwoWrites, TwoQuietly, TwoMoves
    <3> QED
      BY <2>1, <2>3, <3>1, TwoStep
  <2>5. ASSUME NEW d \in Devices, Push(d) PROVE TwoInv'
    BY <2>1, <2>5, TwoPush
  <2>6. CASE UNCHANGED gitVars
    <3>1. \A d \in Devices : Ahead(d)' = Ahead(d) /\ (Level(d) => Level(d)')
      BY <2>6 DEF gitVars, Ahead, Level
    <3> QED
      BY <2>2, <2>6, <3>1 DEF gitVars, TwoInv
  <2> QED
    BY <2>2, <2>4, <2>5, <2>6, Kinds
<1> QED
  BY <1>1, <1>2, GitHolds, PTL DEF GitSpec

\* So what the theorems above say until such a pull, two devices have for good: nothing is lost, what was removed stands,
\* what is to stay local does, and the notes follow their memories.
THEOREM TwoDevices ==
  ASSUME AtMostTwo
  PROVE  GitSpec => [](NothingLost /\ RemovalStands /\ LocalStaysLocal /\ NotesFollow)
  BY TwoNeverReuse, MemoriesKept, RemovalsStand, LocalStays, NotesFollowIds, PTL

=============================================================================
