------------------------------ MODULE GitSync ------------------------------
(***************************************************************************)
(* Git sync (sync.ts): devices with a store each and one remote branch.    *)
(* What the remote must not receive is stripped from every commit, so the  *)
(* working tree always differs from HEAD; before a pull the difference is  *)
(* set aside in .git/plur-held.json, and put back after it.  A device can  *)
(* die between any two of these steps, and its store be written before it  *)
(* syncs again.                                                            *)
(*                                                                         *)
(* An engram has a birth, which nothing in the code knows, and an id,      *)
(* which two devices may give twice; a note (an episode, a tension) names  *)
(* an id and, to us, the birth it means.  Ids are <<n, 0>>, or <<n, b>>    *)
(* for the fresh id of a duplicate, a digest of its content.               *)
(***************************************************************************)
EXTENDS FiniteSets, Integers, Sequences

CONSTANTS
  Devices,
  MaxActs,     \* what the users do, over all devices
  MaxCrashes,
  MaxPushes

VARIABLES
  engrams, notes,    \* per device: engrams.yaml and the sibling files of the working tree
  head,              \* per device: the tree of its branch
  base,              \* per device: the commit of the remote its branch stands on
  merging,           \* per device: MERGE_HEAD, a commit of the remote, or 0
  torn,              \* devices whose files hold conflict markers
  touched,           \* devices that wrote a file the open merge changes, after it was staged
  hold,              \* per device: plur-held.json
  syncing,           \* per device: where its sync stands, and the renames it has made
  remote,            \* the trees pushed
  acts, crashes,
  births, top,       \* births so far, and per device the largest n minted or seen
  known, purged,     \* history: births a device could read, and those it removed
  retired,           \* history: births a device has seen retired
  reused             \* history: has a pull met an id that names another memory than before?

gitVars == <<engrams, notes, head, base, merging, torn, touched, hold, syncing, remote,
             acts, crashes, births, top, known, purged, retired, reused>>

NoHold == [engrams |-> {}, notes |-> {}, renames |-> {}]
IdsOf(E) == {e.id : e \in E}
BirthsOf(E) == {e.birth : e \in E}
ById(E, id) == CHOOSE e \in E : e.id = id
Largest(E) == CHOOSE n \in {0} \cup {e.id[1] : e \in E} : \A e \in E : e.id[1] <= n

----------------------------------------------------------------------------
(* The pure parts *)

\* What a commit may hold.
PushedEngrams(E) == {e \in E : ~e.private}
PushedNotes(N, E) == {n \in N : n.ref \in IdsOf(PushedEngrams(E))}
\* Mutant: the commit takes the file as it is.
StripNotesOnly(E, N) == [engrams |-> E, notes |-> PushedNotes(N, E)]
Strip(E, N) == [engrams |-> PushedEngrams(E), notes |-> PushedNotes(N, E)]

FreshId(e) == <<e.id[1], e.birth>>
Renamed(map, id) == IF \E r \in map : r[1] = id THEN (CHOOSE r \in map : r[1] = id)[2] ELSE id
RenameNotes(N, map) == {[n EXCEPT !.ref = Renamed(map, @)] : n \in N}

\* mergeHeldRecords: the ones to put back, and the renames of the call.
Clashing(E, H) == {h \in H : h.id \in IdsOf(E) /\ h \notin E
                             /\ [h EXCEPT !.id = FreshId(h)] \notin E}
HeldRenames(E, H) == {<<h.id, FreshId(h)>> : h \in Clashing(E, H)}
PutBack(E, H) == E \cup {h \in H : h.id \notin IdsOf(E)}
                   \cup {[h EXCEPT !.id = FreshId(h)] : h \in Clashing(E, H)}

\* renameLocalClashes
LocalClashes(b, o, t) == {e \in o : e.id \notin IdsOf(b) /\ e.id \in IdsOf(t) /\ e \notin t}
MergeRenames(b, o, t) == {<<e.id, FreshId(e)>> : e \in LocalClashes(b, o, t)}
RenameEngrams(E, map) == {[e EXCEPT !.id = Renamed(map, @)] : e \in E}

\* mergeValue of one engram both sides hold, field by field.
ChangedOne(o, t, b) == IF o = b THEN t ELSE o
MergeChanged(o, t, b) == [o EXCEPT !.birth = ChangedOne(@, t.birth, b.birth),
                                   !.text = ChangedOne(@, t.text, b.text),
                                   !.retired = ChangedOne(@, t.retired, b.retired)]
\* Mutant: of two changed records this device's stands.
MergeOursWins(b, o, t) == IF o = t THEN o ELSE ChangedOne(o, t, b)
MergeOne(b, o, t) == IF o = t THEN o ELSE MergeChanged(o, t, b)

\* mergeRecordLists, after the clashes are split: a record in no base is on one side or
\* the same on both, and a record either side deleted stays deleted.
MergeLists(b, o, t) ==
  {e \in o \cup t : e.id \notin IdsOf(b)}
  \cup {MergeOne(ById(b, id), ById(o, id), ById(t, id)) : id \in IdsOf(b) \cap IdsOf(o) \cap IdsOf(t)}
MergeNotes(b, o, t) == (t \ (b \ o)) \cup (o \ b)
MergeTrees(b, o, t) ==
  LET map == MergeRenames(b.engrams, o.engrams, t.engrams) IN
  [engrams |-> MergeLists(b.engrams, RenameEngrams(o.engrams, map), t.engrams),
   notes   |-> MergeNotes(b.notes, RenameNotes(o.notes, map), t.notes)]

\* Git's own line merge succeeds only when the sides change different records and do not
\* both append to a file.
Disjoint(b, o, t) ==
  /\ IdsOf(o.engrams) \subseteq IdsOf(b.engrams) \/ IdsOf(t.engrams) \subseteq IdsOf(b.engrams)
  /\ o.notes \subseteq b.notes \/ t.notes \subseteq b.notes
  /\ \A e \in b.engrams : e \in o.engrams \/ e \in t.engrams

\* An id that named one memory when a branch left the remote, and names another there now:
\* removed, and given again by a device that had not seen it.
Reused(b, t) == \E e \in b.engrams, f \in t.engrams : e.id = f.id /\ e.birth # f.birth

----------------------------------------------------------------------------
(* State *)

First == [id |-> <<1, 0>>, birth |-> 0, private |-> FALSE, retired |-> FALSE, text |-> 0]
Idle == [at |-> "idle", map |-> {}]

GitInit ==
  /\ engrams = [d \in Devices |-> {First}]
  /\ notes = [d \in Devices |-> {}]
  /\ remote = <<Strip({First}, {})>>
  /\ head = [d \in Devices |-> remote[1]]
  /\ base = [d \in Devices |-> 1]
  /\ merging = [d \in Devices |-> 0]
  /\ torn = {} /\ touched = {}
  /\ hold = [d \in Devices |-> NoHold]
  /\ syncing = [d \in Devices |-> Idle]
  /\ acts = 0 /\ crashes = 0 /\ births = 1
  /\ top = [d \in Devices |-> 1]
  /\ known = [d \in Devices |-> {0}]
  /\ purged = [d \in Devices |-> {}] /\ retired = [d \in Devices |-> {}]
  /\ reused = FALSE

\* loadEngrams: the records of an interrupted sync are part of the store.
Readable(d) == PutBack(engrams[d], hold[d].engrams)

Put(f, d, v) == [f EXCEPT ![d] = v]
\* What the device has come to know after a step: what a merge brings is known once it
\* can no longer be aborted.
Notice(d) ==
  LET E == IF merging'[d] = 0 \/ d \in touched' THEN Readable(d)' ELSE {} IN
  /\ known' = Put(known, d, known[d] \cup BirthsOf(E))
  /\ retired' = Put(retired, d, retired[d] \cup BirthsOf({e \in E : e.retired}))
  /\ top' = Put(top, d, LET n == Largest(Readable(d)') IN IF n > top[d] THEN n ELSE top[d])
unnoticed == <<known, retired, top>>
users == <<acts, births, purged, reused>>
tree == <<engrams, notes>>
branch == <<head, base, merging, torn, touched>>

----------------------------------------------------------------------------
(* The user's writes, between syncs: they take the store lock *)

DropEngrams(h) == IF h.notes = {} THEN NoHold ELSE [h EXCEPT !.engrams = {}]

\* saveEngrams: the whole store, held records included, which then leave the file.
SaveStore(d, E) ==
  /\ syncing[d].at = "idle" /\ d \notin torn /\ acts < MaxActs
  /\ engrams' = Put(engrams, d, E)
  /\ hold' = Put(hold, d, DropEngrams(hold[d]))
  /\ touched' = IF merging[d] # 0 THEN touched \cup {d} ELSE touched
  /\ acts' = acts + 1
  /\ UNCHANGED <<notes, head, base, merging, torn, syncing, remote, crashes, reused>>
  /\ Notice(d)

Learn(d, private) ==
  /\ SaveStore(d, Readable(d) \cup {[id |-> <<top[d] + 1, 0>>, birth |-> births, private |-> private,
                                retired |-> FALSE, text |-> 0]})
  /\ births' = births + 1
  /\ UNCHANGED purged

Edit(d, e) ==
  /\ ~e.retired
  /\ SaveStore(d, (Readable(d) \ {e}) \cup {[e EXCEPT !.text = @ + 1]})
  /\ UNCHANGED <<births, purged>>

Retire(d, e) ==
  /\ ~e.retired
  /\ SaveStore(d, (Readable(d) \ {e}) \cup {[e EXCEPT !.retired = TRUE]})
  /\ UNCHANGED <<births, purged>>

Purge(d, e) ==
  /\ SaveStore(d, Readable(d) \ {e})
  /\ purged' = Put(purged, d, purged[d] \cup {e.birth})
  /\ UNCHANGED births

\* What an open merge has staged for the notes.
StagedNotes(d) == MergeTrees(remote[base[d]], head[d], remote[merging[d]]).notes

\* A note about an engram as the device reads it.
Note(d, e) ==
  /\ syncing[d].at = "idle" /\ d \notin torn /\ acts < MaxActs
  /\ notes' = Put(notes, d, notes[d] \cup {[ref |-> e.id, means |-> e.birth]})
  /\ touched' = IF merging[d] # 0 /\ StagedNotes(d) # head[d].notes THEN touched \cup {d} ELSE touched
  /\ acts' = acts + 1
  /\ UNCHANGED <<engrams, head, base, merging, torn, hold, syncing, remote, crashes, births, purged, reused>>
  /\ Notice(d)

\* Conflict markers left with nothing held: sync refuses until the user aborts the merge.
AbortByHand(d) ==
  /\ syncing[d].at = "idle" /\ d \in torn
  /\ torn' = torn \ {d} /\ merging' = Put(merging, d, 0)
  /\ UNCHANGED <<tree, head, base, touched, hold, syncing, remote, crashes, users, unnoticed>>

----------------------------------------------------------------------------
(* sync() *)

still == <<remote, crashes, users>>
SyncAt(d, step, map) == syncing' = Put(syncing, d, [at |-> step, map |-> map])
GoOn(d, step) == SyncAt(d, step, syncing[d].map)

StartSync(d) ==
  /\ syncing[d].at = "idle"
  /\ hold[d] # NoHold \/ d \notin torn
  /\ GoOn(d, IF hold[d] = NoHold THEN "commit" ELSE "recover")
  /\ UNCHANGED <<tree, branch, hold, still, unnoticed>>

\* recoverHeld: a half-made merge is aborted, which git refuses when a file that the merge
\* changes was written since, and which keeps notes the merge leaves alone; the renames of
\* a merge that was concluded are taken up.
Recover(d) ==
  /\ syncing[d].at = "recover"
  /\ IF merging[d] # 0 /\ d \notin touched
       THEN /\ engrams' = Put(engrams, d, head[d].engrams)
            /\ notes' = IF StagedNotes(d) = head[d].notes THEN notes ELSE Put(notes, d, head[d].notes)
            /\ merging' = Put(merging, d, 0) /\ torn' = torn \ {d}
       ELSE UNCHANGED <<tree, merging, torn>>
  /\ SyncAt(d, "recoverEngrams", IF merging'[d] = 0 THEN hold[d].renames ELSE {})
  /\ UNCHANGED <<head, base, touched, hold, still>>
  /\ Notice(d)

\* restoreWithheld, engrams.yaml first; its renames are followed by the held notes.
RestoreEngrams(d, step, next) ==
  /\ syncing[d].at = step
  /\ engrams' = Put(engrams, d, Readable(d))
  /\ SyncAt(d, next, syncing[d].map \cup HeldRenames(engrams[d], hold[d].engrams))
  /\ UNCHANGED <<notes, branch, hold, still>>
  /\ Notice(d)

RestoreNotesBy(d, step, next, map) ==
  /\ syncing[d].at = step
  /\ notes' = Put(notes, d, notes[d] \cup RenameNotes(hold[d].notes, map))
  /\ GoOn(d, next)
  /\ UNCHANGED <<engrams, branch, hold, still, unnoticed>>
\* Mutant: held notes keep the ids they were written with.
RestoreNotesVerbatim(d, step, next) == RestoreNotesBy(d, step, next, {})
RestoreNotes(d, step, next) == RestoreNotesBy(d, step, next, syncing[d].map)

DropHold(d, step, next) ==
  /\ syncing[d].at = step
  /\ hold' = Put(hold, d, NoHold)
  /\ SyncAt(d, next, {})
  /\ UNCHANGED <<tree, branch, still, unnoticed>>

\* commitChanges: it also concludes a merge that is still open.  One that would leave
\* the branch as it was is not concluded, but merged again by the pull: left out.
Commit(d) ==
  /\ syncing[d].at = "commit"
  /\ merging[d] = 0 \/ Strip(engrams[d], notes[d]) # head[d]
  /\ head' = Put(head, d, Strip(engrams[d], notes[d]))
  /\ base' = IF merging[d] = 0 THEN base ELSE Put(base, d, merging[d])
  /\ merging' = Put(merging, d, 0) /\ touched' = touched \ {d}
  /\ GoOn(d, IF base'[d] < Len(remote) THEN "hold" ELSE "push")
  /\ UNCHANGED <<tree, torn, hold, still>>
  /\ Notice(d)

\* holdWithheld: durable before the tree is touched.
HeldOf(d) ==
  [engrams |-> engrams[d] \ PushedEngrams(engrams[d]),
   notes   |-> notes[d] \ PushedNotes(notes[d], engrams[d]),
   renames |-> {}]

\* Mutant: what is set aside is the engrams' text only, and in memory.
HoldNothing(d) == NoHold
Held(d) == HeldOf(d)
Hold(d) ==
  /\ syncing[d].at = "hold"
  /\ hold' = Put(hold, d, Held(d))
  /\ GoOn(d, IF HeldOf(d) = NoHold THEN "pull" ELSE "reset")
  /\ UNCHANGED <<tree, branch, still, unnoticed>>

Reset(d) ==
  /\ syncing[d].at = "reset"
  /\ engrams' = Put(engrams, d, head[d].engrams)
  /\ notes' = Put(notes, d, head[d].notes)
  /\ GoOn(d, "pull")
  /\ UNCHANGED <<branch, hold, still>>
  /\ Notice(d)

PullFails(d) ==
  /\ syncing[d].at = "pull"
  /\ GoOn(d, "restore")
  /\ UNCHANGED <<tree, branch, hold, still, unnoticed>>

Base(d) == remote[base[d]]
Theirs == remote[Len(remote)]

Rebase(d) ==
  LET new == MergeTrees(Base(d), head[d], Theirs) IN
  /\ syncing[d].at = "pull"
  /\ head[d] = Base(d) \/ Disjoint(Base(d), head[d], Theirs)
  /\ head' = Put(head, d, new) /\ base' = Put(base, d, Len(remote))
  /\ engrams' = Put(engrams, d, new.engrams) /\ notes' = Put(notes, d, new.notes)
  /\ GoOn(d, "restore")
  /\ reused' = (reused \/ Reused(Base(d), Theirs))
  /\ UNCHANGED <<merging, torn, touched, hold, remote, crashes, acts, births, purged>>
  /\ Notice(d)

\* pull --no-rebase --no-commit: the files may hold conflict markers.
StartMerge(d) ==
  /\ syncing[d].at = "pull" /\ head[d] # Base(d)
  /\ merging' = Put(merging, d, Len(remote)) /\ torn' = torn \cup {d}
  /\ GoOn(d, "merge")
  /\ UNCHANGED <<tree, head, base, touched, hold, still, unnoticed>>

MergeRecords(d) ==
  LET b == Base(d)
      t == remote[merging[d]]
      new == MergeTrees(b, head[d], t) IN
  /\ syncing[d].at = "merge"
  /\ engrams' = Put(engrams, d, new.engrams) /\ notes' = Put(notes, d, new.notes)
  /\ torn' = torn \ {d}
  /\ SyncAt(d, "saveRenames", MergeRenames(b.engrams, head[d].engrams, t.engrams))
  /\ reused' = (reused \/ Reused(b, t))
  /\ UNCHANGED <<head, base, merging, touched, hold, remote, crashes, acts, births, purged>>
  /\ Notice(d)

SaveRenames(d) ==
  /\ syncing[d].at = "saveRenames"
  /\ hold' = IF hold[d] = NoHold THEN hold ELSE Put(hold, d, [hold[d] EXCEPT !.renames = syncing[d].map])
  /\ GoOn(d, "conclude")
  /\ UNCHANGED <<tree, branch, still, unnoticed>>

Conclude(d) ==
  /\ syncing[d].at = "conclude"
  /\ head' = Put(head, d, Strip(engrams[d], notes[d]))
  /\ base' = Put(base, d, merging[d]) /\ merging' = Put(merging, d, 0)
  /\ GoOn(d, "restore")
  /\ UNCHANGED <<tree, torn, touched, hold, still>>
  /\ Notice(d)

ConcludeFails(d) ==
  /\ syncing[d].at = "conclude"
  /\ hold' = Put(hold, d, [hold[d] EXCEPT !.renames = {}])
  /\ engrams' = Put(engrams, d, head[d].engrams) /\ notes' = Put(notes, d, head[d].notes)
  /\ merging' = Put(merging, d, 0)
  /\ SyncAt(d, "restore", {})
  /\ UNCHANGED <<head, base, torn, touched, still>>
  /\ Notice(d)

\* The push lands when the branch stands on the remote's last commit.
Push(d) ==
  LET lands == base[d] = Len(remote) /\ head[d] # Theirs IN
  /\ syncing[d].at = "push"
  /\ lands => Len(remote) < MaxPushes
  /\ remote' = IF lands THEN Append(remote, head[d]) ELSE remote
  /\ base' = IF lands THEN Put(base, d, Len(remote) + 1) ELSE base
  /\ GoOn(d, "idle")
  /\ UNCHANGED <<tree, head, merging, torn, touched, hold, crashes, users, unnoticed>>

\* Files stay, memory goes.
Crash(d) ==
  /\ syncing[d].at # "idle" /\ crashes < MaxCrashes
  /\ crashes' = crashes + 1
  /\ syncing' = Put(syncing, d, Idle)
  /\ UNCHANGED <<tree, branch, hold, remote, users, unnoticed>>

GitNext == \E d \in Devices :
  \/ \E private \in BOOLEAN : Learn(d, private)
  \/ \E e \in Readable(d) : Edit(d, e) \/ Retire(d, e) \/ Purge(d, e) \/ Note(d, e)
  \/ AbortByHand(d)
  \/ StartSync(d) \/ Recover(d)
  \/ RestoreEngrams(d, "recoverEngrams", "recoverNotes")
  \/ RestoreNotes(d, "recoverNotes", "recovered") \/ DropHold(d, "recovered", "commit")
  \/ Commit(d) \/ Hold(d) \/ Reset(d)
  \/ PullFails(d) \/ Rebase(d) \/ StartMerge(d) \/ MergeRecords(d)
  \/ SaveRenames(d) \/ Conclude(d) \/ ConcludeFails(d)
  \/ RestoreEngrams(d, "restore", "restoreNotes")
  \/ RestoreNotes(d, "restoreNotes", "restored") \/ DropHold(d, "restored", "push")
  \/ Push(d) \/ Crash(d)

GitSpec == GitInit /\ [][GitNext]_gitVars

----------------------------------------------------------------------------
(* Properties *)

Removed == UNION {purged[d] : d \in Devices}

\* A memory that a device could read stays readable there unless somebody removed it:
\* through holds, pulls, merges of clashing ids, failures, crashes and the writes that
\* come before the next sync.
NothingLost == \A d \in Devices : known[d] \ Removed \subseteq BirthsOf(Readable(d))

\* A memory that a device has removed is not read there again, and one it has seen
\* retired is not live there again, whatever another device did to it meanwhile and
\* wherever a sync was cut short.
RemovalStands == \A d \in Devices : \A e \in Readable(d) :
  e.birth \notin purged[d] /\ (e.birth \in retired[d] => e.retired)

\* No commit of the remote holds an engram that is to stay on its device, nor, while no
\* sync was cut short, a note about a memory that the remote was not given.
LocalStaysLocal == \A i \in DOMAIN remote :
  /\ \A e \in remote[i].engrams : ~e.private
  /\ crashes = 0 => \A n \in remote[i].notes : n.means \in BirthsOf(remote[i].engrams) \cup Removed

Means(d, n) == n.means \in Removed \/ \A e \in Readable(d) : e.id = n.ref => e.birth = n.means
\* While no sync has been cut short, every note a device holds after a sync names the
\* memory it was written about, whichever of two memories had to give up its id.
NotesFollow ==
  crashes = 0 => \A d \in Devices : syncing[d].at = "idle" => \A n \in notes[d] : Means(d, n)

=============================================================================
