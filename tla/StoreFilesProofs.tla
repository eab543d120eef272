-------------------------- MODULE StoreFilesProofs --------------------------
(***************************************************************************)
(* Proofs about StoreFolder (part 1) and PackRegistry (part 2).            *)
(*                                                                         *)
(* Part 1: what the folder of one machine keeps through writes, backups,   *)
(* migrations and restores, for any engrams, schema versions, days and     *)
(* processes, and any number of deaths and of files changed behind PLUR's  *)
(* back.  The operations hold the store lock, so what an operation knows   *)
(* of the disk stays true until its next step: Stepping says what that is. *)
(*                                                                         *)
(* Part 2: baselines, for any number of packs, directories, versions,      *)
(* processes, jobs, edits and mishaps, when no two installs or uninstalls  *)
(* are at work in one directory.  A row can only go wrong where an install *)
(* has swapped its copy in and not yet written its row, so the invariant   *)
(* leaves such directories out, and says of a migration's plan that it is  *)
(* right for every row it may still be written to.                         *)
(***************************************************************************)
EXTENDS StoreFolder, PackRegistry, FiniteSetTheorems, WellFoundedInduction, TLAPS

(* Part 1: the folder of the primary store. *)

OpTypes ==
  op # None =>
    /\ op.kind \in Writing => op.rec \in Engrams
    /\ op.kind \in Writing /\ op.at \in {"sidecar", "hint"} => op.before \in Corpora
    /\ op.kind = "restore" /\ op.at \in {"superseded", "replace"} => op.after \in Corpora
    /\ op.kind \in Migrating /\ op.at \in {"journal", "corpus", "count", "stamp", "undo"}
         => op.after \in Corpora

Typed == FolderTypeOK /\ OpTypes

MigrationAt(stages) == op # None /\ op.kind \in Migrating /\ op.at \in stages

\* What a migration under way knows.
Stepping ==
  /\ MigrationAt({"plan", "journal"}) => journal = None
  /\ MigrationAt({"journal"}) => op.to # version /\ op.after.recs = Rows /\ op.after.shape = op.to
  /\ MigrationAt({"corpus"}) => op.before = store /\ op.after.recs = Rows
  /\ MigrationAt({"count", "stamp", "undo"}) =>
       /\ store = op.after
       /\ op.after.recs = IF op.before = None THEN {} ELSE op.before.recs
  /\ MigrationAt({"corpus", "count", "stamp", "undo"}) =>
       journal = [before |-> op.before, after |-> op.after, version |-> op.to]

Agrees(c) == c = None \/ c.shape = version

\* The shape of the rows: with a journal it may be the one before or the one after,
\* and the two are not confused.
Stamped ==
  ~misfit =>
    /\ journal = None => Agrees(store)
    /\ journal # None =>
         /\ Agrees(store) \/ store.shape = journal.version
         /\ journal.after.shape = journal.version
         /\ journal.before = None \/ journal.before.shape # journal.version
    /\ MigrationAt({"clear", "recount", "unlink"}) => Agrees(store)
    /\ MigrationAt({"corpus", "count", "stamp", "undo"}) => Agrees(op.before)

\* Where the acknowledged rows are.
Stored ==
  /\ AckedSurvive
  /\ op # None /\ op.kind = "learn" /\ op.at = "record" => store # None /\ op.rec \in store.recs
  /\ op # None /\ op.kind = "restore" /\ op.at = "replace" => store = None \/ store.recs \subseteq aside

\* Which days are there, and what a backup under way knows of today's snapshot.
Covered ==
  /\ \A d \in Days : snaps[d].bytes # None => d <= today
  /\ hint # None => hint.date <= today
  /\ \A p \in Procs : \A d \in done[p] : d <= today
  /\ At(Writing, "sidecar") => snaps[today].bytes = op.before
  /\ At(Writing, "hint") => snaps[today].bytes = op.before /\ snaps[today].sum = op.before
  /\ DoneMeansCovered

FolderInv == Typed /\ Stepping /\ Stamped /\ Stored /\ Covered

----------------------------------------------------------------------------
(* The steps, by the kind of operation that takes them                     *)

StartStep ==
  \/ \E p \in Procs, e \in Engrams : StartLearn(p, e) \/ StartCompact(p, e)
  \/ \E p \in Procs : StartUp(p)
  \/ \E p \in Procs, v \in Versions : StartDown(p, v)
  \/ \E p \in Procs, d \in Days, force \in BOOLEAN : StartRestore(p, d, force)
BackupStep == \/ AlreadyDone \/ HintSaysDone \/ SnapshotSaysDone \/ SetAside \/ Refuse
              \/ Snapshot \/ Sidecar \/ WriteHint \/ Rotate
WriteStep == Save \/ Finish
MigrationStep == \/ NoJournal \/ FinishStamp \/ NeverHappened \/ RefuseRecovery \/ ClearJournal
                 \/ NothingToDo \/ Plan \/ MigrationFails \/ WriteJournal \/ WriteCorpus \/ Count
                 \/ Stamp \/ StampFails \/ Undo \/ UndoFails \/ Recount \/ Unlink
RestoreStep == CopyAside \/ Replace
WorldStep == \/ Die \/ (\E p \in Procs : Restart(p)) \/ (\E e \in Engrams : CutStore(e))
             \/ (\E d \in Days, e \in Engrams : CutSnapshot(d, e)) \/ LoseHint \/ NextDay

LEMMA StepKinds ==
  FolderNext => \/ StartStep \/ BackupStep \/ WriteStep \/ MigrationStep \/ Reconcile
                \/ RestoreStep \/ WorldStep
  BY DEF FolderNext, StartStep, BackupStep, WriteStep, MigrationStep, RestoreStep, WorldStep

LEMMA SizeIsNat == ASSUME NEW c \in Corpora PROVE Size(c) \in Nat
  BY FolderAssumption, FS_Subset, FS_CardinalityType DEF Size, Corpora

\* Goto changes the stage only.
LEMMA GotoKeeps ==
  ASSUME op \in Ops, NEW s \in Stages, Goto(s)
  PROVE  /\ op' \in Ops /\ op'.at = s
         /\ op'.by = op.by /\ op'.kind = op.kind /\ op'.rec = op.rec /\ op'.day = op.day
         /\ op'.to = op.to /\ op'.before = op.before /\ op'.after = op.after
  BY DEF Goto, Ops

\* What an operation starts with.
LEMMA StartMakes ==
  ASSUME NEW p \in Procs, NEW k \in Kinds, NEW at \in Stages, NEW e \in Engrams \cup {None},
         NEW v \in Versions, Start(p, k, at, e, 0, v)
  PROVE  /\ op' \in Ops /\ op'.kind = k /\ op'.at = at /\ op'.rec = e /\ op'.to = v
         /\ UNCHANGED <<disk, ghosts, world>> /\ op = None
  BY DEF Start, Ops, Files

LEMMA RestoreMakes ==
  ASSUME Typed, NEW p \in Procs, NEW d \in Days, NEW force \in BOOLEAN, StartRestore(p, d, force)
  PROVE  /\ op' \in Ops /\ op'.kind = "restore" /\ op'.at = "superseded" /\ op'.after \in Corpora
         /\ UNCHANGED <<disk, ghosts, world>> /\ op = None
<1>1. snaps[d] \in Snaps
  BY DEF Typed, FolderTypeOK
<1>2. snaps[d].bytes \in Corpora
  BY <1>1 DEF StartRestore, Snaps, Files
<1>3. 0 \in Versions /\ "restore" \in Kinds /\ "superseded" \in Stages
  BY FolderAssumption DEF Versions, Kinds, Stages
<1> QED
  BY <1>2, <1>3 DEF StartRestore, Ops, Files

LEMMA StartTypes == Typed /\ StartStep => Typed'
<1> SUFFICES ASSUME Typed, StartStep PROVE Typed'
  OBVIOUS
<1>0. {"learn", "compact", "up", "down"} \subseteq Kinds /\ {"backup", "recover"} \subseteq Stages
      /\ {0, MaxVersion} \subseteq Versions
  BY FolderAssumption DEF Kinds, Stages, Versions
<1>a. ASSUME UNCHANGED <<disk, ghosts, world>>, op' \in Ops PROVE FolderTypeOK'
  BY <1>a DEF Typed, FolderTypeOK, disk, ghosts, world, Faults
<1>1. ASSUME NEW p \in Procs, NEW e \in Engrams, StartLearn(p, e) \/ StartCompact(p, e)
      PROVE  Typed'
  <2>1. PICK k \in {"learn", "compact"} : Start(p, k, "backup", e, 0, 0)
    BY <1>1 DEF StartLearn, StartCompact
  <2>2. /\ op' \in Ops /\ op'.kind = k /\ op'.at = "backup" /\ op'.rec = e
        /\ UNCHANGED <<disk, ghosts, world>>
    BY <1>0, <2>1, StartMakes
  <2>3. OpTypes'
    BY <2>2 DEF OpTypes, Writing, Migrating
  <2> QED BY <1>a, <2>2, <2>3 DEF Typed
<1>2. ASSUME NEW p \in Procs, StartUp(p) \/ (\E v \in Versions : StartDown(p, v)) PROVE Typed'
  <2>1. PICK k \in {"up", "down"}, v \in Versions : Start(p, k, "recover", None, 0, v)
    BY <1>0, <1>2 DEF StartUp, StartDown
  <2>2. /\ op' \in Ops /\ op'.kind = k /\ op'.at = "recover"
        /\ UNCHANGED <<disk, ghosts, world>>
    BY <1>0, <2>1, StartMakes
  <2>3. OpTypes'
    BY <2>2 DEF OpTypes, Writing, Migrating
  <2> QED BY <1>a, <2>2, <2>3 DEF Typed
<1>3. ASSUME NEW p \in Procs, NEW d \in Days, NEW force \in BOOLEAN, StartRestore(p, d, force)
      PROVE  Typed'
  <2>1. /\ op' \in Ops /\ op'.kind = "restore" /\ op'.after \in Corpora
        /\ UNCHANGED <<disk, ghosts, world>>
    BY <1>3, RestoreMakes
  <2>2. OpTypes'
    BY <2>1 DEF OpTypes, Writing, Migrating
  <2> QED BY <1>a, <2>1, <2>2 DEF Typed
<1> QED
  BY <1>1, <1>2, <1>3 DEF StartStep

\* A step of a backup leaves everything but the folder backups/ alone, and its
\* operation goes on as the write it is.
LEMMA BackupFrame ==
  ASSUME Typed, BackupStep
  PROVE  /\ UNCHANGED <<store, version, journal, aside, ghosts, today, deaths, damage>>
         /\ op # None /\ op' \in Ops
         /\ op.kind \in Writing /\ op'.kind = op.kind /\ op'.rec = op.rec /\ op'.by = op.by
         /\ op'.at \in {"backup", "sidecar", "hint", "rotate", "write"}
<1>0. op # None /\ op \in Ops /\ op.kind \in Writing
      /\ op.at \in {"backup", "sidecar", "hint", "rotate"}
  BY DEF BackupStep, AlreadyDone, HintSaysDone, SnapshotSaysDone, SetAside, Refuse, Snapshot,
     Sidecar, WriteHint, Rotate, Undecided, At, Typed, FolderTypeOK
<1>1. UNCHANGED <<store, version, journal, aside, ghosts, today, deaths, damage>>
  BY DEF BackupStep, AlreadyDone, HintSaysDone, SnapshotSaysDone, SetAside, Refuse, Snapshot,
     Sidecar, WriteHint, Rotate, disk, world
<1>s. {"backup", "sidecar", "hint", "rotate", "write"} \subseteq Stages
  BY DEF Stages
<1>2. CASE \E s \in {"backup", "sidecar", "hint", "rotate", "write"} : Goto(s)
  BY <1>0, <1>1, <1>2, <1>s, GotoKeeps
<1>3. CASE SetAside
  BY <1>0, <1>1, <1>3 DEF SetAside, Undecided, At
<1>4. CASE Snapshot
  <2>1. store \in Files
    BY DEF Typed, FolderTypeOK
  <2>2. op' = [op EXCEPT !.at = "sidecar", !.before = store]
    BY <1>4 DEF Snapshot
  <2>3. op' \in Ops /\ op'.at = "sidecar" /\ op'.kind = op.kind /\ op'.rec = op.rec /\ op'.by = op.by
    BY <1>0, <1>s, <2>1, <2>2 DEF Ops
  <2> QED BY <1>0, <1>1, <2>3
<1>5. CASE WriteHint
  <2>2. op' = [op EXCEPT !.at = "rotate", !.before = None]
    BY <1>5 DEF WriteHint
  <2>3. op' \in Ops /\ op'.at = "rotate" /\ op'.kind = op.kind /\ op'.rec = op.rec /\ op'.by = op.by
    BY <1>0, <1>s, <2>2 DEF Ops, Files
  <2> QED BY <1>0, <1>1, <2>3
<1> QED
  BY <1>2, <1>3, <1>4, <1>5 DEF BackupStep, AlreadyDone, HintSaysDone, SnapshotSaysDone, Refuse,
     Sidecar, Rotate

LEMMA BackupTypes == Typed /\ BackupStep => Typed'
<1> SUFFICES ASSUME Typed, BackupStep PROVE Typed'
  OBVIOUS
<1>0. /\ UNCHANGED <<store, version, journal, aside, ghosts, today, deaths, damage>>
      /\ op # None /\ op' \in Ops
      /\ op.kind \in Writing /\ op'.kind = op.kind /\ op'.rec = op.rec /\ op'.by = op.by
      /\ op'.at \in {"backup", "sidecar", "hint", "rotate", "write"}
  BY BackupFrame
<1>1. /\ store \in Files /\ today \in Days /\ op \in Ops /\ snaps \in [Days -> Snaps]
      /\ hint \in {None} \cup [date : Days, count : Nat] /\ written \in Counts
      /\ done \in [Procs -> SUBSET Days] /\ op.by \in Procs
  BY <1>0 DEF Typed, FolderTypeOK, Ops
<1>2. snaps' \in [Days -> Snaps] /\ written' \in Counts
  <2>1. CASE UNCHANGED <<snaps, written>>
    BY <1>1, <2>1
  <2>2. CASE SetAside \/ Rotate
    <3>1. NoSnap \in Snaps
      BY DEF NoSnap, Snaps, Files
    <3> QED BY <1>1, <2>2, <3>1 DEF SetAside, Rotate
  <2>3. CASE Snapshot
    <3>1. snaps[today] \in Snaps
      BY <1>1
    <3>2. [snaps[today] EXCEPT !.bytes = store] \in Snaps
      BY <1>1, <3>1 DEF Snaps
    <3>3. snaps' = [snaps EXCEPT ![today] = [snaps[today] EXCEPT !.bytes = store]]
      BY <2>3 DEF Snapshot
    <3>4. written' \in Counts
      BY <1>1, <2>3 DEF Snapshot, Counts
    <3> QED BY <1>1, <3>2, <3>3, <3>4
  <2>4. CASE Sidecar
    <3>1. snaps[today] \in Snaps /\ op.before \in Files
      BY <1>1 DEF Ops
    <3>2. [snaps[today] EXCEPT !.sum = op.before] \in Snaps
      BY <3>1 DEF Snaps
    <3>3. snaps' = [snaps EXCEPT ![today] = [snaps[today] EXCEPT !.sum = op.before]]
      BY <2>4 DEF Sidecar
    <3> QED BY <1>1, <2>4, <3>2, <3>3 DEF Sidecar
  <2> QED
    BY <2>1, <2>2, <2>3, <2>4 DEF BackupStep, AlreadyDone, HintSaysDone, SnapshotSaysDone, Refuse,
       WriteHint, disk
<1>3. hint' \in {None} \cup [date : Days, count : Nat]
  <2>1. CASE UNCHANGED hint
    BY <1>1, <2>1
  <2>2. CASE SnapshotSaysDone
    <3>1. snaps[today].sum \in Corpora
      <4>1. snaps[today] \in Snaps
        BY <1>1
      <4> QED BY <2>2, <4>1 DEF SnapshotSaysDone, Intact, Snaps, Files
    <3> QED BY <1>1, <2>2, <3>1, SizeIsNat DEF SnapshotSaysDone
  <2>3. CASE WriteHint
    <3>1. op.before \in Corpora
      BY <1>0, <2>3 DEF WriteHint, At, Typed, OpTypes
    <3> QED BY <1>1, <2>3, <3>1, SizeIsNat DEF WriteHint
  <2> QED
    BY <2>1, <2>2, <2>3 DEF BackupStep, AlreadyDone, HintSaysDone, SetAside, Refuse, Snapshot,
       Sidecar, Rotate, disk
<1>4. done' \in [Procs -> SUBSET Days]
  <2>1. done' = done \/ Remember(op.by)
    BY DEF BackupStep, AlreadyDone, HintSaysDone, SnapshotSaysDone, SetAside, Refuse, Snapshot,
       Sidecar, WriteHint, Rotate, world
  <2> QED BY <1>1, <2>1 DEF Remember
<1>5. OpTypes'
  <2>1. op'.rec \in Engrams
    BY <1>0 DEF Typed, OpTypes
  <2>2. op'.at \in {"sidecar", "hint"} => op'.before \in Corpora
    <3>1. CASE Snapshot
      <4>1. store \in Corpora
        BY <1>1, <3>1 DEF Snapshot, Undecided, Files
      <4>2. op'.before = store
        BY <1>1, <3>1 DEF Snapshot, Ops
      <4> QED BY <4>1, <4>2
    <3>2. CASE Sidecar
      <4>1. op.before \in Corpora
        BY <3>2, <1>0 DEF Sidecar, At, Typed, OpTypes
      <4>2. op'.before = op.before
        BY <1>1, <3>2 DEF Sidecar, Goto, Ops
      <4> QED BY <4>1, <4>2
    <3>3. CASE SetAside
      BY <3>3 DEF SetAside, Undecided, At
    <3>4. CASE WriteHint
      <4>1. op'.at = "rotate"
        BY <1>1, <3>4 DEF WriteHint, Ops
      <4> QED BY <4>1
    <3>5. CASE Goto("write")
      <4>1. op'.at = "write"
        BY <1>1, <3>5 DEF Goto, Ops
      <4> QED BY <4>1
    <3> QED
      BY <3>1, <3>2, <3>3, <3>4, <3>5 DEF BackupStep, AlreadyDone, HintSaysDone,
         SnapshotSaysDone, Refuse, Rotate
  <2>3. op'.kind # "restore" /\ op'.kind \notin Migrating
    BY <1>0 DEF Writing, Migrating
  <2> QED BY <2>1, <2>2, <2>3 DEF OpTypes
<1> QED
  BY <1>0, <1>2, <1>3, <1>4, <1>5 DEF Typed, FolderTypeOK, ghosts, Faults

LEMMA RowsType == ASSUME Typed PROVE Rows \subseteq Engrams /\ Shape \in Versions
  BY DEF Typed, FolderTypeOK, Rows, Shape, Files, Corpora

LEMMA RecordTypes == ASSUME Typed, RecordLastWritten PROVE written' \in Counts
<1>1. store # None => Size(store) \in Nat
  BY SizeIsNat DEF Typed, FolderTypeOK, Files
<1> QED
  BY <1>1 DEF RecordLastWritten, Typed, FolderTypeOK, Counts

LEMMA WriteTypes == Typed /\ WriteStep => Typed'
<1> SUFFICES ASSUME Typed, WriteStep PROVE Typed'
  OBVIOUS
<1>0. op # None /\ op \in Ops
  BY DEF WriteStep, Save, Finish, At, Typed, FolderTypeOK
<1>1. CASE Save
  <2>1. op.rec \in Engrams /\ op.kind \in Writing
    BY <1>0, <1>1 DEF Save, At, Typed, OpTypes
  <2>2. store' \in Corpora
    BY <1>1, <2>1, RowsType DEF Save, Corpora
  <2>3. /\ op' \in Ops /\ op'.at = "record" /\ op'.kind = op.kind /\ op'.rec = op.rec
    BY <1>0, <1>1, GotoKeeps DEF Save, Stages
  <2>4. OpTypes'
    BY <2>1, <2>3 DEF OpTypes, Writing, Migrating
  <2> QED BY <1>1, <2>1, <2>2, <2>3, <2>4 DEF Save, Typed, FolderTypeOK, Files, world, Faults
<1>2. CASE Finish
  <2>1. written' \in Counts
    BY <1>2, RecordTypes DEF Finish
  <2>2. acked' \subseteq Engrams
    BY <1>0, <1>2 DEF Finish, At, Typed, OpTypes, FolderTypeOK, Writing
  <2> QED BY <1>2, <2>1, <2>2 DEF Finish, End, Typed, FolderTypeOK, OpTypes, world, Faults
<1> QED
  BY <1>1, <1>2 DEF WriteStep

\* A migration touches the corpus, the version, the journal and the count, and goes on
\* as the migration it is or ends.
LEMMA MigrationFrame ==
  ASSUME Typed, MigrationStep
  PROVE  /\ UNCHANGED <<snaps, hint, aside, ghosts, world>>
         /\ op # None /\ op \in Ops /\ op.kind \in Migrating
         /\ \/ op' = None
            \/ /\ op' \in Ops /\ op'.kind = op.kind /\ op'.to = op.to
               /\ op'.at \in {"clear", "plan", "journal", "corpus", "count", "stamp", "undo",
                              "recount", "unlink"}
<1>0. op # None /\ op \in Ops /\ op.kind \in Migrating
  BY DEF MigrationStep, NoJournal, FinishStamp, NeverHappened, RefuseRecovery, ClearJournal,
     NothingToDo, Plan, MigrationFails, WriteJournal, WriteCorpus, Count, Stamp, StampFails, Undo,
     UndoFails, Recount, Unlink, At, Typed, FolderTypeOK
<1>1. UNCHANGED <<snaps, hint, aside, ghosts, world>>
  BY DEF MigrationStep, NoJournal, FinishStamp, NeverHappened, RefuseRecovery, ClearJournal,
     NothingToDo, Plan, MigrationFails, WriteJournal, WriteCorpus, Count, Stamp, StampFails, Undo,
     UndoFails, Recount, Unlink, disk
<1>s. {"clear", "plan", "journal", "corpus", "count", "stamp", "undo", "recount", "unlink"}
         \subseteq Stages
  BY DEF Stages
<1>2. CASE \E s \in {"clear", "plan", "count", "stamp", "undo", "unlink"} : Goto(s)
  BY <1>0, <1>1, <1>2, <1>s, GotoKeeps
<1>3. CASE op' = None
  BY <1>0, <1>1, <1>3
<1>4. CASE Plan
  <2>1. [recs |-> Rows, shape |-> op.to] \in Files
    BY <1>0, RowsType DEF Corpora, Files, Ops
  <2>2. op' = [op EXCEPT !.at = "journal", !.after = [recs |-> Rows, shape |-> op.to]]
    BY <1>4 DEF Plan
  <2>3. op' \in Ops /\ op'.at = "journal" /\ op'.kind = op.kind /\ op'.to = op.to
    BY <1>0, <1>s, <2>1, <2>2 DEF Ops
  <2> QED BY <1>0, <1>1, <2>3
<1>5. CASE WriteJournal
  <2>1. store \in Files
    BY DEF Typed, FolderTypeOK
  <2>2. op' = [op EXCEPT !.at = "corpus", !.before = store]
    BY <1>5 DEF WriteJournal
  <2>3. op' \in Ops /\ op'.at = "corpus" /\ op'.kind = op.kind /\ op'.to = op.to
    BY <1>0, <1>s, <2>1, <2>2 DEF Ops
  <2> QED BY <1>0, <1>1, <2>3
<1>6. CASE Stamp \/ Undo
  <2>1. PICK s \in {"unlink", "recount"} : op' = [op EXCEPT !.at = s, !.before = None, !.after = None]
    BY <1>6 DEF Stamp, Undo
  <2>2. op' \in Ops /\ op'.at = s /\ op'.kind = op.kind /\ op'.to = op.to
    BY <1>0, <1>s, <2>1 DEF Ops, Files
  <2> QED BY <1>0, <1>1, <2>2
<1> QED
  BY <1>2, <1>3, <1>4, <1>5, <1>6 DEF MigrationStep, NoJournal, FinishStamp, NeverHappened,
     RefuseRecovery, ClearJournal, NothingToDo, MigrationFails, WriteCorpus, Count, StampFails,
     UndoFails, Recount, Unlink, End

LEMMA MigrationTypes == Typed /\ MigrationStep => Typed'
<1> SUFFICES ASSUME Typed, MigrationStep PROVE Typed'
  OBVIOUS
<1>0. /\ UNCHANGED <<snaps, hint, aside, ghosts, world>>
      /\ op # None /\ op \in Ops /\ op.kind \in Migrating
      /\ \/ op' = None
         \/ /\ op' \in Ops /\ op'.kind = op.kind /\ op'.to = op.to
            /\ op'.at \in {"clear", "plan", "journal", "corpus", "count", "stamp", "undo",
                           "recount", "unlink"}
  BY MigrationFrame
<1>1. /\ store \in Files /\ version \in Versions /\ journal \in Journals \cup {None}
      /\ written \in Counts
  BY DEF Typed, FolderTypeOK
<1>a. op.at \in {"journal", "corpus", "count", "stamp", "undo"} => op.after \in Corpora
  BY <1>0 DEF Typed, OpTypes
<1>2. store' \in Files
  <2>1. op.before \in Files /\ op.after \in Files
    BY <1>0 DEF Ops
  <2> QED
    BY <1>1, <2>1 DEF MigrationStep, NoJournal, FinishStamp, NeverHappened, RefuseRecovery,
       ClearJournal, NothingToDo, Plan, MigrationFails, WriteJournal, WriteCorpus, Count, Stamp,
       StampFails, Undo, UndoFails, Recount, Unlink, disk
<1>3. version' \in Versions
  <2>1. op.to \in Versions /\ (journal # None => journal.version \in Versions)
    BY <1>0, <1>1 DEF Ops, Journals
  <2> QED
    BY <1>1, <2>1 DEF MigrationStep, NoJournal, FinishStamp, NeverHappened, RefuseRecovery,
       ClearJournal, NothingToDo, Plan, MigrationFails, WriteJournal, WriteCorpus, Count, Stamp,
       StampFails, Undo, UndoFails, Recount, Unlink, disk
<1>4. journal' \in Journals \cup {None}
  <2>1. CASE WriteJournal
    <3>1. op.after \in Corpora /\ op.to \in Versions
      BY <1>0, <1>a, <2>1 DEF WriteJournal, At, Ops
    <3> QED BY <1>1, <2>1, <3>1 DEF WriteJournal, Journals
  <2> QED
    BY <1>1, <2>1 DEF MigrationStep, NoJournal, FinishStamp, NeverHappened, RefuseRecovery,
       ClearJournal, NothingToDo, Plan, MigrationFails, WriteCorpus, Count, Stamp,
       StampFails, Undo, UndoFails, Recount, Unlink, disk
<1>5. written' \in Counts
  BY <1>1, RecordTypes DEF MigrationStep, NoJournal, FinishStamp, NeverHappened, RefuseRecovery,
     ClearJournal, NothingToDo, Plan, MigrationFails, WriteJournal, WriteCorpus, Count, Stamp,
     StampFails, Undo, UndoFails, Recount, Unlink, disk
<1>6. ASSUME op' # None, op'.at \in {"journal", "corpus", "count", "stamp", "undo"}
      PROVE  op'.after \in Corpora
  <2>1. CASE Plan
    <3>1. [recs |-> Rows, shape |-> op.to] \in Corpora
      BY <1>0, RowsType DEF Corpora, Ops
    <3>2. op'.after = [recs |-> Rows, shape |-> op.to]
      BY <1>0, <2>1 DEF Plan, Ops
    <3> QED BY <3>1, <3>2
  <2>2. CASE WriteJournal
    <3>1. op.after \in Corpora
      BY <1>a, <2>2 DEF WriteJournal, At
    <3>2. op'.after = op.after
      BY <1>0, <2>2 DEF WriteJournal, Ops
    <3> QED BY <3>1, <3>2
  <2>3. CASE WriteCorpus \/ Count \/ StampFails
    <3>1. op.after \in Corpora
      BY <1>a, <2>3 DEF WriteCorpus, Count, StampFails, At
    <3>2. op'.after = op.after
      BY <1>0, <2>3 DEF WriteCorpus, Count, StampFails, Goto, Ops
    <3> QED BY <3>1, <3>2
  <2>4. CASE \E s \in {"clear", "plan", "unlink"} : Goto(s)
    <3>1. PICK s \in {"clear", "plan", "unlink"} : Goto(s)
      BY <2>4
    <3>2. op'.at = s
      BY <1>0, <3>1 DEF Goto, Ops
    <3> QED BY <1>6, <3>2
  <2>5. CASE Stamp \/ Undo
    <3>1. PICK s \in {"unlink", "recount"} : op' = [op EXCEPT !.at = s, !.before = None, !.after = None]
      BY <2>5 DEF Stamp, Undo
    <3>2. op'.at = s
      BY <1>0, <3>1 DEF Ops
    <3> QED BY <1>6, <3>2
  <2> QED
    BY <1>6, <2>1, <2>2, <2>3, <2>4, <2>5 DEF MigrationStep, NoJournal, FinishStamp,
       NeverHappened, RefuseRecovery, ClearJournal, NothingToDo, MigrationFails, UndoFails,
       Recount, Unlink, End
<1>7. OpTypes'
  BY <1>0, <1>6 DEF OpTypes, Writing, Migrating
<1> QED
  BY <1>0, <1>2, <1>3, <1>4, <1>5, <1>7 DEF Typed, FolderTypeOK, ghosts, world, Faults

LEMMA RestoreTypes == Typed /\ RestoreStep => Typed'
<1> SUFFICES ASSUME Typed, RestoreStep PROVE Typed'
  OBVIOUS
<1>0. /\ op # None /\ op \in Ops /\ op.kind = "restore"
      /\ op.at \in {"superseded", "replace"} /\ op.after \in Corpora
  BY DEF RestoreStep, CopyAside, Replace, At, Typed, FolderTypeOK, OpTypes
<1>1. CASE CopyAside
  <2>1. /\ op' \in Ops /\ op'.kind = op.kind /\ op'.after = op.after
    BY <1>0, <1>1, GotoKeeps DEF CopyAside, Stages
  <2>2. aside' \subseteq Engrams
    BY <1>1 DEF CopyAside, Typed, FolderTypeOK, Files, Corpora
  <2>3. OpTypes'
    BY <1>0, <2>1 DEF OpTypes, Writing, Migrating
  <2> QED BY <1>1, <2>1, <2>2, <2>3 DEF CopyAside, Typed, FolderTypeOK, ghosts, world, Faults
<1>2. CASE Replace
  <2>1. op' = [op EXCEPT !.at = "record", !.after = None]
    BY <1>2 DEF Replace
  <2>2. op' \in Ops /\ op'.kind = op.kind /\ op'.at = "record"
    BY <1>0, <2>1 DEF Ops, Files, Stages
  <2>3. OpTypes'
    BY <1>0, <2>2 DEF OpTypes, Writing, Migrating
  <2>4. misfit' \in BOOLEAN
    BY <1>2 DEF Replace, Typed, FolderTypeOK
  <2> QED BY <1>0, <1>2, <2>2, <2>3, <2>4 DEF Replace, Typed, FolderTypeOK, Files, world, Faults
<1> QED
  BY <1>1, <1>2 DEF RestoreStep

\* What happens to the folder ends an operation or finds none.
LEMMA WorldFrame ==
  ASSUME Typed, WorldStep
  PROVE  /\ op' = None /\ UNCHANGED <<version, journal, aside, acked, misfit>>
         /\ \/ op = None
            \/ Die
  BY DEF WorldStep, Die, Restart, CutStore, CutSnapshot, LoseHint, NextDay, End, disk, ghosts

LEMMA WorldTypes == Typed /\ WorldStep => Typed'
<1> SUFFICES ASSUME Typed, WorldStep PROVE Typed'
  OBVIOUS
<1>0. op' = None /\ OpTypes'
  BY WorldFrame DEF OpTypes
<1> USE FolderAssumption DEF Typed, FolderTypeOK, Faults, disk, ghosts, world
<1>1. CASE Die
  <2>1. op.by \in Procs
    BY <1>1 DEF Die, Ops
  <2> QED BY <1>0, <1>1, <2>1 DEF Die
<1>2. ASSUME NEW p \in Procs, Restart(p) PROVE Typed'
  BY <1>0, <1>2 DEF Restart
<1>3. ASSUME NEW e \in Engrams, CutStore(e) PROVE Typed'
  <2>1. [store EXCEPT !.recs = @ \ {e}] \in Corpora
    BY <1>3 DEF CutStore, Files, Corpora
  <2> QED BY <1>0, <1>3, <2>1 DEF CutStore, Files
<1>4. ASSUME NEW d \in Days, NEW e \in Engrams, CutSnapshot(d, e) PROVE Typed'
  <2>1. snaps[d] \in Snaps /\ snaps[d].bytes \in Corpora
    BY <1>4 DEF CutSnapshot, Listed, Snaps, Files
  <2>2. [snaps[d].bytes EXCEPT !.recs = @ \ {e}] \in Files
    BY <2>1 DEF Corpora, Files
  <2>3. [snaps[d] EXCEPT !.bytes = [snaps[d].bytes EXCEPT !.recs = @ \ {e}]] \in Snaps
    BY <2>1, <2>2 DEF Snaps
  <2>4. snaps' = [snaps EXCEPT ![d] = [snaps[d] EXCEPT
                    !.bytes = [snaps[d].bytes EXCEPT !.recs = snaps[d].bytes.recs \ {e}]]]
    BY <1>4 DEF CutSnapshot
  <2> QED BY <1>0, <1>4, <2>3, <2>4 DEF CutSnapshot
<1>5. CASE LoseHint
  BY <1>0, <1>5 DEF LoseHint
<1>6. CASE NextDay
  BY <1>0, <1>6 DEF NextDay
<1> QED
  BY <1>1, <1>2, <1>3, <1>4, <1>5, <1>6 DEF WorldStep

LEMMA ReconcileTypes == Typed /\ Reconcile => Typed'
<1> SUFFICES ASSUME Typed, Reconcile PROVE Typed'
  OBVIOUS
<1>1. version' \in Versions
  BY DEF Reconcile, Typed, FolderTypeOK, Journals
<1> QED
  BY <1>1 DEF Reconcile, Typed, FolderTypeOK, OpTypes, ghosts, world, Faults

LEMMA TypedKept == Typed /\ [FolderNext]_folderVars => Typed'
<1>1. Typed /\ UNCHANGED folderVars => Typed'
  BY DEF Typed, FolderTypeOK, OpTypes, folderVars, Faults
<1> QED
  BY <1>1, StepKinds, StartTypes, BackupTypes, WriteTypes, MigrationTypes, ReconcileTypes,
     RestoreTypes, WorldTypes

\* A migration's own steps are the only ones that find or leave one under way.
LEMMA NoMigration ==
  ASSUME Typed, StartStep \/ BackupStep \/ WriteStep \/ Reconcile \/ RestoreStep \/ WorldStep
  PROVE  /\ op' # None => op'.kind \notin Migrating \/ op'.at = "recover"
         /\ ~ Die => (op # None => op.kind \notin Migrating)
<1>1. CASE StartStep
  <2>1. {"learn", "compact", "up", "down"} \subseteq Kinds /\ {"backup", "recover"} \subseteq Stages
        /\ {0, MaxVersion} \subseteq Versions
    BY FolderAssumption DEF Kinds, Stages, Versions
  <2>2. CASE \E p \in Procs, e \in Engrams : StartLearn(p, e) \/ StartCompact(p, e)
    <3>1. PICK p \in Procs, e \in Engrams, k \in Writing : Start(p, k, "backup", e, 0, 0)
      BY <2>2 DEF StartLearn, StartCompact, Writing
    <3>2. op = None /\ op'.kind = k
      BY <2>1, <3>1, StartMakes DEF Writing
    <3> QED BY <3>2 DEF Writing, Migrating
  <2>3. CASE \E p \in Procs : StartUp(p) \/ \E v \in Versions : StartDown(p, v)
    <3>1. PICK p \in Procs, v \in Versions, k \in Migrating : Start(p, k, "recover", None, 0, v)
      BY <2>1, <2>3 DEF StartUp, StartDown, Migrating
    <3>2. op = None /\ op'.at = "recover"
      BY <2>1, <3>1, StartMakes DEF Migrating
    <3> QED BY <3>2
  <2>4. ASSUME NEW p \in Procs, NEW d \in Days, NEW force \in BOOLEAN, StartRestore(p, d, force)
        PROVE  op = None /\ op'.kind = "restore"
    BY <2>4, RestoreMakes
  <2> QED BY <1>1, <2>2, <2>3, <2>4 DEF StartStep, Migrating
<1>2. CASE BackupStep
  BY <1>2, BackupFrame DEF Writing, Migrating
<1>3. CASE WriteStep
  <2>1. op # None /\ op \in Ops /\ op.kind \notin Migrating
    BY <1>3 DEF WriteStep, Save, Finish, At, Typed, FolderTypeOK, Writing, Migrating
  <2>2. op' = None \/ op'.kind = op.kind
    BY <1>3, <2>1, GotoKeeps DEF WriteStep, Save, Finish, End, Stages
  <2> QED BY <2>1, <2>2
<1>4. CASE Reconcile
  BY <1>4 DEF Reconcile
<1>5. CASE RestoreStep
  <2>1. op # None /\ op \in Ops /\ op.kind \notin Migrating
    BY <1>5 DEF RestoreStep, CopyAside, Replace, At, Typed, FolderTypeOK, Migrating
  <2>2. op'.kind = op.kind
    BY <1>5, <2>1 DEF RestoreStep, CopyAside, Replace, Goto, Ops
  <2> QED BY <2>1, <2>2
<1>6. CASE WorldStep
  BY <1>6, WorldFrame
<1> QED
  BY <1>1, <1>2, <1>3, <1>4, <1>5, <1>6

LEMMA SteppingKept == Typed /\ Stepping /\ FolderNext => Stepping'
<1> SUFFICES ASSUME Typed, Stepping, FolderNext PROVE Stepping'
  OBVIOUS
<1>1. CASE ~ MigrationStep
  <2>1. op' # None => op'.kind \notin Migrating \/ op'.at = "recover"
    BY <1>1, StepKinds, NoMigration
  <2> QED BY <2>1 DEF Stepping, MigrationAt
<1>2. CASE MigrationStep
  <2>0. op # None /\ op \in Ops /\ op.kind \in Migrating
    BY <1>2, MigrationFrame
  <2> USE <2>0
  <2>1. CASE op' = None
    BY <2>1 DEF Stepping, MigrationAt
  <2>2. CASE NoJournal \/ ClearJournal
    <3>1. op'.at = "plan" /\ journal' = None
      BY <2>2, GotoKeeps DEF NoJournal, ClearJournal, Stages, disk
    <3> QED BY <3>1 DEF Stepping, MigrationAt
  <2>3. CASE FinishStamp \/ NeverHappened \/ Recount
    <3>1. op'.at \in {"clear", "unlink"}
      BY <2>3, GotoKeeps DEF FinishStamp, NeverHappened, Recount, Stages
    <3> QED BY <3>1 DEF Stepping, MigrationAt
  <2>4. CASE Plan
    <3>1. op' = [op EXCEPT !.at = "journal", !.after = [recs |-> Rows, shape |-> op.to]]
          /\ UNCHANGED <<store, version, journal>>
      BY <2>4 DEF Plan, disk
    <3>2. op'.at = "journal" /\ op'.to = op.to /\ op'.after = [recs |-> Rows, shape |-> op.to]
      BY <3>1 DEF Ops
    <3>3. op.to # version
      BY <2>4 DEF Plan, Noop, Typed, FolderTypeOK, Versions, Ops
    <3>4. journal = None
      BY <2>4 DEF Plan, At, Stepping, MigrationAt
    <3>5. Rows' = Rows
      BY <3>1 DEF Rows
    <3> QED BY <3>1, <3>2, <3>3, <3>4, <3>5 DEF Stepping, MigrationAt
  <2>5. CASE WriteJournal
    <3>1. op' = [op EXCEPT !.at = "corpus", !.before = store] /\ store' = store
          /\ journal' = [before |-> store, after |-> op.after, version |-> op.to]
      BY <2>5 DEF WriteJournal
    <3>2. op'.at = "corpus" /\ op'.before = store /\ op'.after = op.after /\ op'.to = op.to
      BY <3>1 DEF Ops
    <3>3. op.after.recs = Rows
      BY <2>5 DEF WriteJournal, At, Stepping, MigrationAt
    <3>4. Rows' = Rows
      BY <3>1 DEF Rows
    <3> QED BY <3>1, <3>2, <3>3, <3>4 DEF Stepping, MigrationAt
  <2>6. CASE WriteCorpus
    <3>1. /\ op'.at = "count" /\ op'.before = op.before /\ op'.after = op.after /\ op'.to = op.to
          /\ store' = op.after /\ journal' = journal
      BY <2>6, GotoKeeps DEF WriteCorpus, Stages
    <3>2. /\ op.before = store /\ op.after.recs = Rows
          /\ journal = [before |-> op.before, after |-> op.after, version |-> op.to]
      BY <2>6 DEF WriteCorpus, At, Stepping, MigrationAt
    <3> QED BY <3>1, <3>2 DEF Stepping, MigrationAt, Rows
  <2>7. CASE Count \/ StampFails
    <3>1. /\ op'.at \in {"stamp", "undo"}
          /\ op'.before = op.before /\ op'.after = op.after /\ op'.to = op.to
          /\ store' = store /\ journal' = journal
      BY <2>7, GotoKeeps DEF Count, StampFails, Stages, disk
    <3>2. /\ store = op.after /\ op.after.recs = IF op.before = None THEN {} ELSE op.before.recs
          /\ journal = [before |-> op.before, after |-> op.after, version |-> op.to]
      BY <2>7 DEF Count, StampFails, At, Stepping, MigrationAt
    <3> QED BY <3>1, <3>2 DEF Stepping, MigrationAt
  <2>8. CASE Stamp \/ Undo
    <3>1. PICK s \in {"unlink", "recount"} : op' = [op EXCEPT !.at = s, !.before = None, !.after = None]
      BY <2>8 DEF Stamp, Undo
    <3>2. op'.at = s
      BY <3>1 DEF Ops
    <3> QED BY <3>2 DEF Stepping, MigrationAt
  <2> QED
    BY <1>2, <2>1, <2>2, <2>3, <2>4, <2>5, <2>6, <2>7, <2>8 DEF MigrationStep, RefuseRecovery,
       NothingToDo, MigrationFails, UndoFails, Unlink, End
<1> QED
  BY <1>1, <1>2

\* Outside a migration the shape of the rows and the stamp change in four ways.
LEMMA StampedElsewhere ==
  ASSUME Typed, Stamped, FolderNext, ~ MigrationStep
  PROVE  Stamped'
<1>0. op' # None => op'.kind \notin Migrating \/ op'.at = "recover"
  BY StepKinds, NoMigration
<1>1. ~ MigrationAt({"clear", "recount", "unlink"})'
      /\ ~ MigrationAt({"corpus", "count", "stamp", "undo"})'
  BY <1>0 DEF MigrationAt
<1>t. store \in Files /\ version \in Versions /\ journal \in Journals \cup {None}
  BY DEF Typed, FolderTypeOK
<1>2. CASE UNCHANGED <<store, version, journal, misfit>>
  BY <1>1, <1>2 DEF Stamped, Agrees
<1>3. CASE Save \/ \E e \in Engrams : CutStore(e)
  <2>1. UNCHANGED <<version, journal, misfit>>
    BY <1>3 DEF Save, CutStore
  <2>2. store' # None => store'.shape = IF store = None THEN version ELSE store.shape
    BY <1>3, <1>t DEF Save, CutStore, Shape, Files, Corpora
  <2> QED BY <1>1, <2>1, <2>2 DEF Stamped, Agrees
<1>4. CASE Replace
  <2>1. /\ store' = op.after /\ UNCHANGED <<version, journal>>
        /\ misfit' = (misfit \/ op.after.shape \notin
                        {version} \cup (IF journal = None THEN {} ELSE {journal.version}))
    BY <1>4 DEF Replace
  <2> QED BY <1>1, <2>1 DEF Stamped, Agrees
<1>5. CASE Reconcile
  <2>1. /\ op = None /\ journal # None /\ journal' = None /\ UNCHANGED <<store, misfit>>
        /\ version' = IF store # None /\ store.shape = journal.version THEN journal.version
                      ELSE version
    BY <1>5 DEF Reconcile, ghosts
  <2> QED BY <1>1, <2>1 DEF Stamped, Agrees
<1>6. StartStep => UNCHANGED <<store, version, journal, misfit>>
  BY DEF StartStep, StartLearn, StartCompact, StartUp, StartDown, StartRestore, Start, disk, ghosts
<1>7. BackupStep => UNCHANGED <<store, version, journal, misfit>>
  BY BackupFrame DEF ghosts
<1>8. Finish \/ CopyAside => UNCHANGED <<store, version, journal, misfit>>
  BY DEF Finish, CopyAside, ghosts
<1>9. WorldStep =>
        UNCHANGED <<store, version, journal, misfit>> \/ \E e \in Engrams : CutStore(e)
  BY DEF WorldStep, Die, Restart, CutSnapshot, LoseHint, NextDay, disk, ghosts
<1> QED
  BY StepKinds, <1>2, <1>3, <1>4, <1>5, <1>6, <1>7, <1>8, <1>9 DEF WriteStep, RestoreStep

LEMMA StampedThrough ==
  ASSUME Typed, Stepping, Stamped, MigrationStep
  PROVE  Stamped'
<1>0. op # None /\ op \in Ops /\ op.kind \in Migrating /\ misfit' = misfit
  BY MigrationFrame DEF ghosts
<1> USE <1>0
<1>1. CASE misfit
  BY <1>1 DEF Stamped
<1>2. CASE ~ misfit
  <2> USE <1>2
  <2>0. /\ store \in Files /\ version \in Versions /\ journal \in Journals \cup {None}
        /\ None \notin Journals
    BY FileAssumption DEF Typed, FolderTypeOK
  <2>1. CASE NoJournal \/ StampFails \/ Count
    <3>1. UNCHANGED <<store, version, journal>> /\ op'.at \in {"plan", "undo", "stamp"}
          /\ op'.before = op.before
      BY <2>1, GotoKeeps DEF NoJournal, StampFails, Count, Stages, disk
    <3>2. MigrationAt({"corpus", "count", "stamp", "undo"})' =>
             MigrationAt({"corpus", "count", "stamp", "undo"})
      BY <2>1, <3>1 DEF NoJournal, StampFails, Count, At, MigrationAt, Goto, Ops
    <3> QED BY <3>1, <3>2 DEF Stamped, Agrees, MigrationAt
  <2>2. CASE FinishStamp
    <3>1. /\ journal # None /\ store = journal.after /\ version' = journal.version
          /\ UNCHANGED <<store, journal>> /\ op'.at = "clear"
      BY <2>2, GotoKeeps DEF FinishStamp, Stages
    <3> QED BY <3>1 DEF Stamped, Agrees, MigrationAt
  <2>3. CASE NeverHappened
    <3>1. /\ journal # None /\ store = journal.before
          /\ UNCHANGED <<store, version, journal>> /\ op'.at = "clear"
      BY <2>3, GotoKeeps DEF NeverHappened, Stages, disk
    <3> QED BY <3>1 DEF Stamped, Agrees, MigrationAt
  <2>4. CASE ClearJournal
    <3>1. journal' = None /\ UNCHANGED <<store, version>> /\ op'.at = "plan"
      BY <2>4, GotoKeeps DEF ClearJournal, Stages
    <3>2. MigrationAt({"clear", "recount", "unlink"})
      BY <2>4 DEF ClearJournal, At, MigrationAt
    <3> QED BY <3>1, <3>2 DEF Stamped, Agrees, MigrationAt
  <2>5. CASE RefuseRecovery \/ NothingToDo \/ MigrationFails \/ UndoFails
    <3>1. op' = None /\ UNCHANGED <<store, version, journal>>
      BY <2>5 DEF RefuseRecovery, NothingToDo, MigrationFails, UndoFails, End, disk
    <3> QED BY <3>1 DEF Stamped, Agrees, MigrationAt
  <2>6. CASE Plan
    <3>1. UNCHANGED <<store, version, journal>>
          /\ op' = [op EXCEPT !.at = "journal", !.after = [recs |-> Rows, shape |-> op.to]]
      BY <2>6 DEF Plan, disk
    <3>2. op'.at = "journal"
      BY <3>1 DEF Ops
    <3> QED BY <3>1, <3>2 DEF Stamped, Agrees, MigrationAt
  <2>7. CASE WriteJournal
    <3>1. /\ journal' = [before |-> store, after |-> op.after, version |-> op.to]
          /\ UNCHANGED <<store, version>> /\ op' = [op EXCEPT !.at = "corpus", !.before = store]
      BY <2>7 DEF WriteJournal
    <3>2. op'.at = "corpus" /\ op'.before = store
      BY <3>1 DEF Ops
    <3>3. journal = None /\ op.to # version /\ op.after.shape = op.to
      BY <2>7 DEF WriteJournal, At, Stepping, MigrationAt
    <3>4. Agrees(store)
      BY <3>3 DEF Stamped
    <3>5. /\ journal'.before = store /\ journal'.after.shape = op.to /\ journal'.version = op.to
          /\ journal' # None
      <4>1. op.after \in Corpora /\ op.to \in Versions
        BY <2>7 DEF WriteJournal, At, Typed, OpTypes, Ops
      <4>2. journal' \in Journals
        BY <2>0, <3>1, <4>1 DEF Journals
      <4> QED BY <2>0, <3>1, <3>3, <4>2
    <3> QED BY <3>1, <3>2, <3>3, <3>4, <3>5 DEF Stamped, Agrees, MigrationAt
  <2>8. CASE WriteCorpus
    <3>1. /\ op'.at = "count" /\ op'.before = op.before
          /\ store' = op.after /\ UNCHANGED <<version, journal>>
      BY <2>8, GotoKeeps DEF WriteCorpus, Stages
    <3>2. /\ journal = [before |-> op.before, after |-> op.after, version |-> op.to]
          /\ Agrees(op.before)
      BY <2>8 DEF WriteCorpus, At, Stepping, Stamped, MigrationAt
    <3>3. journal # None /\ journal.after = op.after
      <4>1. op.after \in Corpora /\ op.to \in Versions /\ op.before \in Files
        BY <2>8 DEF WriteCorpus, At, Typed, OpTypes, Ops
      <4>2. journal \in Journals
        BY <3>2, <4>1 DEF Journals
      <4> QED BY <2>0, <3>2, <4>2
    <3> QED BY <3>1, <3>2, <3>3 DEF Stamped, Agrees, MigrationAt
  <2>9. CASE Stamp
    <3>1. /\ version' = op.to /\ UNCHANGED <<store, journal>>
          /\ op' = [op EXCEPT !.at = "unlink", !.before = None, !.after = None]
      BY <2>9 DEF Stamp
    <3>2. op'.at = "unlink"
      BY <3>1 DEF Ops
    <3>3. /\ journal = [before |-> op.before, after |-> op.after, version |-> op.to]
          /\ store = op.after
      BY <2>9 DEF Stamp, At, Stepping, MigrationAt
    <3>4. journal # None /\ journal.after = store /\ journal.version = op.to
      <4>1. op.after \in Corpora /\ op.to \in Versions /\ op.before \in Files
        BY <2>9 DEF Stamp, At, Typed, OpTypes, Ops
      <4>2. journal \in Journals
        BY <3>3, <4>1 DEF Journals
      <4> QED BY <2>0, <3>3, <4>2
    <3> QED BY <3>1, <3>2, <3>4 DEF Stamped, Agrees, MigrationAt
  <2>10. CASE Undo
    <3>1. /\ store' = op.before /\ UNCHANGED <<version, journal>>
          /\ op' = [op EXCEPT !.at = "recount", !.before = None, !.after = None]
      BY <2>10 DEF Undo
    <3>2. op'.at = "recount"
      BY <3>1 DEF Ops
    <3>3. /\ journal = [before |-> op.before, after |-> op.after, version |-> op.to]
          /\ Agrees(op.before)
      BY <2>10 DEF Undo, At, Stepping, Stamped, MigrationAt
    <3>4. journal # None
      <4>1. op.after \in Corpora /\ op.to \in Versions /\ op.before \in Files
        BY <2>10 DEF Undo, At, Typed, OpTypes, Ops
      <4> QED BY <2>0, <3>3, <4>1 DEF Journals
    <3> QED BY <3>1, <3>2, <3>3, <3>4 DEF Stamped, Agrees, MigrationAt
  <2>11. CASE Recount
    <3>1. UNCHANGED <<store, version, journal>> /\ op'.at = "unlink"
      BY <2>11, GotoKeeps DEF Recount, Stages
    <3>2. MigrationAt({"clear", "recount", "unlink"})
      BY <2>11 DEF Recount, At, MigrationAt
    <3> QED BY <3>1, <3>2 DEF Stamped, Agrees, MigrationAt
  <2>12. CASE Unlink
    <3>1. journal' = None /\ op' = None /\ UNCHANGED <<store, version>>
      BY <2>12 DEF Unlink, End
    <3>2. MigrationAt({"clear", "recount", "unlink"})
      BY <2>12 DEF Unlink, At, MigrationAt
    <3> QED BY <3>1, <3>2 DEF Stamped, Agrees, MigrationAt
  <2> QED
    BY <2>1, <2>2, <2>3, <2>4, <2>5, <2>6, <2>7, <2>8, <2>9, <2>10, <2>11, <2>12
       DEF MigrationStep
<1> QED
  BY <1>1, <1>2

\* A step that keeps or extends the rows, the copies and what is gone keeps what was
\* acknowledged.
LEMMA RowsStay ==
  ASSUME Typed, AckedSurvive, Rows \ gone' \subseteq Rows' \cup aside', aside \subseteq aside',
         gone \subseteq gone', acked' \subseteq acked \cup Rows'
  PROVE  AckedSurvive'
<1>1. \A e \in acked \ gone : e \in Rows \cup aside
  BY DEF AckedSurvive, Rows
<1>2. \A e \in acked' \ gone' : e \in Rows' \cup aside'
  BY <1>1
<1> QED
  BY <1>2 DEF AckedSurvive, Rows

LEMMA StoredElsewhere ==
  ASSUME Typed, Stored, FolderNext, UNCHANGED <<store, aside, acked, gone>>,
         op' # None => op'.at \notin {"record", "replace"}
  PROVE  Stored'
<1>1. AckedSurvive'
  BY DEF Stored, AckedSurvive
<1> QED
  BY <1>1 DEF Stored

LEMMA StoredKept == Typed /\ Stepping /\ Stored /\ FolderNext => Stored'
<1> SUFFICES ASSUME Typed, Stepping, Stored, FolderNext PROVE Stored'
  OBVIOUS
<1>0. AckedSurvive
  BY DEF Stored
<1>1. CASE StartStep
  <2>1. UNCHANGED <<store, aside, acked, gone>>
    BY <1>1 DEF StartStep, StartLearn, StartCompact, StartUp, StartDown, StartRestore, Start,
       disk, ghosts
  <2>2. op'.at \in {"backup", "recover", "superseded"}
    BY <1>1 DEF StartStep, StartLearn, StartCompact, StartUp, StartDown, StartRestore, Start
  <2> QED BY <2>1, <2>2, StoredElsewhere
<1>2. CASE BackupStep
  <2>1. UNCHANGED <<store, aside, acked, gone>> /\ op'.at \notin {"record", "replace"}
    BY <1>2, BackupFrame DEF ghosts
  <2> QED BY <2>1, StoredElsewhere
<1>3. CASE Save
  <2>0. op \in Ops /\ op # None /\ op.kind \in Writing /\ op.rec \in Engrams
    BY <1>3 DEF Save, At, Typed, OpTypes, FolderTypeOK
  <2>1. /\ op'.at = "record" /\ op'.kind = op.kind /\ op'.rec = op.rec
        /\ UNCHANGED <<aside, acked>>
    BY <1>3, <2>0, GotoKeeps DEF Save, Stages
  <2>2. store' \in Corpora
    BY <1>3, <2>0, RowsType DEF Save, Corpora
  <2>3. store' # None /\ store'.recs = IF op.kind = "learn" THEN Rows \cup {op.rec}
                                       ELSE Rows \ {op.rec}
    BY <1>3, <2>2, FileAssumption DEF Save
  <2>4. gone' = IF op.kind = "compact" THEN gone \cup {op.rec} ELSE gone
    BY <1>3 DEF Save
  <2>5. Rows' = store'.recs
    BY <2>3 DEF Rows
  <2>6. AckedSurvive'
    BY <1>0, <2>0, <2>1, <2>3, <2>4, <2>5, RowsStay DEF Writing
  <2> QED BY <2>0, <2>1, <2>3, <2>6 DEF Stored, Writing
<1>4. CASE Finish
  <2>1. op' = None /\ UNCHANGED <<store, aside, gone>>
    BY <1>4 DEF Finish, End
  <2>2. acked' \subseteq acked \cup Rows
    BY <1>4 DEF Finish, At, Stored, Rows
  <2>3. Rows' = Rows
    BY <2>1 DEF Rows
  <2>4. AckedSurvive'
    BY <1>0, <2>1, <2>2, <2>3, RowsStay
  <2> QED BY <2>1, <2>4 DEF Stored
<1>5. CASE MigrationStep
  <2>0. /\ op # None /\ op \in Ops /\ op.kind \in Migrating /\ UNCHANGED <<aside, acked, gone>>
        /\ op' # None => op'.at \notin {"record", "replace"}
    BY <1>5, MigrationFrame DEF ghosts
  <2>1. CASE UNCHANGED store
    BY <2>0, <2>1, StoredElsewhere
  <2>2. CASE WriteCorpus \/ Undo
    <3>1. Rows' = Rows
      <4>1. CASE WriteCorpus
        <5>1. op.after.recs = Rows /\ op.after \in Corpora /\ store' = op.after
          BY <2>0, <4>1 DEF WriteCorpus, At, Stepping, MigrationAt, Typed, OpTypes
        <5> QED BY <5>1, FileAssumption DEF Rows
      <4>2. CASE Undo
        <5>1. /\ op.after.recs = (IF op.before = None THEN {} ELSE op.before.recs)
              /\ op.after \in Corpora /\ store = op.after /\ store' = op.before
          BY <2>0, <4>2 DEF Undo, At, Stepping, MigrationAt, Typed, OpTypes
        <5> QED BY <5>1, FileAssumption DEF Rows
      <4> QED BY <2>2, <4>1, <4>2
    <3>2. AckedSurvive'
      BY <1>0, <2>0, <3>1, RowsStay
    <3> QED BY <2>0, <3>2 DEF Stored
  <2> QED
    BY <1>5, <2>1, <2>2 DEF MigrationStep, NoJournal, FinishStamp, NeverHappened, RefuseRecovery,
       ClearJournal, NothingToDo, Plan, MigrationFails, WriteJournal, Count, Stamp, StampFails,
       UndoFails, Recount, Unlink, disk
<1>6. CASE Reconcile
  BY <1>6, StoredElsewhere DEF Reconcile, ghosts
<1>7. CASE CopyAside
  <2>0. op \in Ops /\ op # None /\ op.kind = "restore"
    BY <1>7 DEF CopyAside, At, Typed, FolderTypeOK
  <2>1. op'.at = "replace" /\ op'.kind = "restore" /\ UNCHANGED <<store, acked, gone>>
    BY <1>7, <2>0, GotoKeeps DEF CopyAside, Stages, ghosts
  <2>2. aside' = IF store = None THEN aside ELSE aside \cup store.recs
    BY <1>7 DEF CopyAside
  <2>3. AckedSurvive'
    BY <1>0, <2>1, <2>2 DEF AckedSurvive
  <2> QED BY <2>1, <2>2, <2>3 DEF Stored
<1>8. CASE Replace
  <2>0. op \in Ops /\ op # None /\ op.kind = "restore" /\ op.at = "replace"
    BY <1>8 DEF Replace, At, Typed, FolderTypeOK
  <2>1. op' = [op EXCEPT !.at = "record", !.after = None] /\ UNCHANGED <<aside, acked, gone>>
    BY <1>8 DEF Replace
  <2>2. op'.at = "record" /\ op'.kind = "restore"
    BY <2>0, <2>1 DEF Ops
  <2>3. Rows \subseteq aside
    BY <2>0 DEF Stored, Rows
  <2>4. AckedSurvive'
    BY <1>0, <2>1, <2>3, RowsStay
  <2> QED BY <2>2, <2>4 DEF Stored
<1>9. CASE WorldStep
  <2>1. op' = None /\ UNCHANGED <<aside, acked>>
    BY <1>9, WorldFrame
  <2>2. CASE \E e \in Engrams : CutStore(e)
    <3>1. PICK e \in Engrams : CutStore(e)
      BY <2>2
    <3>2. store # None /\ store' = [store EXCEPT !.recs = store.recs \ {e}]
          /\ gone' = gone \cup {e}
      BY <3>1 DEF CutStore
    <3>3. store \in Corpora
      BY <3>2 DEF Typed, FolderTypeOK, Files
    <3>4. store' \in Corpora /\ store'.recs = store.recs \ {e}
      BY <3>2, <3>3 DEF Corpora
    <3>5. Rows' = Rows \ {e}
      BY <3>2, <3>4, FileAssumption DEF Rows
    <3>6. AckedSurvive'
      BY <1>0, <2>1, <3>2, <3>5, RowsStay
    <3> QED BY <2>1, <3>6 DEF Stored
  <2>3. CASE UNCHANGED <<store, gone>>
    BY <2>1, <2>3, StoredElsewhere
  <2> QED
    BY <1>9, <2>2, <2>3 DEF WorldStep, Die, Restart, CutSnapshot, LoseHint, NextDay, disk, ghosts
<1> QED
  BY StepKinds, <1>1, <1>2, <1>3, <1>4, <1>5, <1>6, <1>7, <1>8, <1>9 DEF WriteStep, RestoreStep

\* The snapshots as they are, and no backup at its sidecar or its hint.
LEMMA CoveredElsewhere ==
  ASSUME Typed, Covered, UNCHANGED <<snaps, hint, today>>, damage' = damage,
         \A p \in Procs : done'[p] \subseteq done[p],
         op' # None => op'.at \notin {"sidecar", "hint"}
  PROVE  Covered'
  BY DEF Covered, At, DoneMeansCovered, HintToday, Intact

\* Rotation keeps the newest day there is.
LEMMA RotationKeepsToday ==
  ASSUME Typed, Covered, Rotate
  PROVE  snaps'[today] = snaps[today]
<1>1. today \in Days /\ snaps \in [Days -> Snaps] /\ Days \subseteq Nat
  BY FolderAssumption DEF Typed, FolderTypeOK
<1>2. Newer(today) = {}
  <2>1. \A d \in Listed : d \in Nat /\ d <= today
    BY <1>1 DEF Listed, Covered
  <2>2. \A d \in Listed : ~ (d > today)
    BY <1>1, <2>1
  <2> QED BY <2>2 DEF Newer
<1>3. Cardinality(Newer(today)) = 0
  BY <1>2, FS_EmptySet
<1>4. today \notin Older
  BY <1>3, FolderAssumption DEF Older
<1>5. today \in Listed => today \in Kept
  BY <1>4 DEF Kept
<1> QED
  BY <1>1, <1>5 DEF Rotate

LEMMA Remembered ==
  ASSUME Typed, Covered, op # None, Remember(op.by)
  PROVE  \A p \in Procs : \A d \in done'[p] : d <= today
<1>1. today \in Nat /\ done \in [Procs -> SUBSET Days]
  BY FolderAssumption DEF Typed, FolderTypeOK
<1>2. \A p \in Procs : done'[p] \subseteq done[p] \cup {today}
  BY <1>1 DEF Remember
<1>3. today <= today
  BY <1>1
<1> QED
  BY <1>2, <1>3 DEF Covered

LEMMA CoveredInBackup == Typed /\ Covered /\ BackupStep => Covered'
<1> SUFFICES ASSUME Typed, Covered, BackupStep PROVE Covered'
  OBVIOUS
<1>0. /\ op # None /\ op \in Ops /\ op.by \in Procs /\ today' = today /\ damage' = damage
      /\ today \in Days /\ Days \subseteq Nat /\ snaps \in [Days -> Snaps]
      /\ done \in [Procs -> SUBSET Days] /\ op.kind \in Writing
      /\ hint # None => hint.date \in Days
  BY BackupFrame, FolderAssumption DEF Typed, FolderTypeOK, Ops
<1>1. CASE AlreadyDone \/ Refuse
  <2>1. UNCHANGED <<snaps, hint, done>> /\ op'.at = "write"
    BY <1>0, <1>1, GotoKeeps DEF AlreadyDone, Refuse, Stages, disk, world
  <2> QED BY <1>0, <2>1, CoveredElsewhere
<1>2. CASE HintSaysDone
  <2>1. /\ UNCHANGED <<snaps, hint>> /\ op'.at = "write" /\ HintToday
        /\ done' = [done EXCEPT ![op.by] = @ \cup {today}]
    BY <1>0, <1>2, GotoKeeps DEF HintSaysDone, Stages, disk, Remember
  <2>2. \A p \in Procs : \A d \in done'[p] : d <= today
    BY <1>0, <1>2, Remembered DEF HintSaysDone
  <2>3. DoneMeansCovered'
    BY <1>0, <2>1 DEF Covered, DoneMeansCovered, Intact
  <2> QED BY <1>0, <2>1, <2>2, <2>3 DEF Covered, At
<1>3. CASE SnapshotSaysDone
  <2>1. /\ UNCHANGED snaps /\ op'.at = "write" /\ Intact(snaps[today])
        /\ done' = [done EXCEPT ![op.by] = @ \cup {today}]
        /\ hint'.date = today
    BY <1>0, <1>3, GotoKeeps DEF SnapshotSaysDone, Stages, Remember
  <2>2. \A p \in Procs : \A d \in done'[p] : d <= today
    BY <1>0, <1>3, Remembered DEF SnapshotSaysDone
  <2>3. DoneMeansCovered'
    BY <1>0, <2>1 DEF DoneMeansCovered, Intact
  <2> QED BY <1>0, <2>1, <2>2, <2>3 DEF Covered, At
<1>4. CASE SetAside
  <2>1. /\ snaps' = [snaps EXCEPT ![today] = NoSnap] /\ UNCHANGED <<hint, done, op>>
        /\ op.at = "backup" /\ ~ Intact(snaps[today])
    BY <1>4 DEF SetAside, Undecided, At, world
  <2>2. DoneMeansCovered'
    BY <1>0, <2>1 DEF Covered, DoneMeansCovered, HintToday
  <2>3. \A d \in Days : snaps'[d].bytes # None => snaps[d].bytes # None
    BY <1>0, <2>1 DEF NoSnap
  <2> QED BY <1>0, <2>1, <2>2, <2>3 DEF Covered, At
<1>5. CASE Snapshot
  <2>1. /\ snaps' = [snaps EXCEPT ![today] = [snaps[today] EXCEPT !.bytes = store]]
        /\ op' = [op EXCEPT !.at = "sidecar", !.before = store]
        /\ UNCHANGED <<hint, done>> /\ today \notin Listed
    BY <1>5 DEF Snapshot, world
  <2>2. op'.at = "sidecar" /\ op'.before = store
    BY <1>0, <2>1 DEF Ops
  <2>3. ~ Intact(snaps[today])
    BY <1>0, <2>1 DEF Listed, Intact
  <2>4. DoneMeansCovered'
    BY <1>0, <2>1, <2>3 DEF Covered, DoneMeansCovered, HintToday
  <2>5. snaps'[today].bytes = store
    BY <1>0, <2>1 DEF Snaps
  <2>6. \A d \in Days : snaps'[d].bytes # None => d <= today
    BY <1>0, <2>1 DEF Covered
  <2> QED BY <1>0, <2>1, <2>2, <2>4, <2>5, <2>6 DEF Covered, At
<1>6. CASE Sidecar
  <2>1. /\ snaps' = [snaps EXCEPT ![today] = [snaps[today] EXCEPT !.sum = op.before]]
        /\ op'.at = "hint" /\ op'.before = op.before /\ UNCHANGED <<hint, done>>
    BY <1>0, <1>6, GotoKeeps DEF Sidecar, Stages, world
  <2>2. snaps[today].bytes = op.before /\ op.before # None
    BY <1>0, <1>6, FileAssumption DEF Sidecar, Covered, At, Typed, OpTypes
  <2>3. snaps'[today].bytes = op.before /\ snaps'[today].sum = op.before
    BY <1>0, <2>1, <2>2 DEF Snaps
  <2>4. DoneMeansCovered'
    BY <1>0, <2>2, <2>3 DEF DoneMeansCovered, Intact
  <2>5. \A d \in Days : snaps'[d].bytes # None => snaps[d].bytes # None
    BY <1>0, <2>1, <2>2, <2>3
  <2> QED BY <1>0, <2>1, <2>3, <2>4, <2>5 DEF Covered, At
<1>7. CASE WriteHint
  <2>1. /\ hint'.date = today /\ UNCHANGED snaps
        /\ done' = [done EXCEPT ![op.by] = @ \cup {today}]
        /\ op' = [op EXCEPT !.at = "rotate", !.before = None]
    BY <1>7 DEF WriteHint, Remember
  <2>2. op'.at = "rotate"
    BY <1>0, <2>1 DEF Ops
  <2>3. snaps[today].bytes = op.before /\ snaps[today].sum = op.before /\ op.before # None
    BY <1>0, <1>7, FileAssumption DEF WriteHint, Covered, At, Typed, OpTypes
  <2>4. \A p \in Procs : \A d \in done'[p] : d <= today
    BY <1>0, <1>7, Remembered DEF WriteHint
  <2>5. DoneMeansCovered'
    BY <1>0, <2>1, <2>3 DEF DoneMeansCovered, Intact
  <2> QED BY <1>0, <2>1, <2>2, <2>4, <2>5 DEF Covered, At
<1>8. CASE Rotate
  <2>1. op'.at = "write" /\ UNCHANGED <<hint, done>>
    BY <1>0, <1>8, GotoKeeps DEF Rotate, Stages, world
  <2>2. snaps'[today] = snaps[today]
    BY <1>8, RotationKeepsToday
  <2>3. \A d \in Days : snaps'[d].bytes # None => snaps[d].bytes # None
    BY <1>0, <1>8 DEF Rotate, NoSnap
  <2>4. DoneMeansCovered'
    BY <1>0, <2>1, <2>2 DEF Covered, DoneMeansCovered, HintToday, Intact
  <2> QED BY <1>0, <2>1, <2>3, <2>4 DEF Covered, At
<1> QED
  BY <1>1, <1>2, <1>3, <1>4, <1>5, <1>6, <1>7, <1>8 DEF BackupStep

LEMMA CoveredInWorld == Typed /\ Covered /\ WorldStep => Covered'
<1> SUFFICES ASSUME Typed, Covered, WorldStep PROVE Covered'
  OBVIOUS
<1>0. /\ op' = None /\ today \in Days /\ Days \subseteq Nat /\ damage \in Nat
      /\ done \in [Procs -> SUBSET Days] /\ snaps \in [Days -> Snaps]
      /\ hint # None => hint.date \in Days
  BY WorldFrame, FolderAssumption DEF Typed, FolderTypeOK
<1>1. CASE Die \/ \E p \in Procs : Restart(p)
  <2>1. UNCHANGED <<snaps, hint, today, damage>> /\ \A p \in Procs : done'[p] \subseteq done[p]
    BY <1>0, <1>1 DEF Die, Restart, disk
  <2> QED BY <1>0, <2>1, CoveredElsewhere
<1>2. CASE \/ \E e \in Engrams : CutStore(e)
           \/ \E d \in Days, e \in Engrams : CutSnapshot(d, e)
           \/ LoseHint
  <2>1. damage' = damage + 1 /\ UNCHANGED <<today, done>> /\ (hint' = hint \/ hint' = None)
    BY <1>2 DEF CutStore, CutSnapshot, LoseHint
  <2>2. DoneMeansCovered'
    BY <1>0, <2>1 DEF DoneMeansCovered
  <2>3. \A d \in Days : snaps'[d].bytes # None => snaps[d].bytes # None
    <3>1. CASE UNCHANGED snaps
      BY <3>1
    <3>2. ASSUME NEW c \in Days, NEW e \in Engrams, CutSnapshot(c, e)
          PROVE  \A d \in Days : snaps'[d].bytes # None => snaps[d].bytes # None
      BY <1>0, <3>2 DEF CutSnapshot, Listed
    <3> QED BY <1>2, <3>1, <3>2 DEF CutStore, LoseHint
  <2> QED BY <1>0, <2>1, <2>2, <2>3 DEF Covered, At
<1>3. CASE NextDay
  <2>1. UNCHANGED <<snaps, hint, done>> /\ today' = today + 1
    BY <1>3 DEF NextDay, disk
  <2>2. ~ HintToday' /\ \A p \in Procs : today' \notin done'[p]
    BY <1>0, <2>1 DEF Covered, HintToday
  <2>3. DoneMeansCovered'
    BY <2>2 DEF DoneMeansCovered
  <2>4. \A p \in Procs : \A d \in done'[p] : d <= today'
    BY <1>0, <2>1 DEF Covered
  <2>5. \A d \in Days : snaps'[d].bytes # None => d <= today'
    BY <1>0, <2>1 DEF Covered
  <2> QED BY <1>0, <2>1, <2>3, <2>4, <2>5 DEF Covered, At
<1> QED
  BY <1>1, <1>2, <1>3 DEF WorldStep

LEMMA CoveredKept == Typed /\ Covered /\ FolderNext => Covered'
<1> SUFFICES ASSUME Typed, Covered, FolderNext PROVE Covered'
  OBVIOUS
<1>1. CASE StartStep
  <2>1. UNCHANGED <<snaps, hint, today, damage, done>>
        /\ op'.at \in {"backup", "recover", "superseded"}
    BY <1>1 DEF StartStep, StartLearn, StartCompact, StartUp, StartDown, StartRestore, Start,
       disk, world
  <2> QED BY <2>1, CoveredElsewhere
<1>2. CASE WriteStep
  <2>1. UNCHANGED <<snaps, hint, today, damage, done>>
    BY <1>2 DEF WriteStep, Save, Finish, world
  <2>2. op' = None \/ op'.at = "record"
    BY <1>2 DEF WriteStep, Save, Finish, End, Goto, At, Typed, FolderTypeOK, Ops
  <2> QED BY <2>1, <2>2, CoveredElsewhere
<1>3. CASE MigrationStep
  <2>1. /\ UNCHANGED <<snaps, hint, today, damage, done>>
        /\ op' # None => op'.at \notin {"sidecar", "hint"}
    BY <1>3, MigrationFrame DEF world
  <2> QED BY <2>1, CoveredElsewhere
<1>4. CASE Reconcile
  BY <1>4, CoveredElsewhere DEF Reconcile, world
<1>5. CASE RestoreStep
  <2>1. UNCHANGED <<snaps, hint, today, damage, done>>
    BY <1>5 DEF RestoreStep, CopyAside, Replace, world
  <2>2. op'.at \in {"replace", "record"}
    BY <1>5 DEF RestoreStep, CopyAside, Replace, Goto, At, Typed, FolderTypeOK, Ops
  <2> QED BY <2>1, <2>2, CoveredElsewhere
<1> QED
  BY StepKinds, CoveredInBackup, CoveredInWorld, <1>1, <1>2, <1>3, <1>4, <1>5

----------------------------------------------------------------------------
(* A snapshot that verifies                                                *)

\* A set of days none of which is to come has a newest one.
LEMMA NewestDay ==
  ASSUME NEW T \in SUBSET Nat, T # {}, NEW n \in Nat, \A x \in T : x <= n
  PROVE  \E m \in T : \A x \in T : x <= m
<1> DEFINE R == OpToRel(<, Nat)
           U == {n - x : x \in T}
<1>1. IsWellFoundedOn(R, Nat)
  BY NatLessThanWellFounded
<1>2. \A x, y \in Nat : <<y, x>> \notin R => ~(y < x)
  BY DEF OpToRel
<1>3. U \subseteq Nat /\ U # {}
  <2>1. \A x \in T : x \in Nat /\ x <= n
    OBVIOUS
  <2>2. \A x \in T : n - x \in Nat
    BY <2>1
  <2> QED
    BY <2>2
<1> HIDE DEF R
<1>4. PICK u \in U : \A y \in U : ~(<<y, u>> \in R)
  BY <1>1, <1>3, WFMin
<1>5. PICK m \in T : u = n - m
  OBVIOUS
<1>6. ASSUME NEW x \in T PROVE x <= m
  <2>1. n - x \in U /\ n - x \in Nat /\ u \in Nat
    BY <1>3
  <2>2. ~(n - x < u)
    BY <1>2, <1>4, <2>1
  <2> QED
    BY <1>5, <2>2
<1> QED
  BY <1>6

\* The newest of the days that rotation counts as old has KeepDaily newer ones, and
\* none of those is old: whatever goes, they stay.
LEMMA RotationLeavesNewer ==
  ASSUME Typed, Covered, NEW d \in Older
  PROVE  Cardinality({c \in Days : c > d /\ c \in Kept}) >= KeepDaily
<1>1. today \in Nat /\ Days \subseteq Nat /\ KeepDaily \in Nat
  BY FolderAssumption DEF Typed, FolderTypeOK
<1>2. Listed \subseteq Days /\ Listed \subseteq Nat /\ Older \subseteq Listed /\ \A c \in Listed : c <= today
  BY <1>1 DEF Listed, Older, Covered
<1>3. PICK m \in Older : \A x \in Older : x <= m
  <2>1. Older \in SUBSET Nat /\ Older # {} /\ \A x \in Older : x <= today
    BY <1>2
  <2> QED
    BY <1>1, <2>1, NewestDay
<1>4. Cardinality(Newer(m)) >= KeepDaily
  BY DEF Older
<1> DEFINE K == {c \in Days : c > d /\ c \in Kept}
<1>5. Newer(m) \subseteq K
  <2>1. m \in Nat /\ d \in Nat /\ d <= m
    BY <1>2, <1>3
  <2> SUFFICES ASSUME NEW c \in Newer(m) PROVE c \in K
    OBVIOUS
  <2>2. c \in Listed /\ c > m
    BY DEF Newer
  <2>3. c \notin Older
    BY <1>2, <1>3, <2>1, <2>2
  <2> QED
    BY <1>2, <2>1, <2>2, <2>3 DEF Kept
<1>6. IsFiniteSet(K)
  <2>1. K \in SUBSET Nat /\ \A c \in K : c <= today
    BY <1>1, <1>2 DEF Kept, Weekly
  <2> QED
    BY <1>1, <2>1, FS_BoundedSetOfNaturals
<1> HIDE DEF K
<1>7. Cardinality(Newer(m)) <= Cardinality(K) /\ Cardinality(K) \in Nat /\ Cardinality(Newer(m)) \in Nat
  BY <1>5, <1>6, FS_Subset, FS_CardinalityType
<1>8. Cardinality(K) >= KeepDaily
  BY <1>1, <1>4, <1>7
<1> QED
  BY <1>8 DEF K

\* What a step may do to a snapshot that verifies.
Spared(d) ==
  Intact(snaps[d]) /\ snaps'[d] # snaps[d] =>
    \/ damage' # damage
    \/ op.at = "rotate" /\ snaps'[d] = NoSnap
       /\ Cardinality({c \in Days : c > d /\ snaps'[c].bytes # None}) >= KeepDaily

LEMMA StepSpares ==
  ASSUME Typed, Covered, FolderNext, NEW d \in Days
  PROVE  Spared(d)
<1>1. snaps \in [Days -> Snaps] /\ today \in Days
  BY DEF Typed, FolderTypeOK
<1>2. CASE snaps' = snaps
  BY <1>2 DEF Spared
<1>3. CASE StartStep \/ WriteStep \/ MigrationStep \/ Reconcile \/ RestoreStep
  <2>1. StartStep => snaps' = snaps
    BY DEF StartStep, StartLearn, StartCompact, StartUp, StartDown, StartRestore, Start, disk
  <2>2. WriteStep \/ Reconcile \/ RestoreStep => snaps' = snaps
    BY DEF WriteStep, Save, Finish, Reconcile, RestoreStep, CopyAside, Replace
  <2>3. MigrationStep => snaps' = snaps
    BY MigrationFrame
  <2> QED
    BY <1>2, <1>3, <2>1, <2>2, <2>3
<1>4. CASE WorldStep
  <2>1. damage \in Nat
    BY DEF Typed, FolderTypeOK
  <2>2. damage' # damage \/ snaps' = snaps
    BY <1>4, <2>1 DEF WorldStep, Die, Restart, CutStore, CutSnapshot, LoseHint, NextDay, disk
  <2> QED
    BY <1>2, <2>2 DEF Spared
<1>5. CASE BackupStep
  <2>1. CASE AlreadyDone \/ HintSaysDone \/ SnapshotSaysDone \/ Refuse \/ WriteHint
    BY <1>2, <2>1 DEF AlreadyDone, HintSaysDone, SnapshotSaysDone, Refuse, WriteHint, disk
  <2>2. CASE SetAside
    <3>1. ~Intact(snaps[today]) /\ (d # today => snaps'[d] = snaps[d])
      BY <1>1, <2>2 DEF SetAside
    <3> QED
      BY <3>1 DEF Spared
  <2>3. CASE Snapshot
    <3>1. snaps[today].bytes = None /\ (d # today => snaps'[d] = snaps[d])
      BY <1>1, <2>3 DEF Snapshot, Listed
    <3> QED
      BY <3>1 DEF Spared, Intact
  <2>4. CASE Sidecar
    <3>1. snaps[today].bytes = op.before
      BY <2>4 DEF Sidecar, Covered
    <3>2. snaps' = [snaps EXCEPT ![today].sum = op.before]
      BY <2>4 DEF Sidecar
    <3>3. CASE d # today
      BY <1>1, <3>2, <3>3 DEF Spared
    <3>4. CASE d = today
      <4>1. snaps'[d] = [snaps[d] EXCEPT !.sum = op.before]
        BY <1>1, <3>2, <3>4
      <4>2. Intact(snaps[d]) => snaps[d].sum = op.before
        BY <3>1, <3>4 DEF Intact
      <4>3. \A s \in Snaps : [s EXCEPT !.sum = s.sum] = s
        BY DEF Snaps
      <4>4. Intact(snaps[d]) => snaps'[d] = snaps[d]
        BY <1>1, <4>1, <4>2, <4>3
      <4> QED
        BY <4>4 DEF Spared
    <3> QED
      BY <3>3, <3>4
  <2>5. CASE Rotate
    <3>1. snaps' = [c \in Days |-> IF c \in Listed \ Kept THEN NoSnap ELSE snaps[c]] /\ op.at = "rotate"
      BY <2>5 DEF Rotate, At
    <3>2. ASSUME snaps'[d] # snaps[d]
          PROVE  snaps'[d] = NoSnap /\ Cardinality({c \in Days : c > d /\ snaps'[c].bytes # None}) >= KeepDaily
      <4>1. d \in Listed \ Kept /\ snaps'[d] = NoSnap
        BY <3>1, <3>2
      <4>2. d \in Older
        BY <4>1 DEF Kept
      <4>3. {c \in Days : c > d /\ snaps'[c].bytes # None} = {c \in Days : c > d /\ c \in Kept}
        <5>1. \A c \in Kept : c \in Listed
          BY DEF Kept, Weekly, Older
        <5>2. \A c \in Days : snaps'[c].bytes # None <=> c \in Kept
          BY <3>1, <5>1 DEF Listed, NoSnap
        <5> QED
          BY <5>2
      <4> QED
        BY <4>1, <4>2, <4>3, RotationLeavesNewer
    <3> QED
      BY <3>1, <3>2 DEF Spared
  <2> QED
    BY <1>5, <2>1, <2>2, <2>3, <2>4, <2>5 DEF BackupStep
<1> QED
  BY <1>3, <1>4, <1>5, StepKinds

----------------------------------------------------------------------------
(* The theorems                                                            *)

LEMMA FolderStarts == FolderInit => FolderInv
<1> SUFFICES ASSUME FolderInit PROVE FolderInv
  OBVIOUS
<1>1. NoSnap \in Snaps /\ 0 \in Versions /\ NoFolder \in Counts
  BY FolderAssumption DEF NoSnap, Snaps, Files, Versions, Counts
<1>2. Typed
  <2>1. snaps \in [Days -> Snaps] /\ done \in [Procs -> SUBSET Days] /\ today \in Days
    BY <1>1, FolderAssumption DEF FolderInit
  <2>2. deaths \in Nat /\ damage \in Nat /\ Faults <= MaxFaults
    BY FolderAssumption DEF FolderInit, Faults
  <2>3. /\ store \in Files /\ version \in Versions /\ journal \in Journals \cup {None}
        /\ hint \in {None} \cup [date : Days, count : Nat] /\ written \in Counts
        /\ op \in Ops \cup {None} /\ misfit \in BOOLEAN
        /\ aside \subseteq Engrams /\ acked \subseteq Engrams /\ gone \subseteq Engrams
    BY <1>1 DEF FolderInit, Files
  <2>4. OpTypes
    BY DEF FolderInit, OpTypes
  <2> QED BY <2>1, <2>2, <2>3, <2>4 DEF Typed, FolderTypeOK
<1>3. Stepping /\ Stamped
  BY DEF FolderInit, Stepping, Stamped, Agrees, MigrationAt
<1>4. Stored
  BY DEF FolderInit, Stored, AckedSurvive
<1>5. Covered
  BY FolderAssumption DEF FolderInit, Covered, At, DoneMeansCovered, HintToday, NoSnap
<1> QED
  BY <1>2, <1>3, <1>4, <1>5 DEF FolderInv

LEMMA FolderInvKept == FolderInv /\ [FolderNext]_folderVars => FolderInv'
<1>1. FolderInv /\ FolderNext => FolderInv'
  BY TypedKept, SteppingKept, StampedElsewhere, StampedThrough, StoredKept, CoveredKept
     DEF FolderInv
<1>2. FolderInv /\ UNCHANGED folderVars => FolderInv'
  <2> SUFFICES ASSUME FolderInv, UNCHANGED folderVars PROVE FolderInv'
    OBVIOUS
  <2>1. Typed'
    BY TypedKept DEF FolderInv
  <2>2. Stepping' /\ Stamped'
    BY DEF folderVars, FolderInv, Stepping, Stamped, Agrees, MigrationAt, Rows
  <2>3. Stored' /\ Covered'
    BY DEF folderVars, FolderInv, Stored, AckedSurvive, Covered, At, DoneMeansCovered, HintToday,
       Intact
  <2> QED BY <2>1, <2>2, <2>3 DEF FolderInv
<1> QED
  BY <1>1, <1>2

\* The files have the form the code reads, whatever dies and is damaged.
THEOREM FolderTypeCorrect == FolderSpec => []FolderTypeOK
<1>1. FolderInv => FolderTypeOK
  BY DEF FolderInv, Typed
<1> QED
  BY <1>1, FolderStarts, FolderInvKept, PTL DEF FolderSpec

\* With no migration to finish, the rows have the shape that config.yaml records,
\* for any number of deaths, failed stamps and failed undos (commitMigration,
\* recoverMigration).
THEOREM StampsAreTrue == FolderSpec => []StampIsTrue
<1>1. FolderInv => StampIsTrue
  BY DEF FolderInv, Stamped, Agrees, StampIsTrue
<1> QED
  BY <1>1, FolderStarts, FolderInvKept, PTL DEF FolderSpec

\* What learn acknowledged is in the store or in the copy a restore set aside, for
\* any number of migrations, restores and deaths (commitMigration, restoreBackup).
THEOREM AcknowledgedSurvive == FolderSpec => []AckedSurvive
<1>1. FolderInv => AckedSurvive
  BY DEF FolderInv, Stored
<1> QED
  BY <1>1, FolderStarts, FolderInvKept, PTL DEF FolderSpec

\* A day is called backed up only when its snapshot verifies, for any schedule of
\* rotation, any number of processes and deaths (maybeDailyBackup, rotate).
THEOREM BackedUpIsCovered == FolderSpec => []DoneMeansCovered
<1>1. FolderInv => DoneMeansCovered
  BY DEF FolderInv, Covered
<1> QED
  BY <1>1, FolderStarts, FolderInvKept, PTL DEF FolderSpec

\* A snapshot that verifies is replaced by none, and goes only by rotation, when
\* KeepDaily newer ones stay, or when the file itself is damaged, for any days, weeks
\* and numbers to keep (maybeDailyBackup, rotate).
THEOREM GoodSnapshotsStand == FolderSpec => GoodSnapshotStands
<1>1. FolderInv /\ [FolderNext]_folderVars => [\A d \in Days : Spared(d)]_folderVars
  BY StepSpares DEF FolderInv
<1>2. FolderInv /\ [FolderNext]_folderVars
        => [\A d \in Days :
             Intact(snaps[d]) /\ snaps'[d] # snaps[d] =>
               \/ damage' # damage
               \/ op.at = "rotate" /\ snaps'[d] = NoSnap
                  /\ Cardinality({c \in Days : c > d /\ snaps'[c].bytes # None}) >= KeepDaily]_folderVars
  BY <1>1 DEF Spared
<1> QED
  BY <1>2, FolderStarts, FolderInvKept, PTL DEF FolderSpec, GoodSnapshotStands

----------------------------------------------------------------------------
(* Part 2: the pack registry. *)

Maybe(S) == S \union {NoPack}
PackStages == {"idle", "swap", "place", "record", "copies", "copyRow", "source", "unrow", "remove",
           "write"}
Plans == SUBSET [dir : Dirs, to : Hashes, carried : BOOLEAN]
Jobs == [at : PackStages, dir : Maybe(Dirs), name : Maybe(Names), pack : Maybe(Contents),
         asked : Maybe(Dirs), aside : Maybe(Contents), copies : SUBSET Dirs,
         copy : Maybe(Dirs), plan : Plans]

\* What a stage works with.
Staged(j) ==
  /\ j.at \in PackStages \ {"idle", "write"} => j.dir \in Dirs
  /\ j.at \in {"swap", "place", "record"} =>
       j.name \in Names /\ j.pack \in Contents /\ j.asked \in Dirs
  /\ j.at \in {"copies", "copyRow"} => j.name \in Names
  /\ j.at = "copyRow" => j.copy \in j.copies

PackTypeOK ==
  /\ dirs \in [Dirs -> Maybe(Contents)] /\ placed \in [Dirs -> Maybe(Hashes)]
  /\ own \in [Dirs -> Maybe(RegistryRows)] /\ legacy \in [Names -> Maybe(RegistryRows)]
  /\ job \in [Installers -> Jobs] /\ \A p \in Installers : Staged(job[p])
  /\ intact \subseteq Dirs
  /\ jobs \in Nat /\ edits \in Nat /\ mishaps \in Nat

Apart == \A p, q \in Installers : p # q => Touched(p) \intersect Touched(q) = {}

\* An install that has swapped its copy in, and not yet written the row.
Recording(d) == \E p \in Installers : job[p].at = "record" /\ job[p].dir = d

RowOk(d) ==
  /\ own[d] # NoPack /\ SameV1(own[d].hash, placed[d])
  /\ own[d].v2 /\ ~own[d].carried => own[d].hash = placed[d]

Based == \A d \in intact : ~Recording(d) => RowOk(d)
Swapped == \A p \in Installers :
  job[p].at = "record" => placed[job[p].dir] = HashOf(job[p].pack)
CopyGone == \A p \in Installers : job[p].at = "copyRow" => job[p].copy \notin intact

\* A plan that was checked against its source has what was installed, for the rows it
\* may still be written to.
PlanHolds(s) ==
  /\ ~s.carried /\ s.dir \in intact /\ ~Recording(s.dir)
  /\ own[s.dir] # NoPack /\ ~own[s.dir].v2
  => s.to = placed[s.dir]
Planned == \A p \in Installers : \A s \in job[p].plan : PlanHolds(s)

PackInv == PackTypeOK /\ Apart /\ Based /\ Swapped /\ CopyGone /\ Planned

----------------------------------------------------------------------------
(* Types *)

LEMMA Hashed == ASSUME NEW c \in Contents PROVE HashOf(c) \in Hashes
  BY DEF HashOf, Contents, Hashes

LEMMA RowsOf ==
  ASSUME NEW c \in Contents, NEW a \in Maybe(Dirs)
  PROVE  NewRow(c, a) \in RegistryRows /\ OldRow(c, a) \in RegistryRows
  BY Hashed DEF NewRow, OldRow, RegistryRows, Maybe

LEMMA NotNone ==
  NoPack \notin Contents /\ NoPack \notin Hashes /\ NoPack \notin RegistryRows
    /\ NoPack \notin Dirs /\ NoPack \notin Names
  BY RowAssumption, PackAssumption

\* The directory an install is given is one of the packs folder.
LEMMA PickedIsDir ==
  ASSUME NEW f \in Dirs, NEW n \in Names, NEW d \in Picked(f, n)
  PROVE  d \in Dirs
<1>1. Fallbacks[n] \in Seq(Dirs)
  BY PackAssumption
<1>2. Candidates(f, n) \in Seq(Dirs)
  BY <1>1 DEF Candidates
<1>3. PICK i \in DOMAIN Candidates(f, n) : d = Candidates(f, n)[i]
  BY DEF Picked, Least, Holding, Open
<1> QED
  BY <1>2, <1>3

LEMMA PackStarts == PackInit => PackInv
<1> SUFFICES ASSUME PackInit PROVE PackInv
  OBVIOUS
<1>1. \A p \in Installers : job[p] = NoJob
  BY DEF PackInit
<1>2. NoJob \in Jobs /\ Staged(NoJob) /\ NoJob.at = "idle" /\ NoJob.plan = {}
  BY DEF NoJob, Jobs, PackStages, Maybe, Plans, Staged
<1>3. /\ dirs \in [Dirs -> Maybe(Contents)]
      /\ own \in [Dirs -> Maybe(RegistryRows)] /\ legacy \in [Names -> Maybe(RegistryRows)]
      /\ \A d \in Dirs : own[d] # NoPack =>
           dirs[d] # NoPack /\ own[d].hash = HashOf(dirs[d])
  <2>1. CASE Fresh
    BY <2>1 DEF Fresh, Maybe
  <2>2. CASE OldFolder
    <3>1. PICK n \in Names, v \in Vers, w \in Vers : \E d, e \in Dirs :
            /\ dirs = [x \in Dirs |-> IF x = e THEN Content(n, w)
                                       ELSE IF x = d THEN Content(n, v) ELSE NoPack]
            /\ legacy = [m \in Names |-> IF m = n THEN OldRow(Content(n, w), e) ELSE NoPack]
      BY <2>2 DEF OldFolder
    <3>2. Content(n, w) \in Contents /\ Content(n, v) \in Contents
      BY DEF Content, Contents
    <3>3. \A e \in Dirs : OldRow(Content(n, w), e) \in RegistryRows
      BY <3>2, RowsOf DEF Maybe
    <3> QED BY <2>2, <3>1, <3>2, <3>3 DEF OldFolder, Maybe
  <2>3. CASE Displaced
    <3>1. PICK n \in Names, v \in Vers, f \in Dirs :
            /\ dirs = [d \in Dirs |-> IF d \in {f, Head(Fallbacks[n])} THEN Content(n, v) ELSE NoPack]
            /\ own = [d \in Dirs |-> IF dirs[d] = NoPack THEN NoPack ELSE OldRow(dirs[d], f)]
      BY <2>3 DEF Displaced
    <3>2. Content(n, v) \in Contents
      BY DEF Content, Contents
    <3>3. dirs \in [Dirs -> Maybe(Contents)]
      BY <3>1, <3>2 DEF Maybe
    <3>4. \A d \in Dirs : dirs[d] # NoPack => OldRow(dirs[d], f) \in RegistryRows
      BY <3>3, RowsOf DEF Maybe
    <3>5. \A d \in Dirs : OldRow(dirs[d], f).hash = HashOf(dirs[d])
      BY DEF OldRow, NewRow
    <3> QED BY <2>3, <3>1, <3>3, <3>4, <3>5 DEF Displaced, Maybe
  <2> QED BY <2>1, <2>2, <2>3 DEF PackInit
<1>4. \A d \in Dirs : placed[d] = IF dirs[d] = NoPack THEN NoPack ELSE HashOf(dirs[d])
  BY DEF PackInit
<1>5. placed \in [Dirs -> Maybe(Hashes)]
  BY <1>3, Hashed DEF PackInit, Maybe
<1>6. PackTypeOK
  BY <1>1, <1>2, <1>3, <1>5 DEF PackInit, PackTypeOK
<1>7. Apart /\ Swapped /\ CopyGone /\ Planned
  BY <1>1, <1>2 DEF Apart, Touched, Swapped, CopyGone, Planned
<1>8. Based
  BY <1>3, <1>4 DEF PackInit, Based, RowOk, SameV1
<1> QED
  BY <1>6, <1>7, <1>8 DEF PackInv

\* What the steps of a job do to it.
LEMMA GoesKeeps ==
  ASSUME PackTypeOK, NEW p \in Installers, NEW l \in PackStages, Goes(p, l)
  PROVE  /\ job' \in [Installers -> Jobs] /\ job'[p] = [job[p] EXCEPT !.at = l]
         /\ \A q \in Installers \ {p} : job'[q] = job[q]
  BY DEF Goes, PackTypeOK, Jobs

LEMMA EndsKeeps ==
  ASSUME PackTypeOK, NEW p \in Installers, Ends(p)
  PROVE  /\ job' \in [Installers -> Jobs] /\ \A q \in Installers : Staged(job'[q])
         /\ job'[p] = NoJob /\ \A q \in Installers \ {p} : job'[q] = job[q]
<1>1. NoJob \in Jobs /\ Staged(NoJob)
  BY DEF NoJob, Jobs, PackStages, Maybe, Plans, Staged
<1> QED
  BY <1>1 DEF Ends, PackTypeOK

LEMMA GoesOnKeeps ==
  ASSUME PackTypeOK, NEW p \in Installers, job[p].at \in {"record", "copies", "copyRow"},
         NEW copies \in SUBSET Dirs, GoesOn(p, copies)
  PROVE  /\ job' \in [Installers -> Jobs] /\ \A q \in Installers : Staged(job'[q])
         /\ \A q \in Installers \ {p} : job'[q] = job[q]
         /\ job'[p].at \in {"copies", "source"} /\ job'[p].dir = job[p].dir
         /\ job'[p].copies \subseteq copies /\ job'[p].plan = job[p].plan
         /\ job'[p].name = job[p].name
<1>1. job[p] \in Jobs /\ Staged(job[p])
  BY DEF PackTypeOK
<1>2. job[p].name \in Names /\ job[p].dir \in Dirs
  BY <1>1 DEF Staged, PackStages
<1>3. /\ job'[p] = IF copies # {} THEN [job[p] EXCEPT !.at = "copies", !.copies = copies]
                    ELSE [job[p] EXCEPT !.at = "source", !.copies = {}]
      /\ job' = [job EXCEPT ![p] = job'[p]]
  BY DEF GoesOn, PackTypeOK
<1>4. job'[p] \in Jobs
  BY <1>1, <1>3 DEF Jobs, PackStages
<1>5. /\ job'[p].at \in {"copies", "source"} /\ job'[p].dir = job[p].dir
      /\ job'[p].copies \subseteq copies /\ job'[p].plan = job[p].plan
      /\ job'[p].name = job[p].name
  BY <1>1, <1>3 DEF Jobs
<1>6. Staged(job'[p])
  BY <1>2, <1>5 DEF Staged
<1>7. /\ job' \in [Installers -> Jobs] /\ \A q \in Installers \ {p} : job'[q] = job[q]
  BY <1>3, <1>4 DEF PackTypeOK
<1> QED
  BY <1>5, <1>6, <1>7 DEF PackTypeOK

LEMMA AddRowTypes ==
  ASSUME PackTypeOK, NEW d \in Dirs, NEW n \in Names, NEW row \in RegistryRows, AddRow(d, n, row)
  PROVE  own' \in [Dirs -> Maybe(RegistryRows)] /\ legacy' \in [Names -> Maybe(RegistryRows)]
  BY DEF AddRow, PackTypeOK, Maybe

LEMMA RemoveRowTypes ==
  ASSUME PackTypeOK, NEW d \in Dirs, NEW n, RemoveRow(d, n)
  PROVE  /\ own' \in [Dirs -> Maybe(RegistryRows)] /\ legacy' \in [Names -> Maybe(RegistryRows)]
         /\ \A e \in Dirs : own'[e] = IF e = d THEN NoPack ELSE own[e]
<1>1. CASE own[d] # NoPack
  BY <1>1 DEF RemoveRow, PackTypeOK, Maybe
<1>2. CASE own[d] = NoPack
  <2>1. own' = own
    BY <1>2 DEF RemoveRow
  <2>2. RowFor(d, n) # NoPack => n \in Names /\ legacy[n] \in RegistryRows
    BY <1>2 DEF RowFor, PackTypeOK, Maybe
  <2>3. \/ legacy' = legacy
        \/ RowFor(d, n) # NoPack /\ legacy' = [legacy EXCEPT ![n] = NoPack]
        \/ /\ RowFor(d, n) # NoPack
           /\ legacy' = [legacy EXCEPT ![n] = [legacy[n] EXCEPT !.ambiguous = TRUE]]
    BY <1>2, <2>2 DEF RemoveRow, PackTypeOK
  <2>4. RowFor(d, n) # NoPack => [legacy[n] EXCEPT !.ambiguous = TRUE] \in RegistryRows
    BY <2>2 DEF RegistryRows
  <2>5. legacy' \in [Names -> Maybe(RegistryRows)]
    BY <2>2, <2>3, <2>4 DEF PackTypeOK, Maybe
  <2> QED BY <1>2, <2>1, <2>5 DEF PackTypeOK
<1> QED
  BY <1>1, <1>2

LEMMA RebasedIsRow ==
  ASSUME NEW row \in RegistryRows, NEW s \in [dir : Dirs, to : Hashes, carried : BOOLEAN]
  PROVE  /\ Rebased(row, s) \in RegistryRows /\ Rebased(row, s).hash = s.to
         /\ Rebased(row, s).v2 = TRUE /\ Rebased(row, s).carried = s.carried
  BY DEF Rebased, RegistryRows

LEMMA PackStartTypes ==
  ASSUME PackTypeOK, NEW p \in Installers,
         StartInstall(p) \/ StartUninstall(p) \/ PlanMigration(p)
  PROVE  PackTypeOK'
<1>a. UNCHANGED <<dirs, registry, placed, intact, edits, mishaps>> /\ jobs' \in Nat
  <2>1. UNCHANGED <<dirs, registry, placed, intact, edits, mishaps>> /\ jobs' = jobs + 1
    BY Zenon DEF StartInstall, StartUninstall, PlanMigration
  <2> QED BY <2>1 DEF PackTypeOK
<1>b. NoJob \in Jobs
  BY DEF NoJob, Jobs, PackStages, Maybe, Plans
<1>c. ASSUME NEW j \in Jobs, Staged(j), job' = [job EXCEPT ![p] = j] PROVE PackTypeOK'
  <2>1. job' \in [Installers -> Jobs] /\ \A q \in Installers : Staged(job'[q])
    BY <1>c DEF PackTypeOK
  <2> QED BY <1>a, <2>1 DEF PackTypeOK, registry
<1>1. CASE StartInstall(p)
  <2>0. PICK f \in Dirs, n \in Names, v \in Vers : \E d \in Picked(f, n) :
          job' = [job EXCEPT ![p] = [NoJob EXCEPT !.at = "swap", !.dir = d, !.name = n,
                    !.pack = Content(n, v), !.asked = f, !.copies = StaleCopies(d, n)]]
    BY <1>1 DEF StartInstall
  <2>1. PICK d \in Picked(f, n) :
          job' = [job EXCEPT ![p] = [NoJob EXCEPT !.at = "swap", !.dir = d, !.name = n,
                    !.pack = Content(n, v), !.asked = f, !.copies = StaleCopies(d, n)]]
    BY <2>0
  <2>2. d \in Dirs /\ Content(n, v) \in Contents /\ StaleCopies(d, n) \in SUBSET Dirs
    BY PickedIsDir DEF Content, Contents, StaleCopies
  <2> DEFINE j == [NoJob EXCEPT !.at = "swap", !.dir = d, !.name = n,
                     !.pack = Content(n, v), !.asked = f, !.copies = StaleCopies(d, n)]
  <2>3. j \in Jobs /\ j.at = "swap" /\ j.dir = d /\ j.name = n /\ j.pack = Content(n, v)
        /\ j.asked = f
    BY <1>b, <2>2 DEF Jobs, PackStages, Maybe
  <2>4. Staged(j)
    BY <2>2, <2>3 DEF Staged
  <2> HIDE DEF j
  <2> QED BY <1>c, <2>1, <2>3, <2>4 DEF j
<1>2. CASE StartUninstall(p)
  <2>1. PICK d \in Dirs :
          job' = [job EXCEPT ![p] = [NoJob EXCEPT !.at = "unrow", !.dir = d, !.name = NameAt(d)]]
          /\ dirs[d] # NoPack
    BY <1>2 DEF StartUninstall
  <2>2. NameAt(d) \in Maybe(Names)
    BY <2>1 DEF NameAt, PackTypeOK, Maybe, Contents
  <2> DEFINE j == [NoJob EXCEPT !.at = "unrow", !.dir = d, !.name = NameAt(d)]
  <2>3. j \in Jobs /\ j.at = "unrow" /\ j.dir = d
    BY <1>b, <2>2 DEF Jobs, PackStages, Maybe
  <2>4. Staged(j)
    BY <2>3 DEF Staged
  <2> HIDE DEF j
  <2> QED BY <1>c, <2>1, <2>3, <2>4 DEF j
<1>3. CASE PlanMigration(p)
  <2>1. PICK lost \in [Dirs -> BOOLEAN] :
          LET D == {d \in Dirs : dirs[d] # NoPack /\ Migrates(d, lost[d])}
          IN job' = [job EXCEPT ![p] = [NoJob EXCEPT !.at = "write",
               !.plan = {[dir |-> d, to |-> HashOf(dirs[d]), carried |-> lost[d]] : d \in D}]]
    BY <1>3, Zenon DEF PlanMigration
  <2> DEFINE D == {d \in Dirs : dirs[d] # NoPack /\ Migrates(d, lost[d])}
             plan == {[dir |-> d, to |-> HashOf(dirs[d]), carried |-> lost[d]] : d \in D}
             j == [NoJob EXCEPT !.at = "write", !.plan = plan]
  <2>2. \A d \in D : HashOf(dirs[d]) \in Hashes
    BY <2>1, Hashed DEF PackTypeOK, Maybe
  <2>3. plan \in Plans
    BY <2>2 DEF Plans
  <2> HIDE DEF plan
  <2>4. j \in Jobs /\ j.at = "write"
    BY <1>b, <2>3 DEF Jobs, PackStages
  <2>5. Staged(j)
    BY <2>4 DEF Staged
  <2> HIDE DEF j
  <2> QED BY <1>c, <2>1, <2>4, <2>5 DEF j, plan
<1> QED
  BY <1>1, <1>2, <1>3

LEMMA SwapTypes ==
  ASSUME PackTypeOK, NEW p \in Installers, MoveAside(p) \/ Place(p) \/ PlaceFails(p)
  PROVE  PackTypeOK'
<1>0. job[p] \in Jobs /\ Staged(job[p])
  BY DEF PackTypeOK
<1>1. job[p].dir \in Dirs /\ job[p].pack \in Contents /\ job[p].name \in Names
      /\ job[p].asked \in Dirs /\ dirs[job[p].dir] \in Maybe(Contents)
      /\ job[p].aside \in Maybe(Contents)
  BY <1>0 DEF MoveAside, Place, PlaceFails, Staged, PackStages, PackTypeOK, Jobs
<1>2. CASE MoveAside(p)
  <2> DEFINE j == [job[p] EXCEPT !.at = "place", !.aside = dirs[job[p].dir]]
  <2>1. j \in Jobs /\ j.at = "place" /\ j.dir = job[p].dir /\ j.pack = job[p].pack
        /\ j.name = job[p].name /\ j.asked = job[p].asked
    BY <1>0, <1>1 DEF Jobs, PackStages
  <2>2. Staged(j)
    BY <1>1, <2>1 DEF Staged
  <2>3. job' = [job EXCEPT ![p] = j]
    BY <1>2, <1>0 DEF MoveAside, PackTypeOK, Jobs
  <2> HIDE DEF j
  <2>4. job' \in [Installers -> Jobs] /\ \A q \in Installers : Staged(job'[q])
    BY <2>1, <2>2, <2>3 DEF PackTypeOK
  <2>5. dirs' \in [Dirs -> Maybe(Contents)]
    BY <1>2 DEF MoveAside, PackTypeOK, Maybe
  <2> QED BY <1>2, <2>4, <2>5 DEF MoveAside, PackTypeOK, registry, bounds
<1>3. CASE Place(p)
  <2>1. CASE dirs[job[p].dir] = NoPack
    <3> DEFINE j == [job[p] EXCEPT !.at = "record", !.aside = NoPack]
    <3>1. j \in Jobs /\ j.at = "record" /\ j.dir = job[p].dir /\ j.pack = job[p].pack
          /\ j.name = job[p].name /\ j.asked = job[p].asked
      BY <1>0, <1>1 DEF Jobs, PackStages, Maybe
    <3>2. Staged(j)
      BY <1>1, <3>1 DEF Staged
    <3>3. job' = [job EXCEPT ![p] = j]
      BY <1>3, <2>1, <1>0 DEF Place, PackTypeOK, Jobs
    <3> HIDE DEF j
    <3>4. job' \in [Installers -> Jobs] /\ \A q \in Installers : Staged(job'[q])
      BY <3>1, <3>2, <3>3 DEF PackTypeOK
    <3>5. dirs' \in [Dirs -> Maybe(Contents)] /\ placed' \in [Dirs -> Maybe(Hashes)]
      BY <1>1, <1>3, <2>1, Hashed DEF Place, PackTypeOK, Maybe
    <3> QED BY <1>3, <3>4, <3>5 DEF Place, PackTypeOK, registry, bounds
  <2>2. CASE dirs[job[p].dir] # NoPack
    <3>1. Ends(p) /\ UNCHANGED <<dirs, placed, registry, intact, bounds>>
      BY <1>3, <2>2 DEF Place
    <3> QED BY <3>1, EndsKeeps DEF PackTypeOK, registry, bounds
  <2> QED BY <2>1, <2>2
<1>4. CASE PlaceFails(p)
  <2>1. dirs' \in [Dirs -> Maybe(Contents)]
    BY <1>1, <1>4 DEF PlaceFails, PackTypeOK
  <2>2. Ends(p) /\ UNCHANGED <<registry, placed, intact, jobs, edits>> /\ mishaps' = mishaps + 1
    BY <1>4 DEF PlaceFails
  <2> QED BY <2>1, <2>2, EndsKeeps DEF PackTypeOK, registry
<1> QED
  BY <1>2, <1>3, <1>4

LEMMA PackRecordTypes ==
  ASSUME PackTypeOK, NEW p \in Installers, Record(p)
  PROVE  PackTypeOK'
<1>1. job[p].dir \in Dirs /\ job[p].pack \in Contents /\ job[p].name \in Names
      /\ job[p].asked \in Maybe(Dirs) /\ job[p].copies \in SUBSET Dirs
  BY DEF Record, Staged, PackStages, PackTypeOK, Jobs
<1>2. NewRow(job[p].pack, job[p].asked) \in RegistryRows
  BY <1>1, RowsOf
<1>3. own' \in [Dirs -> Maybe(RegistryRows)] /\ legacy' \in [Names -> Maybe(RegistryRows)]
  BY <1>1, <1>2, AddRowTypes DEF Record
<1>4. job' \in [Installers -> Jobs] /\ \A q \in Installers : Staged(job'[q])
  BY <1>1, GoesOnKeeps DEF Record
<1> QED
  BY <1>1, <1>3, <1>4 DEF Record, PackTypeOK, bounds

LEMMA CopyTypes ==
  ASSUME PackTypeOK, NEW p \in Installers, DropCopy(p) \/ DropCopyRow(p)
  PROVE  PackTypeOK'
<1>0. job[p] \in Jobs /\ Staged(job[p])
  BY DEF PackTypeOK
<1>1. job[p].copies \in SUBSET Dirs /\ job[p].dir \in Dirs /\ job[p].name \in Names
  BY <1>0 DEF DropCopy, DropCopyRow, Staged, PackStages, Jobs
<1>2. CASE DropCopy(p)
  <2>1. PICK c \in job[p].copies :
          IF dirs[c] = NoPack
          THEN GoesOn(p, job[p].copies \ {c}) /\ UNCHANGED <<dirs, intact>>
          ELSE /\ job' = [job EXCEPT ![p].at = "copyRow", ![p].copy = c]
               /\ dirs' = [dirs EXCEPT ![c] = NoPack]
               /\ intact' = intact \ {c}
    BY <1>2 DEF DropCopy
  <2>2. job' \in [Installers -> Jobs] /\ \A q \in Installers : Staged(job'[q])
    <3>1. CASE dirs[c] = NoPack
      BY <1>1, <1>2, <2>1, <3>1, GoesOnKeeps DEF DropCopy
    <3>2. CASE dirs[c] # NoPack
      <4> DEFINE j == [job[p] EXCEPT !.at = "copyRow", !.copy = c]
      <4>1. j \in Jobs /\ j.at = "copyRow" /\ j.dir = job[p].dir /\ j.name = job[p].name
            /\ j.copies = job[p].copies /\ j.copy = c
        BY <1>0, <1>1 DEF Jobs, PackStages, Maybe
      <4>2. Staged(j)
        BY <1>1, <4>1 DEF Staged
      <4>3. job' = [job EXCEPT ![p] = j]
        BY <1>0, <2>1, <3>2 DEF PackTypeOK, Jobs
      <4> HIDE DEF j
      <4> QED BY <4>1, <4>2, <4>3 DEF PackTypeOK
    <3> QED BY <3>1, <3>2
  <2>3. dirs' \in [Dirs -> Maybe(Contents)] /\ intact' \subseteq Dirs
    BY <1>1, <2>1 DEF PackTypeOK, Maybe
  <2> QED BY <1>2, <2>2, <2>3 DEF DropCopy, PackTypeOK, registry, bounds
<1>3. CASE DropCopyRow(p)
  <2>1. job[p].copy \in Dirs
    BY <1>0, <1>1, <1>3 DEF DropCopyRow, Staged
  <2>2. own' \in [Dirs -> Maybe(RegistryRows)] /\ legacy' \in [Names -> Maybe(RegistryRows)]
    BY <1>3, <2>1, RemoveRowTypes DEF DropCopyRow
  <2>3. job' \in [Installers -> Jobs] /\ \A q \in Installers : Staged(job'[q])
    BY <1>1, <1>3, GoesOnKeeps DEF DropCopyRow
  <2> QED BY <1>3, <2>2, <2>3 DEF DropCopyRow, PackTypeOK, bounds
<1> QED
  BY <1>2, <1>3

LEMMA SourceTypes ==
  ASSUME PackTypeOK, NEW p \in Installers, SetSource(p)
  PROVE  PackTypeOK'
<1>1. \A d \in Dirs : own[d] # NoPack => [own[d] EXCEPT !.asked = NoPack] \in RegistryRows
  BY DEF PackTypeOK, Maybe, RegistryRows
<1>2. job[p].dir \in Dirs
  BY DEF SetSource, PackTypeOK, Staged, PackStages
<1>3. own' \in [Dirs -> Maybe(RegistryRows)]
  BY <1>1, <1>2 DEF SetSource, PackTypeOK, Maybe
<1> QED
  BY <1>3, EndsKeeps DEF SetSource, PackTypeOK, bounds

LEMMA RemovalTypes ==
  ASSUME PackTypeOK, NEW p \in Installers, Unrow(p) \/ Remove(p)
  PROVE  PackTypeOK'
<1>0. job[p] \in Jobs /\ Staged(job[p]) /\ job[p].dir \in Dirs
  BY DEF Unrow, Remove, PackTypeOK, Staged, PackStages
<1>1. CASE Unrow(p)
  <2>1. own' \in [Dirs -> Maybe(RegistryRows)] /\ legacy' \in [Names -> Maybe(RegistryRows)]
    BY <1>0, <1>1, RemoveRowTypes DEF Unrow
  <2>2. /\ job' \in [Installers -> Jobs] /\ job'[p] = [job[p] EXCEPT !.at = "remove"]
        /\ \A q \in Installers \ {p} : job'[q] = job[q]
    BY <1>1, GoesKeeps DEF Unrow, PackStages
  <2>3. job'[p].at = "remove" /\ job'[p].dir = job[p].dir
    BY <1>0, <2>2 DEF Jobs
  <2>4. Staged(job'[p])
    BY <1>0, <2>3 DEF Staged
  <2>5. intact' \subseteq Dirs
    BY <1>1 DEF Unrow, PackTypeOK
  <2> QED BY <1>1, <2>1, <2>2, <2>4, <2>5 DEF Unrow, PackTypeOK, bounds
<1>2. CASE Remove(p)
  <2>1. dirs' \in [Dirs -> Maybe(Contents)]
    BY <1>2 DEF Remove, PackTypeOK, Maybe
  <2> QED BY <1>2, <2>1, EndsKeeps DEF Remove, PackTypeOK, registry, bounds
<1> QED
  BY <1>1, <1>2

\* What the writing of a plan makes of the rows of directories.
LEMMA MigrationWrites ==
  ASSUME PackTypeOK, NEW p \in Installers, WriteMigration(p), NEW d \in Dirs
  PROVE  \/ own'[d] = own[d]
         \/ \E s \in job[p].plan : /\ s.dir = d /\ Unmoved(own[d], s)
                                   /\ own'[d] = Rebased(own[d], s)
<1> DEFINE For == {s \in job[p].plan : s.dir = d /\ Unmoved(own[d], s)}
<1>1. own'[d] = IF For = {} THEN own[d] ELSE Rebased(own[d], CHOOSE s \in For : TRUE)
  BY DEF WriteMigration
<1>2. For # {} => (CHOOSE s \in For : TRUE) \in For
  OBVIOUS
<1> QED
  BY <1>1, <1>2

LEMMA PackMigrationTypes ==
  ASSUME PackTypeOK, NEW p \in Installers, WriteMigration(p)
  PROVE  PackTypeOK'
<1>0. job[p].plan \subseteq [dir : Dirs, to : Hashes, carried : BOOLEAN]
  BY DEF PackTypeOK, Jobs, Plans
<1>1. own' = [d \in Dirs |-> own'[d]] /\ legacy' = [n \in Names |-> legacy'[n]]
  BY DEF WriteMigration
<1>2. ASSUME NEW d \in Dirs PROVE own'[d] \in Maybe(RegistryRows)
  <2>1. CASE own'[d] = own[d]
    BY <2>1 DEF PackTypeOK
  <2>2. ASSUME NEW s \in job[p].plan, Unmoved(own[d], s), own'[d] = Rebased(own[d], s)
        PROVE  own'[d] \in RegistryRows
    <3>1. own[d] \in RegistryRows
      BY <2>2 DEF Unmoved, PackTypeOK, Maybe
    <3>2. s \in [dir : Dirs, to : Hashes, carried : BOOLEAN]
      BY <1>0
    <3>3. Rebased(own[d], s) \in RegistryRows
      BY <3>1, <3>2, RebasedIsRow
    <3> QED BY <2>2, <3>3
  <2> QED BY <2>1, <2>2, MigrationWrites DEF Maybe
<1>3. ASSUME NEW n \in Names PROVE legacy'[n] \in Maybe(RegistryRows)
  <2> DEFINE For == {s \in job[p].plan :
                       own[s.dir] = NoPack /\ s.to.name = n /\ Unmoved(legacy[n], s)}
  <2>1. legacy'[n] = IF For = {} THEN legacy[n] ELSE Rebased(legacy[n], CHOOSE s \in For : TRUE)
    BY DEF WriteMigration
  <2>2. CASE For = {}
    BY <2>1, <2>2 DEF PackTypeOK
  <2>3. CASE For # {}
    <3>1. PICK s \in For : legacy'[n] = Rebased(legacy[n], s)
      BY <2>1, <2>3
    <3>2. legacy[n] \in RegistryRows /\ s \in [dir : Dirs, to : Hashes, carried : BOOLEAN]
      BY <1>0, <3>1 DEF Unmoved, PackTypeOK, Maybe
    <3>3. Rebased(legacy[n], s) \in RegistryRows
      BY <3>2, RebasedIsRow
    <3> QED BY <3>1, <3>3 DEF Maybe
  <2> QED BY <2>2, <2>3
<1>4. own' \in [Dirs -> Maybe(RegistryRows)] /\ legacy' \in [Names -> Maybe(RegistryRows)]
  BY <1>1, <1>2, <1>3
<1>5. Ends(p) /\ UNCHANGED <<dirs, placed, intact, bounds>>
  BY DEF WriteMigration
<1> QED
  BY <1>4, <1>5, EndsKeeps DEF PackTypeOK, bounds

LEMMA PackWorldTypes ==
  ASSUME PackTypeOK, (\E d \in Dirs : EditPack(d)) \/ (\E p \in Installers : PackDies(p))
  PROVE  PackTypeOK'
<1>1. ASSUME NEW d \in Dirs, EditPack(d) PROVE PackTypeOK'
  <2>1. dirs[d] \in Contents
    BY <1>1 DEF EditPack, PackTypeOK, Maybe
  <2>2. \/ \E v \in Vers : dirs' = [dirs EXCEPT ![d].ver = v]
        \/ dirs' = [dirs EXCEPT ![d].moved = TRUE]
        \/ dirs' = [dirs EXCEPT ![d].readable = FALSE]
    BY <1>1 DEF EditPack
  <2>3. /\ \A v \in Vers : [dirs[d] EXCEPT !.ver = v] \in Contents
        /\ [dirs[d] EXCEPT !.moved = TRUE] \in Contents
        /\ [dirs[d] EXCEPT !.readable = FALSE] \in Contents
    BY <2>1 DEF Contents
  <2>4. dirs' \in [Dirs -> Maybe(Contents)]
    BY <2>2, <2>3 DEF PackTypeOK, Maybe
  <2> QED BY <1>1, <2>4 DEF EditPack, PackTypeOK, registry
<1>2. ASSUME NEW p \in Installers, PackDies(p) PROVE PackTypeOK'
  <2>1. intact' \subseteq Dirs /\ mishaps' \in Nat
    BY <1>2 DEF PackDies, PackTypeOK
  <2>2. Ends(p) /\ UNCHANGED <<dirs, registry, placed, jobs, edits>>
    BY <1>2 DEF PackDies
  <2> QED BY <2>1, <2>2, EndsKeeps DEF PackTypeOK, registry
<1> QED
  BY <1>1, <1>2

LEMMA StutterKeeps == PackInv /\ UNCHANGED packVars => PackInv'
<1> SUFFICES ASSUME PackInv, UNCHANGED packVars PROVE PackInv'
  OBVIOUS
<1>1. PackTypeOK'
  BY DEF PackInv, packVars, PackTypeOK
<1>2. Apart' /\ Swapped' /\ CopyGone'
  BY DEF PackInv, packVars, Apart, Touched, Swapped, CopyGone
<1>3. Based'
  BY DEF PackInv, packVars, Based, Recording, RowOk
<1>4. Planned'
  BY DEF PackInv, packVars, Planned, PlanHolds, Recording
<1> QED
  BY <1>1, <1>2, <1>3, <1>4 DEF PackInv

LEMMA TypesStep == PackTypeOK /\ PackNext => PackTypeOK'
  BY PackStartTypes, SwapTypes, PackRecordTypes, CopyTypes, SourceTypes, RemovalTypes, PackMigrationTypes,
     PackWorldTypes DEF PackNext

\* Every row, directory and job keeps its form, whatever overlaps.
THEOREM PackTypeCorrect == PackSpec => []PackTypeOK
<1>1. PackInit => PackTypeOK
  BY PackStarts DEF PackInv
<1>2. PackTypeOK /\ [PackNext]_packVars => PackTypeOK'
  <2>1. PackTypeOK /\ UNCHANGED packVars => PackTypeOK'
    BY DEF packVars, PackTypeOK
  <2> QED BY <2>1, TypesStep
<1> QED
  BY <1>1, <1>2, PTL DEF PackSpec

----------------------------------------------------------------------------
(* Who is at work where                                                    *)

OthersStand(p) == \A q \in Installers \ {p} : job'[q] = job[q]

\* A job that is under way goes into no new directory.
LEMMA GoesNowhereNew ==
  ASSUME PackTypeOK, NEW p \in Installers,
         \/ MoveAside(p) \/ Place(p) \/ PlaceFails(p) \/ Record(p) \/ DropCopy(p) \/ DropCopyRow(p)
         \/ SetSource(p) \/ Unrow(p) \/ Remove(p) \/ PlanMigration(p) \/ WriteMigration(p)
         \/ PackDies(p)
  PROVE  OthersStand(p) /\ Touched(p)' \subseteq Touched(p)
<1>0. job[p] \in Jobs /\ Staged(job[p]) /\ NoJob.at = "idle"
  BY DEF PackTypeOK, NoJob
<1>1. ASSUME Ends(p) PROVE OthersStand(p) /\ Touched(p)' \subseteq Touched(p)
  BY <1>0, <1>1, EndsKeeps DEF OthersStand, Touched
<1>2. CASE MoveAside(p)
  BY <1>0, <1>2 DEF MoveAside, PackTypeOK, Jobs, OthersStand, Touched
<1>3. CASE Place(p)
  <2>1. CASE dirs[job[p].dir] = NoPack
    BY <1>0, <1>3, <2>1 DEF Place, PackTypeOK, Jobs, OthersStand, Touched
  <2> QED BY <1>1, <1>3, <2>1 DEF Place
<1>4. CASE Record(p)
  BY <1>0, <1>4, GoesOnKeeps DEF Record, OthersStand, Touched, Jobs
<1>5. CASE DropCopy(p)
  <2>1. PICK c \in job[p].copies :
          \/ GoesOn(p, job[p].copies \ {c})
          \/ job' = [job EXCEPT ![p].at = "copyRow", ![p].copy = c]
    BY <1>5 DEF DropCopy
  <2>2. CASE GoesOn(p, job[p].copies \ {c})
    <3>1. (job[p].copies \ {c}) \in SUBSET Dirs /\ job[p].at = "copies"
      BY <1>0, <1>5 DEF DropCopy, Jobs
    <3> QED BY <2>2, <3>1, GoesOnKeeps DEF OthersStand, Touched
  <2>3. CASE job' = [job EXCEPT ![p].at = "copyRow", ![p].copy = c]
    BY <1>0, <1>5, <2>3 DEF DropCopy, PackTypeOK, Jobs, OthersStand, Touched
  <2> QED BY <2>1, <2>2, <2>3
<1>6. CASE DropCopyRow(p)
  <2>1. (job[p].copies \ {job[p].copy}) \in SUBSET Dirs /\ job[p].at = "copyRow"
    BY <1>0, <1>6 DEF DropCopyRow, Jobs
  <2>2. GoesOn(p, job[p].copies \ {job[p].copy})
    BY <1>6 DEF DropCopyRow
  <2> QED BY <2>1, <2>2, GoesOnKeeps DEF OthersStand, Touched
<1>7. CASE Unrow(p)
  <2>1. job'[p] = [job[p] EXCEPT !.at = "remove"] /\ OthersStand(p) /\ job[p].at = "unrow"
    BY <1>7, GoesKeeps DEF Unrow, PackStages, OthersStand
  <2> QED BY <1>0, <2>1 DEF Touched, Jobs
<1>8. CASE PlanMigration(p)
  <2>1. PICK plan : job' = [job EXCEPT ![p] = [NoJob EXCEPT !.at = "write", !.plan = plan]]
    BY <1>8, Zenon DEF PlanMigration
  <2>2. job'[p].at = "write" /\ OthersStand(p)
    BY <2>1 DEF PackTypeOK, OthersStand, NoJob
  <2> QED BY <2>2 DEF Touched
<1>9. CASE PlaceFails(p) \/ SetSource(p) \/ Remove(p) \/ WriteMigration(p) \/ PackDies(p)
  BY <1>1, <1>9 DEF PlaceFails, SetSource, Remove, WriteMigration, PackDies
<1> QED
  BY <1>2, <1>3, <1>4, <1>5, <1>6, <1>7, <1>8, <1>9

\* A job that starts goes where nobody is at work.
LEMMA StartsApart ==
  ASSUME PackTypeOK, ~Overlap, NEW p \in Installers, StartInstall(p) \/ StartUninstall(p)
  PROVE  /\ OthersStand(p)
         /\ \A q \in Installers : Touched(p)' \intersect Touched(q) = {}
<1>1. CASE StartInstall(p)
  <2>1. PICK f \in Dirs, n \in Names, v \in Vers : \E d \in Picked(f, n) :
          /\ May(p, {d} \union StaleCopies(d, n))
          /\ job' = [job EXCEPT ![p] = [NoJob EXCEPT !.at = "swap", !.dir = d, !.name = n,
                    !.pack = Content(n, v), !.asked = f, !.copies = StaleCopies(d, n)]]
    BY <1>1 DEF StartInstall
  <2>2. PICK d \in Picked(f, n) :
          /\ May(p, {d} \union StaleCopies(d, n))
          /\ job' = [job EXCEPT ![p] = [NoJob EXCEPT !.at = "swap", !.dir = d, !.name = n,
                    !.pack = Content(n, v), !.asked = f, !.copies = StaleCopies(d, n)]]
    BY <2>1
  <2>3. job'[p].at = "swap" /\ job'[p].dir = d /\ job'[p].copies = StaleCopies(d, n)
        /\ OthersStand(p)
    BY <2>2 DEF PackTypeOK, NoJob, OthersStand
  <2>4. Touched(p)' = {d} \union StaleCopies(d, n)
    BY <2>3 DEF Touched
  <2> QED BY <2>2, <2>3, <2>4 DEF May, Quiet
<1>2. CASE StartUninstall(p)
  <2>1. PICK d \in Dirs :
          /\ May(p, {d})
          /\ job' = [job EXCEPT ![p] = [NoJob EXCEPT !.at = "unrow", !.dir = d, !.name = NameAt(d)]]
    BY <1>2 DEF StartUninstall
  <2>2. job'[p].at = "unrow" /\ job'[p].dir = d /\ job'[p].copies = {} /\ OthersStand(p)
    BY <2>1 DEF PackTypeOK, NoJob, OthersStand
  <2>3. Touched(p)' = {d}
    BY <2>2 DEF Touched
  <2> QED BY <2>1, <2>2, <2>3 DEF May, Quiet
<1> QED
  BY <1>1, <1>2

LEMMA ApartStep == PackTypeOK /\ Apart /\ ~Overlap /\ PackNext => Apart'
<1> SUFFICES ASSUME PackTypeOK, Apart, ~Overlap, PackNext PROVE Apart'
  OBVIOUS
<1>1. ASSUME NEW p \in Installers, OthersStand(p),
             \/ Touched(p)' \subseteq Touched(p)
             \/ \A q \in Installers : Touched(p)' \intersect Touched(q) = {}
      PROVE  Apart'
  <2>1. \A q \in Installers \ {p} : Touched(q)' = Touched(q)
    BY <1>1 DEF OthersStand, Touched
  <2>2. \A q \in Installers \ {p} : Touched(p)' \intersect Touched(q) = {}
    BY <1>1 DEF Apart
  <2> QED BY <2>1, <2>2 DEF Apart
<1>2. ASSUME UNCHANGED job PROVE Apart'
  BY <1>2 DEF Apart, Touched
<1> QED
  BY <1>1, <1>2, GoesNowhereNew, StartsApart DEF PackNext, EditPack

----------------------------------------------------------------------------
(* The steps before and after the swap and its row                         *)

Aside(p) == \/ StartInstall(p) \/ MoveAside(p) \/ PlaceFails(p) \/ DropCopy(p) \/ DropCopyRow(p)
            \/ SetSource(p) \/ StartUninstall(p) \/ Unrow(p) \/ Remove(p)

\* They neither begin nor end a recording, plan nothing, and complete no install.
LEMMA AsideKeeps ==
  ASSUME PackTypeOK, NEW p \in Installers, Aside(p) \/ WriteMigration(p)
  PROVE  /\ job[p].at # "record" /\ job'[p].at # "record" /\ OthersStand(p)
         /\ job'[p].plan \subseteq job[p].plan
         /\ UNCHANGED placed /\ intact' \subseteq intact
<1>0. job[p] \in Jobs /\ Staged(job[p]) /\ NoJob.at = "idle" /\ NoJob.plan = {}
  BY DEF PackTypeOK, NoJob
<1>1. ASSUME Ends(p) PROVE OthersStand(p) /\ job'[p].at # "record" /\ job'[p].plan = {}
  BY <1>0, <1>1, EndsKeeps DEF OthersStand
<1>2. CASE StartInstall(p) \/ StartUninstall(p)
  <2>1. PICK j : job' = [job EXCEPT ![p] = j] /\ j.at # "record" /\ j.plan = {}
    <3>1. CASE StartInstall(p)
      <4>1. PICK f \in Dirs, n \in Names, v \in Vers : \E d \in Picked(f, n) :
              job' = [job EXCEPT ![p] = [NoJob EXCEPT !.at = "swap", !.dir = d, !.name = n,
                        !.pack = Content(n, v), !.asked = f, !.copies = StaleCopies(d, n)]]
        BY <3>1 DEF StartInstall
      <4>2. PICK d \in Picked(f, n) :
              job' = [job EXCEPT ![p] = [NoJob EXCEPT !.at = "swap", !.dir = d, !.name = n,
                        !.pack = Content(n, v), !.asked = f, !.copies = StaleCopies(d, n)]]
        BY <4>1
      <4> DEFINE j == [NoJob EXCEPT !.at = "swap", !.dir = d, !.name = n,
                        !.pack = Content(n, v), !.asked = f, !.copies = StaleCopies(d, n)]
      <4>3. j.at = "swap" /\ j.plan = {}
        BY DEF NoJob
      <4> HIDE DEF j
      <4> QED BY <4>2, <4>3 DEF j
    <3>2. CASE StartUninstall(p)
      <4>1. PICK d \in Dirs :
              job' = [job EXCEPT ![p] = [NoJob EXCEPT !.at = "unrow", !.dir = d, !.name = NameAt(d)]]
        BY <3>2 DEF StartUninstall
      <4> DEFINE j == [NoJob EXCEPT !.at = "unrow", !.dir = d, !.name = NameAt(d)]
      <4>2. j.at = "unrow" /\ j.plan = {}
        BY DEF NoJob
      <4> HIDE DEF j
      <4> QED BY <4>1, <4>2 DEF j
    <3> QED BY <1>2, <3>1, <3>2
  <2>2. job[p].at = "idle" /\ UNCHANGED <<placed, intact>>
    BY <1>2 DEF StartInstall, StartUninstall, May
  <2> QED BY <2>1, <2>2 DEF PackTypeOK, OthersStand
<1>3. CASE MoveAside(p)
  BY <1>0, <1>3 DEF MoveAside, PackTypeOK, Jobs, OthersStand
<1>4. CASE DropCopy(p)
  <2>1. PICK c \in job[p].copies :
          IF dirs[c] = NoPack
          THEN GoesOn(p, job[p].copies \ {c}) /\ UNCHANGED intact
          ELSE job' = [job EXCEPT ![p].at = "copyRow", ![p].copy = c] /\ intact' = intact \ {c}
    BY <1>4 DEF DropCopy
  <2>2. (job[p].copies \ {c}) \in SUBSET Dirs /\ job[p].at = "copies" /\ UNCHANGED placed
    BY <1>0, <1>4 DEF DropCopy, Jobs
  <2>3. CASE dirs[c] = NoPack
    BY <2>1, <2>2, <2>3, GoesOnKeeps DEF OthersStand
  <2>4. CASE dirs[c] # NoPack
    BY <1>0, <2>1, <2>2, <2>4 DEF PackTypeOK, Jobs, OthersStand
  <2> QED BY <2>3, <2>4
<1>5. CASE DropCopyRow(p)
  <2>1. (job[p].copies \ {job[p].copy}) \in SUBSET Dirs /\ job[p].at = "copyRow"
        /\ GoesOn(p, job[p].copies \ {job[p].copy}) /\ UNCHANGED <<placed, intact>>
    BY <1>0, <1>5 DEF DropCopyRow, Jobs
  <2> QED BY <2>1, GoesOnKeeps DEF OthersStand
<1>6. CASE Unrow(p)
  <2>1. job'[p] = [job[p] EXCEPT !.at = "remove"] /\ OthersStand(p) /\ job[p].at = "unrow"
        /\ UNCHANGED placed /\ intact' \subseteq intact
    BY <1>6, GoesKeeps DEF Unrow, PackStages, OthersStand
  <2> QED BY <1>0, <2>1 DEF Jobs
<1>7. CASE PlaceFails(p) \/ SetSource(p) \/ Remove(p) \/ WriteMigration(p)
  <2>1. Ends(p) /\ job[p].at # "record" /\ UNCHANGED <<placed, intact>>
    BY <1>7 DEF PlaceFails, SetSource, Remove, WriteMigration
  <2> QED BY <1>1, <2>1
<1> QED
  BY <1>2, <1>3, <1>4, <1>5, <1>6, <1>7 DEF Aside

\* They change nothing in the row of a directory whose install stands but its source.
LEMMA AsideKeepsRows ==
  ASSUME PackInv, NEW p \in Installers, Aside(p), NEW d \in intact'
  PROVE  /\ own'[d] = NoPack <=> own[d] = NoPack
         /\ own[d] # NoPack => /\ own'[d].hash = own[d].hash /\ own'[d].v2 = own[d].v2
                               /\ own'[d].carried = own[d].carried
<1>0. PackTypeOK /\ d \in intact /\ d \in Dirs /\ job[p] \in Jobs /\ Staged(job[p])
  BY AsideKeeps DEF PackInv, PackTypeOK
<1>1. CASE DropCopyRow(p)
  <2>1. job[p].copy \in Dirs /\ job[p].copy \notin intact
    BY <1>0, <1>1 DEF DropCopyRow, Staged, Jobs, PackInv, CopyGone
  <2>2. own'[d] = own[d]
    BY <1>0, <1>1, <2>1, RemoveRowTypes DEF DropCopyRow
  <2> QED BY <2>2
<1>2. CASE SetSource(p)
  <2>1. own[d] # NoPack => own[d] \in RegistryRows
    BY <1>0 DEF PackTypeOK, Maybe
  <2>2. \/ own'[d] = own[d]
        \/ own[d] # NoPack /\ own'[d] = [own[d] EXCEPT !.asked = NoPack]
    BY <1>0, <1>2 DEF SetSource, PackTypeOK
  <2>3. own[d] # NoPack => [own[d] EXCEPT !.asked = NoPack] \in RegistryRows
    BY <2>1 DEF RegistryRows, Maybe
  <2>4. own[d] # NoPack => [own[d] EXCEPT !.asked = NoPack] # NoPack
    BY <2>3, NotNone
  <2> QED BY <2>1, <2>2, <2>4 DEF RegistryRows
<1>3. CASE Unrow(p)
  <2>1. d # job[p].dir /\ job[p].dir \in Dirs
    BY <1>0, <1>3 DEF Unrow, Staged, PackStages
  <2>2. own'[d] = own[d]
    BY <1>0, <1>3, <2>1, RemoveRowTypes DEF Unrow
  <2> QED BY <2>2
<1>4. CASE UNCHANGED registry
  BY <1>4 DEF registry
<1> QED
  BY <1>1, <1>2, <1>3, <1>4 DEF Aside, StartInstall, MoveAside, PlaceFails, DropCopy,
     StartUninstall, Remove

\* While nothing is recorded anew, Recording stays as it was.
LEMMA RecordingStands ==
  ASSUME NEW p \in Installers, OthersStand(p), job[p].at # "record", job'[p].at # "record", NEW d
  PROVE  Recording(d)' <=> Recording(d)
  BY DEF Recording, OthersStand

LEMMA AsideStep == PackInv /\ (\E p \in Installers : Aside(p)) => Based' /\ Swapped' /\ Planned'
<1> SUFFICES ASSUME PackInv, NEW p \in Installers, Aside(p) PROVE Based' /\ Swapped' /\ Planned'
  OBVIOUS
<1>1. /\ job[p].at # "record" /\ job'[p].at # "record" /\ OthersStand(p)
      /\ job'[p].plan \subseteq job[p].plan
      /\ UNCHANGED placed /\ intact' \subseteq intact
  BY AsideKeeps DEF PackInv
<1>2. \A d \in Dirs : Recording(d)' <=> Recording(d)
  BY <1>1, RecordingStands
<1>3. intact' \subseteq Dirs
  BY <1>1 DEF PackInv, PackTypeOK
<1>4. ASSUME NEW d \in intact', RowOk(d) PROVE RowOk(d)'
  BY <1>1, <1>4, AsideKeepsRows DEF RowOk, SameV1
<1>5. Based'
  BY <1>1, <1>2, <1>3, <1>4 DEF PackInv, Based
<1>6. Swapped'
  BY <1>1 DEF PackInv, Swapped, OthersStand
<1>7. ASSUME NEW q \in Installers, NEW s \in job'[q].plan PROVE PlanHolds(s)'
  <2>1. s \in job[q].plan
    BY <1>1 DEF OthersStand
  <2>2. PlanHolds(s)
    BY <2>1 DEF PackInv, Planned
  <2>3. CASE s.dir \notin intact'
    BY <2>3 DEF PlanHolds
  <2>4. CASE s.dir \in intact'
    <3>1. /\ own'[s.dir] = NoPack <=> own[s.dir] = NoPack
          /\ own[s.dir] # NoPack => own'[s.dir].v2 = own[s.dir].v2
      BY <2>4, AsideKeepsRows
    <3>2. Recording(s.dir)' <=> Recording(s.dir)
      BY <1>2, <1>3, <2>4
    <3> QED BY <1>1, <2>2, <2>4, <3>1, <3>2 DEF PlanHolds
  <2> QED BY <2>3, <2>4
<1> QED
  BY <1>5, <1>6, <1>7 DEF Planned

\* A plan is only written over the row it was made from.
LEMMA PackMigrationStep ==
  PackInv /\ (\E p \in Installers : WriteMigration(p)) => Based' /\ Swapped' /\ Planned'
<1> SUFFICES ASSUME PackInv, NEW p \in Installers, WriteMigration(p)
             PROVE  Based' /\ Swapped' /\ Planned'
  OBVIOUS
<1>0. PackTypeOK /\ job[p].plan \subseteq [dir : Dirs, to : Hashes, carried : BOOLEAN]
  BY DEF PackInv, PackTypeOK, Jobs, Plans
<1>1. /\ job[p].at # "record" /\ job'[p].at # "record" /\ OthersStand(p)
      /\ job'[p].plan \subseteq job[p].plan /\ UNCHANGED <<placed, intact>>
  BY <1>0, AsideKeeps DEF WriteMigration
<1>2. \A d \in Dirs : Recording(d)' <=> Recording(d)
  BY <1>1, RecordingStands
<1>3. ASSUME NEW d \in Dirs
      PROVE  \/ own'[d] = own[d]
             \/ \E s \in job[p].plan :
                  /\ s.dir = d /\ own[d] # NoPack /\ ~own[d].v2 /\ SameV1(own[d].hash, s.to)
                  /\ own'[d] \in RegistryRows /\ own'[d].hash = s.to /\ own'[d].v2
                  /\ own'[d].carried = s.carried
  <2>1. ASSUME NEW s \in job[p].plan, s.dir = d, Unmoved(own[d], s), own'[d] = Rebased(own[d], s)
        PROVE  /\ own[d] # NoPack /\ ~own[d].v2 /\ SameV1(own[d].hash, s.to)
               /\ own'[d] \in RegistryRows /\ own'[d].hash = s.to /\ own'[d].v2
               /\ own'[d].carried = s.carried
    <3>1. own[d] \in RegistryRows /\ s \in [dir : Dirs, to : Hashes, carried : BOOLEAN]
      BY <1>0, <2>1 DEF Unmoved, PackTypeOK, Maybe
    <3>2. /\ Rebased(own[d], s) \in RegistryRows /\ Rebased(own[d], s).hash = s.to
          /\ Rebased(own[d], s).v2 = TRUE /\ Rebased(own[d], s).carried = s.carried
      BY <3>1, RebasedIsRow
    <3> QED BY <2>1, <3>2 DEF Unmoved
  <2> QED BY <1>0, <2>1, MigrationWrites
<1>4. ASSUME NEW d \in intact', ~Recording(d)' PROVE RowOk(d)'
  <2>1. d \in Dirs /\ d \in intact /\ ~Recording(d)
    BY <1>0, <1>1, <1>2, <1>4 DEF PackTypeOK
  <2>2. RowOk(d)
    BY <2>1 DEF PackInv, Based
  <2>3. CASE own'[d] = own[d]
    BY <1>1, <2>2, <2>3 DEF RowOk
  <2>4. ASSUME NEW s \in job[p].plan, s.dir = d, own[d] # NoPack, ~own[d].v2,
               SameV1(own[d].hash, s.to), own'[d] \in RegistryRows, own'[d].hash = s.to, own'[d].v2,
               own'[d].carried = s.carried
        PROVE  RowOk(d)'
    <3>1. SameV1(s.to, placed[d])
      BY <2>2, <2>4 DEF RowOk, SameV1
    <3>2. PlanHolds(s)
      BY DEF PackInv, Planned
    <3>3. ~s.carried => s.to = placed[d]
      BY <2>1, <2>4, <3>2 DEF PlanHolds
    <3>4. own'[d] # NoPack
      BY <2>4, NotNone
    <3> QED BY <1>1, <2>4, <3>1, <3>3, <3>4 DEF RowOk
  <2> QED BY <1>3, <2>1, <2>3, <2>4
<1>5. Swapped'
  BY <1>1 DEF PackInv, Swapped, OthersStand
<1>6. ASSUME NEW q \in Installers, NEW s \in job'[q].plan PROVE PlanHolds(s)'
  <2>1. PlanHolds(s)
    BY <1>1 DEF PackInv, Planned, OthersStand
  <2>2. CASE s.dir \in Dirs
    <3>1. own'[s.dir] = own[s.dir] \/ own'[s.dir].v2
      BY <1>3, <2>2
    <3>2. Recording(s.dir)' <=> Recording(s.dir)
      BY <1>2, <2>2
    <3> QED BY <1>1, <2>1, <3>1, <3>2 DEF PlanHolds
  <2>3. CASE s.dir \notin Dirs
    BY <1>0, <1>1, <2>3 DEF PlanHolds, PackTypeOK
  <2> QED BY <2>2, <2>3
<1> QED
  BY <1>4, <1>5, <1>6 DEF Based, Planned

\* What a plan says of a source that is there is what was installed.
LEMMA PlanStep == PackInv /\ (\E p \in Installers : PlanMigration(p)) => Based' /\ Swapped' /\ Planned'
<1> SUFFICES ASSUME PackInv, NEW p \in Installers, PlanMigration(p)
             PROVE  Based' /\ Swapped' /\ Planned'
  OBVIOUS
<1>1. PICK lost \in [Dirs -> BOOLEAN] :
        LET D == {d \in Dirs : dirs[d] # NoPack /\ Migrates(d, lost[d])}
        IN job' = [job EXCEPT ![p] = [NoJob EXCEPT !.at = "write",
             !.plan = {[dir |-> d, to |-> HashOf(dirs[d]), carried |-> lost[d]] : d \in D}]]
  BY Zenon DEF PlanMigration
<1> DEFINE D == {d \in Dirs : dirs[d] # NoPack /\ Migrates(d, lost[d])}
           plan == {[dir |-> d, to |-> HashOf(dirs[d]), carried |-> lost[d]] : d \in D}
<1>2. UNCHANGED <<dirs, own, placed, intact>> /\ job[p].at = "idle"
  BY DEF PlanMigration, registry
<1>3. job'[p].at = "write" /\ job'[p].plan = plan /\ OthersStand(p)
  <2> HIDE DEF plan
  <2>1. job' = [job EXCEPT ![p] = [NoJob EXCEPT !.at = "write", !.plan = plan]]
    BY <1>1 DEF plan
  <2> QED BY <2>1 DEF NoJob, PackInv, PackTypeOK, OthersStand
<1>4. \A d \in Dirs : Recording(d)' <=> Recording(d)
  BY <1>2, <1>3, RecordingStands
<1>5. Based'
  BY <1>2, <1>4 DEF PackInv, PackTypeOK, Based, RowOk
<1>6. Swapped'
  BY <1>2, <1>3 DEF PackInv, Swapped, OthersStand
<1>7. ASSUME NEW s \in plan PROVE PlanHolds(s)'
  BY <1>2 DEF PlanHolds, Migrates
<1>8. ASSUME NEW q \in Installers \ {p}, NEW s \in job'[q].plan PROVE PlanHolds(s)'
  <2>1. PlanHolds(s)
    BY <1>3 DEF PackInv, Planned, OthersStand
  <2>2. s.dir \in intact => (Recording(s.dir)' <=> Recording(s.dir))
    BY <1>4 DEF PackInv, PackTypeOK
  <2> QED BY <1>2, <2>1, <2>2 DEF PlanHolds
<1> QED
  BY <1>3, <1>5, <1>6, <1>7, <1>8 DEF Planned

\* The swap takes the directory out of the invariant, the row brings it back.
LEMMA PlaceStep == PackInv /\ ~Overlap /\ (\E p \in Installers : Place(p))
                     => Based' /\ Swapped' /\ Planned'
<1> SUFFICES ASSUME PackInv, ~Overlap, NEW p \in Installers, Place(p)
             PROVE  Based' /\ Swapped' /\ Planned'
  OBVIOUS
<1>0. PackTypeOK /\ job[p] \in Jobs /\ Staged(job[p]) /\ job[p].at = "place"
      /\ job[p].dir \in Dirs /\ UNCHANGED <<own, intact>>
  BY DEF PackInv, PackTypeOK, Place, Staged, PackStages, registry
<1>1. CASE dirs[job[p].dir] = NoPack
  <2>0. PICK d \in Dirs : d = job[p].dir
    BY <1>0
  <2>1. /\ job'[p].at = "record" /\ job'[p].dir = d /\ job'[p].pack = job[p].pack
        /\ job'[p].plan = job[p].plan /\ OthersStand(p)
        /\ placed' = [placed EXCEPT ![d] = HashOf(job[p].pack)]
    BY <1>0, <1>1, <2>0 DEF Place, PackTypeOK, Jobs, OthersStand
  <2>2. placed'[d] = HashOf(job[p].pack) /\ \A e \in Dirs \ {d} : placed'[e] = placed[e]
    BY <1>0, <2>1 DEF PackTypeOK
  <2>3. Recording(d)' /\ \A e \in Dirs : Recording(e) => Recording(e)'
    BY <1>0, <2>1 DEF Recording, OthersStand
  <2>4. Based'
    BY <1>0, <2>2, <2>3 DEF PackInv, PackTypeOK, Based, RowOk
  <2>5. ASSUME NEW q \in Installers \ {p}, job'[q].at = "record"
        PROVE  placed'[job'[q].dir] = HashOf(job'[q].pack)
    <3>1. job[q].at = "record" /\ job'[q] = job[q] /\ job[q].dir \in Dirs
      BY <1>0, <2>1, <2>5 DEF OthersStand, PackTypeOK, Staged, PackStages
    <3>2. Touched(p) \intersect Touched(q) = {}
      BY DEF PackInv, Apart
    <3>3. job[q].dir # d
      BY <1>0, <2>0, <3>1, <3>2 DEF Touched
    <3> QED BY <2>2, <3>1, <3>3 DEF PackInv, Swapped
  <2>6. Swapped'
    BY <2>1, <2>2, <2>5 DEF Swapped
  <2>7. ASSUME NEW q \in Installers, NEW s \in job'[q].plan PROVE PlanHolds(s)'
    <3>1. PlanHolds(s)
      BY <2>1, <2>7 DEF PackInv, Planned, OthersStand
    <3> QED BY <1>0, <2>2, <2>3, <3>1 DEF PlanHolds, PackTypeOK
  <2> QED BY <2>4, <2>6, <2>7 DEF Planned
<1>2. CASE dirs[job[p].dir] # NoPack
  <2>1. Ends(p) /\ UNCHANGED placed
    BY <1>2 DEF Place
  <2>2. job'[p].at # "record" /\ job'[p].plan = {} /\ OthersStand(p)
    BY <1>0, <2>1, EndsKeeps DEF NoJob, OthersStand
  <2>3. \A d \in Dirs : Recording(d)' <=> Recording(d)
    BY <1>0, <2>2, RecordingStands
  <2>4. Based'
    BY <1>0, <2>1, <2>3 DEF PackInv, PackTypeOK, Based, RowOk
  <2>5. Swapped'
    BY <2>1, <2>2 DEF PackInv, Swapped, OthersStand
  <2>6. ASSUME NEW q \in Installers, NEW s \in job'[q].plan PROVE PlanHolds(s)'
    <3>1. PlanHolds(s)
      BY <2>2, <2>6 DEF PackInv, Planned, OthersStand
    <3> QED BY <1>0, <2>1, <2>3, <3>1 DEF PlanHolds, PackTypeOK
  <2> QED BY <2>4, <2>5, <2>6 DEF Planned
<1> QED
  BY <1>1, <1>2

LEMMA RecordStep ==
  PackInv /\ (\E p \in Installers : Record(p)) => Based' /\ Swapped' /\ Planned'
<1> SUFFICES ASSUME PackInv, NEW p \in Installers, Record(p) PROVE Based' /\ Swapped' /\ Planned'
  OBVIOUS
<1> DEFINE row == NewRow(job[p].pack, job[p].asked)
<1>0. PackTypeOK /\ job[p] \in Jobs /\ Staged(job[p]) /\ job[p].at = "record"
      /\ job[p].dir \in Dirs
      /\ job[p].pack \in Contents /\ job[p].asked \in Maybe(Dirs) /\ job[p].copies \in SUBSET Dirs
  BY DEF PackInv, PackTypeOK, Record, Staged, PackStages, Jobs
<1>d. PICK d \in Dirs : d = job[p].dir
  BY <1>0
<1>1. row # NoPack /\ row.hash = HashOf(job[p].pack) /\ row.v2
  BY <1>0, RowsOf, NotNone DEF NewRow
<1>2. own' = [own EXCEPT ![d] = row] /\ intact' = intact \union {d} /\ UNCHANGED placed
      /\ GoesOn(p, job[p].copies)
  BY <1>d DEF Record, AddRow
<1>3. own'[d] = row /\ \A e \in Dirs \ {d} : own'[e] = own[e]
  BY <1>0, <1>2 DEF PackTypeOK
<1>4. job'[p].at # "record" /\ job'[p].plan = job[p].plan /\ OthersStand(p)
  BY <1>0, <1>2, GoesOnKeeps DEF OthersStand
<1>5. \A e \in Dirs \ {d} : Recording(e) => Recording(e)'
  BY <1>d, <1>4 DEF Recording, OthersStand
<1>6. placed[d] = HashOf(job[p].pack)
  BY <1>0, <1>d DEF PackInv, Swapped
<1>7. RowOk(d)'
  BY <1>1, <1>2, <1>3, <1>6 DEF RowOk, SameV1
<1>8. Based'
  BY <1>0, <1>2, <1>3, <1>5, <1>7 DEF PackInv, PackTypeOK, Based, RowOk
<1>9. Swapped'
  BY <1>2, <1>4 DEF PackInv, Swapped, OthersStand
<1>10. ASSUME NEW q \in Installers, NEW s \in job'[q].plan PROVE PlanHolds(s)'
  <2>1. PlanHolds(s)
    BY <1>4, <1>10 DEF PackInv, Planned, OthersStand
  <2>2. CASE s.dir = d
    BY <1>1, <1>3, <2>2 DEF PlanHolds
  <2>3. CASE s.dir # d
    BY <1>0, <1>2, <1>3, <1>5, <2>1, <2>3 DEF PlanHolds, PackTypeOK
  <2> QED BY <2>2, <2>3
<1> QED
  BY <1>8, <1>9, <1>10 DEF Planned

LEMMA PackWorldStep ==
  PackInv /\ ((\E p \in Installers : PackDies(p)) \/ (\E d \in Dirs : EditPack(d)))
    => Based' /\ Swapped' /\ Planned'
<1> SUFFICES ASSUME PackInv, (\E p \in Installers : PackDies(p)) \/ (\E d \in Dirs : EditPack(d))
             PROVE  Based' /\ Swapped' /\ Planned'
  OBVIOUS
<1>1. ASSUME NEW d \in Dirs, EditPack(d) PROVE Based' /\ Swapped' /\ Planned'
  BY <1>1 DEF EditPack, registry, PackInv, Based, RowOk, Recording, Swapped, Planned, PlanHolds
<1>2. ASSUME NEW p \in Installers, PackDies(p) PROVE Based' /\ Swapped' /\ Planned'
  <2>0. PackTypeOK /\ UNCHANGED <<own, placed>> /\ Ends(p) /\ intact' \subseteq intact
        /\ (job[p].at = "record" => job[p].dir \notin intact')
    BY <1>2 DEF PackInv, PackDies, registry
  <2>1. job'[p].at # "record" /\ job'[p].plan = {} /\ OthersStand(p)
    BY <2>0, EndsKeeps DEF NoJob, OthersStand
  <2>2. \A d \in intact' : Recording(d) => Recording(d)'
    BY <2>0, <2>1 DEF Recording, OthersStand
  <2>3. Based'
    BY <2>0, <2>2 DEF PackInv, Based, RowOk
  <2>4. Swapped'
    BY <2>0, <2>1 DEF PackInv, Swapped, OthersStand
  <2>5. ASSUME NEW q \in Installers, NEW s \in job'[q].plan PROVE PlanHolds(s)'
    <3>1. PlanHolds(s)
      BY <2>1, <2>5 DEF PackInv, Planned, OthersStand
    <3> QED BY <2>0, <2>2, <3>1 DEF PlanHolds
  <2> QED BY <2>3, <2>4, <2>5 DEF Planned
<1> QED
  BY <1>1, <1>2

\* Nobody completes an install where a stale copy has just been moved aside.
LEMMA CopyGoneStep == PackInv /\ ~Overlap /\ PackNext => CopyGone'
<1> SUFFICES ASSUME PackInv, ~Overlap, PackNext, NEW q \in Installers, job'[q].at = "copyRow"
             PROVE  job'[q].copy \notin intact'
  BY DEF CopyGone
<1>0. PackTypeOK /\ Apart /\ (job[q].at = "copyRow" => job[q].copy \notin intact)
  BY DEF PackInv, CopyGone
<1>1. ASSUME NEW p \in Installers, OthersStand(p), job'[p].at # "copyRow", intact' \subseteq intact
      PROVE  job'[q].copy \notin intact'
  BY <1>0, <1>1 DEF OthersStand
<1>2. ASSUME NEW p \in Installers, Ends(p), intact' \subseteq intact
      PROVE  job'[q].copy \notin intact'
  BY <1>0, <1>1, <1>2, EndsKeeps DEF NoJob, OthersStand
<1>3. ASSUME NEW p \in Installers, DropCopy(p) PROVE job'[q].copy \notin intact'
  <2>1. PICK c \in job[p].copies :
          IF dirs[c] = NoPack
          THEN GoesOn(p, job[p].copies \ {c}) /\ UNCHANGED intact
          ELSE job' = [job EXCEPT ![p].at = "copyRow", ![p].copy = c] /\ intact' = intact \ {c}
    BY <1>3 DEF DropCopy
  <2>2. job[p].at = "copies" /\ (job[p].copies \ {c}) \in SUBSET Dirs /\ job[p] \in Jobs
    BY <1>0, <1>3 DEF DropCopy, PackTypeOK, Jobs
  <2>3. CASE dirs[c] = NoPack
    BY <1>0, <1>1, <2>1, <2>2, <2>3, GoesOnKeeps DEF OthersStand
  <2>4. CASE dirs[c] # NoPack
    <3>1. job'[p].copy = c /\ \A r \in Installers \ {p} : job'[r] = job[r]
      BY <1>0, <2>1, <2>2, <2>4 DEF PackTypeOK, Jobs
    <3> QED BY <1>0, <2>1, <2>4, <3>1
  <2> QED BY <2>3, <2>4
<1>4. ASSUME NEW p \in Installers, DropCopyRow(p) PROVE job'[q].copy \notin intact'
  <2>1. job[p].at = "copyRow" /\ (job[p].copies \ {job[p].copy}) \in SUBSET Dirs
        /\ GoesOn(p, job[p].copies \ {job[p].copy}) /\ UNCHANGED intact
    BY <1>0, <1>4 DEF DropCopyRow, PackTypeOK, Jobs
  <2> QED BY <1>0, <1>1, <2>1, GoesOnKeeps DEF OthersStand
<1>5. ASSUME NEW p \in Installers, Record(p) PROVE job'[q].copy \notin intact'
  <2>1. /\ job[p].at = "record" /\ job[p].copies \in SUBSET Dirs /\ GoesOn(p, job[p].copies)
        /\ intact' = intact \union {job[p].dir}
    BY <1>0, <1>5 DEF Record, PackTypeOK, Jobs
  <2>2. job'[p].at # "copyRow" /\ OthersStand(p)
    BY <1>0, <2>1, GoesOnKeeps DEF OthersStand
  <2>3. p # q /\ job'[q] = job[q]
    BY <2>2 DEF OthersStand
  <2>4. Touched(p) \intersect Touched(q) = {} /\ Staged(job[q])
    BY <1>0, <2>3 DEF Apart, PackTypeOK
  <2>5. job[q].copy \in Touched(q) /\ job[p].dir \in Touched(p)
    BY <2>1, <2>3, <2>4 DEF Touched, Staged
  <2> QED BY <1>0, <2>1, <2>3, <2>4, <2>5
<1>6. ASSUME NEW p \in Installers, Place(p) PROVE job'[q].copy \notin intact'
  <2>1. UNCHANGED intact /\ job[p].at = "place" /\ job[p] \in Jobs
    BY <1>0, <1>6 DEF Place, PackTypeOK
  <2>2. CASE dirs[job[p].dir] = NoPack
    <3>1. job'[p].at = "record" /\ OthersStand(p)
      BY <1>0, <1>6, <2>1, <2>2 DEF Place, PackTypeOK, Jobs, OthersStand
    <3> QED BY <1>1, <2>1, <3>1
  <2> QED BY <1>2, <1>6, <2>1, <2>2 DEF Place
<1>7. ASSUME NEW p \in Installers, MoveAside(p) \/ Unrow(p) PROVE job'[q].copy \notin intact'
  <2>1. OthersStand(p) /\ intact' \subseteq intact
    BY <1>0, <1>7, AsideKeeps DEF Aside
  <2>2. job'[p].at # "copyRow"
    <3>1. CASE MoveAside(p)
      BY <1>0, <3>1 DEF MoveAside, PackTypeOK, Jobs
    <3>2. CASE Unrow(p)
      <4>1. job'[p] = [job[p] EXCEPT !.at = "remove"] /\ job[p] \in Jobs
        BY <1>0, <3>2, GoesKeeps DEF Unrow, PackStages, PackTypeOK
      <4> QED BY <4>1 DEF Jobs
    <3> QED BY <1>7, <3>1, <3>2
  <2> QED BY <1>1, <2>1, <2>2
<1>8. ASSUME NEW p \in Installers, StartInstall(p) \/ StartUninstall(p) \/ PlanMigration(p)
      PROVE  job'[q].copy \notin intact'
  <2>1. OthersStand(p)
    BY <1>0, <1>8, GoesNowhereNew, StartsApart
  <2>2. \E at \in {"swap", "unrow", "write"} : job'[p].at = at
    <3>1. CASE StartInstall(p)
      <4>1. PICK f \in Dirs, n \in Names, v \in Vers : \E d \in Picked(f, n) :
              job' = [job EXCEPT ![p] = [NoJob EXCEPT !.at = "swap", !.dir = d, !.name = n,
                        !.pack = Content(n, v), !.asked = f, !.copies = StaleCopies(d, n)]]
        BY <3>1 DEF StartInstall
      <4> QED BY <1>0, <4>1 DEF PackTypeOK, NoJob
    <3>2. CASE StartUninstall(p)
      <4>1. PICK d \in Dirs :
              job' = [job EXCEPT ![p] = [NoJob EXCEPT !.at = "unrow", !.dir = d, !.name = NameAt(d)]]
        BY <3>2 DEF StartUninstall
      <4> QED BY <1>0, <4>1 DEF PackTypeOK, NoJob
    <3>3. CASE PlanMigration(p)
      <4>1. PICK plan : job' = [job EXCEPT ![p] = [NoJob EXCEPT !.at = "write", !.plan = plan]]
        BY <3>3, Zenon DEF PlanMigration
      <4> QED BY <1>0, <4>1 DEF PackTypeOK, NoJob
    <3> QED BY <1>8, <3>1, <3>2, <3>3
  <2>3. UNCHANGED intact
    BY <1>8, Zenon DEF StartInstall, StartUninstall, PlanMigration
  <2> QED BY <1>1, <2>1, <2>2, <2>3
<1>9. ASSUME NEW p \in Installers,
             PlaceFails(p) \/ SetSource(p) \/ Remove(p) \/ WriteMigration(p) \/ PackDies(p)
      PROVE  job'[q].copy \notin intact'
  BY <1>2, <1>9 DEF PlaceFails, SetSource, Remove, WriteMigration, PackDies
<1>10. ASSUME NEW d \in Dirs, EditPack(d) PROVE job'[q].copy \notin intact'
  BY <1>0, <1>10 DEF EditPack
<1> QED
  BY <1>3, <1>4, <1>5, <1>6, <1>7, <1>8, <1>9, <1>10 DEF PackNext

----------------------------------------------------------------------------
(* Theorems *)

LEMMA PackInvStep == PackInv /\ ~Overlap /\ PackNext => PackInv'
<1> SUFFICES ASSUME PackInv, ~Overlap, PackNext PROVE PackInv'
  OBVIOUS
<1>1. PackTypeOK' /\ Apart' /\ CopyGone'
  BY TypesStep, ApartStep, CopyGoneStep DEF PackInv
<1>2. Based' /\ Swapped' /\ Planned'
  BY AsideStep, PackMigrationStep, PlanStep, PlaceStep, RecordStep, PackWorldStep DEF PackNext, Aside
<1> QED
  BY <1>1, <1>2 DEF PackInv

\* The invariant is kept when no two installs or uninstalls are at work in one directory.
THEOREM PackInvariant == ASSUME ~Overlap PROVE PackSpec => []PackInv
<1>1. PackInv /\ [PackNext]_packVars => PackInv'
  BY PackInvStep, StutterKeeps
<1> QED
  BY <1>1, PackStarts, PTL DEF PackSpec

\* Whatever happened in other directories, to rows of the same name or in a migration
\* that was under way, the row of a completed install keeps the hash of what it put
\* there, when no two installs or uninstalls are at work in one directory.
THEOREM BaselinesStand == ASSUME ~Overlap PROVE PackSpec => []BaselineStands
<1>1. PackInv => BaselineStands
  <2>1. ASSUME NEW d \in intact, Quiet(d) PROVE ~Recording(d)
    BY <2>1 DEF Quiet, Recording, Touched
  <2> QED BY <2>1 DEF PackInv, Based, RowOk, BaselineStands
<1> QED
  BY <1>1, PackInvariant, PTL

----------------------------------------------------------------------------
(* Neighbours *)

Installing == {"swap", "place", "record", "copies", "copyRow", "source"}

\* Nothing of another name, that can be read, is in the directory.
NoOther(d, n) == dirs[d] # NoPack /\ dirs[d].readable => dirs[d].name = n
OnlyOwn(p) == job[p].at \in Installing =>
  /\ \A d \in Touched(p) : NoOther(d, job[p].name)
  /\ job[p].at \in {"swap", "place"} => job[p].pack.name = job[p].name
NeighbourInv == PackTypeOK /\ Apart /\ \A p \in Installers : OnlyOwn(p)

\* A job writes only to the directories it is at work in.
LEMMA WritesWhereAtWork ==
  ASSUME PackTypeOK, NEW p \in Installers,
         \/ StartInstall(p) \/ MoveAside(p) \/ Place(p) \/ PlaceFails(p) \/ Record(p)
         \/ DropCopy(p) \/ DropCopyRow(p) \/ SetSource(p) \/ StartUninstall(p) \/ Unrow(p)
         \/ Remove(p) \/ PlanMigration(p) \/ WriteMigration(p) \/ PackDies(p)
  PROVE  \A d \in Dirs \ Touched(p) : dirs'[d] = dirs[d]
<1>1. CASE MoveAside(p) \/ Place(p) \/ PlaceFails(p) \/ Remove(p)
  BY <1>1 DEF MoveAside, Place, PlaceFails, Remove, PackTypeOK, Touched
<1>2. CASE DropCopy(p)
  <2>1. PICK c \in job[p].copies : dirs' = dirs \/ dirs' = [dirs EXCEPT ![c] = NoPack]
    BY <1>2 DEF DropCopy
  <2>2. job[p].at = "copies"
    BY <1>2 DEF DropCopy
  <2> QED BY <2>1, <2>2 DEF PackTypeOK, Touched
<1>3. CASE UNCHANGED dirs
  BY <1>3
<1> QED
  BY <1>1, <1>2, <1>3, Zenon DEF StartInstall, Record, DropCopyRow, SetSource, StartUninstall,
     Unrow, PlanMigration, WriteMigration, PackDies

\* The directory an install is given, and the copies it is to clear, hold its own pack.
LEMMA StartsAmongOwn ==
  ASSUME PackTypeOK, NEW p \in Installers, StartInstall(p)
  PROVE  OnlyOwn(p)'
<1>1. PICK f \in Dirs, n \in Names, v \in Vers : \E d \in Picked(f, n) :
        job' = [job EXCEPT ![p] = [NoJob EXCEPT !.at = "swap", !.dir = d, !.name = n,
                  !.pack = Content(n, v), !.asked = f, !.copies = StaleCopies(d, n)]]
  BY DEF StartInstall
<1>2. PICK d \in Picked(f, n) :
        job' = [job EXCEPT ![p] = [NoJob EXCEPT !.at = "swap", !.dir = d, !.name = n,
                  !.pack = Content(n, v), !.asked = f, !.copies = StaleCopies(d, n)]]
  BY <1>1
<1>3. /\ job'[p].at = "swap" /\ job'[p].dir = d /\ job'[p].name = n
      /\ job'[p].pack = Content(n, v) /\ job'[p].copies = StaleCopies(d, n)
  BY <1>2 DEF PackTypeOK, NoJob
<1>4. UNCHANGED dirs
  BY DEF StartInstall
<1>5. NoOther(d, n)
  BY DEF Picked, Least, Holding, Open, Holds, Accepts, NoOther
<1>6. \A e \in StaleCopies(d, n) : NoOther(e, n)
  BY DEF StaleCopies, Holds, NoOther
<1>7. Touched(p)' = {d} \union StaleCopies(d, n)
  BY <1>3 DEF Touched
<1>8. \A e \in Touched(p)' : NoOther(e, n)'
  BY <1>4, <1>5, <1>6, <1>7 DEF NoOther
<1> QED
  BY <1>3, <1>8 DEF OnlyOwn, Content, NoOther

\* What goes on in an install keeps it so.
LEMMA InstallKeepsOwn ==
  ASSUME PackTypeOK, NEW p \in Installers, OnlyOwn(p),
         MoveAside(p) \/ Place(p) \/ Record(p) \/ DropCopy(p) \/ DropCopyRow(p)
  PROVE  OnlyOwn(p)'
<1>0. job[p] \in Jobs /\ Staged(job[p]) /\ Touched(p)' \subseteq Touched(p)
  BY GoesNowhereNew DEF PackTypeOK
<1>a. job[p].at \in Installing /\ \A d \in Touched(p) : NoOther(d, job[p].name)
  BY DEF MoveAside, Place, Record, DropCopy, DropCopyRow, Installing, OnlyOwn
<1>b. ASSUME job'[p].name = job[p].name, job'[p].at \notin {"swap", "place"},
             \A d \in Touched(p) : dirs'[d] \in {dirs[d], NoPack}
      PROVE  OnlyOwn(p)'
  BY <1>0, <1>a, <1>b DEF OnlyOwn, NoOther
<1>c. Touched(p) \subseteq Dirs
  BY <1>0 DEF Touched, Staged, Jobs
<1>1. CASE MoveAside(p)
  <2>1. /\ job'[p].at = "place" /\ job'[p].name = job[p].name /\ job'[p].pack = job[p].pack
        /\ job[p].at = "swap" /\ \A d \in Dirs : dirs'[d] \in {dirs[d], NoPack}
    BY <1>0, <1>1 DEF MoveAside, PackTypeOK, Jobs
  <2>2. job[p].pack.name = job[p].name
    BY <2>1 DEF OnlyOwn, Installing
  <2> QED BY <1>0, <1>a, <1>c, <2>1, <2>2 DEF OnlyOwn, NoOther
<1>2. CASE Place(p)
  <2>1. job[p].at = "place" /\ job[p].pack.name = job[p].name /\ job[p].dir \in Dirs
    BY <1>0, <1>2 DEF Place, OnlyOwn, Installing, Staged, PackStages
  <2>2. CASE dirs[job[p].dir] = NoPack
    <3>1. /\ job'[p].at = "record" /\ job'[p].name = job[p].name
          /\ \A d \in Dirs : dirs'[d] \in {dirs[d], job[p].pack}
      BY <1>0, <1>2, <2>2 DEF Place, PackTypeOK, Jobs
    <3>2. \A d \in Touched(p)' : NoOther(d, job[p].name)'
      BY <1>0, <1>a, <1>c, <2>1, <3>1 DEF NoOther
    <3> QED BY <3>1, <3>2 DEF OnlyOwn, NoOther
  <2>3. CASE dirs[job[p].dir] # NoPack
    <3>1. job'[p].at = "idle"
      BY <1>2, <2>3, EndsKeeps DEF Place, NoJob
    <3> QED BY <3>1 DEF OnlyOwn, Installing
  <2> QED BY <2>2, <2>3
<1>3. CASE Record(p)
  <2>1. /\ job[p].at = "record" /\ job[p].copies \in SUBSET Dirs
        /\ GoesOn(p, job[p].copies) /\ UNCHANGED dirs
    BY <1>0, <1>3 DEF Record, Jobs
  <2> QED BY <1>b, <2>1, GoesOnKeeps
<1>4. CASE DropCopyRow(p)
  <2>1. /\ job[p].at = "copyRow" /\ (job[p].copies \ {job[p].copy}) \in SUBSET Dirs
        /\ GoesOn(p, job[p].copies \ {job[p].copy}) /\ UNCHANGED dirs
    BY <1>0, <1>4 DEF DropCopyRow, Jobs
  <2> QED BY <1>b, <2>1, GoesOnKeeps
<1>5. CASE DropCopy(p)
  <2>1. PICK c \in job[p].copies :
          IF dirs[c] = NoPack
          THEN GoesOn(p, job[p].copies \ {c}) /\ UNCHANGED <<dirs, intact>>
          ELSE /\ job' = [job EXCEPT ![p].at = "copyRow", ![p].copy = c]
               /\ dirs' = [dirs EXCEPT ![c] = NoPack]
    BY <1>5 DEF DropCopy
  <2>2. job[p].at = "copies" /\ (job[p].copies \ {c}) \in SUBSET Dirs
    BY <1>0, <1>5 DEF DropCopy, Jobs
  <2>3. CASE dirs[c] = NoPack
    BY <1>b, <2>1, <2>2, <2>3, GoesOnKeeps
  <2>4. CASE dirs[c] # NoPack
    <3>1. job'[p].name = job[p].name /\ job'[p].at = "copyRow"
          /\ \A d \in Dirs : dirs'[d] \in {dirs[d], NoPack}
      BY <1>0, <2>1, <2>4 DEF PackTypeOK, Jobs
    <3> QED BY <1>b, <1>c, <3>1
  <2> QED BY <2>3, <2>4
<1> QED
  BY <1>1, <1>2, <1>3, <1>4, <1>5

LEMMA OthersKeepOwn ==
  ASSUME PackTypeOK, Apart, NEW p \in Installers, NEW q \in Installers \ {p}, OnlyOwn(q),
         OthersStand(p), \A d \in Dirs \ Touched(p) : dirs'[d] = dirs[d]
  PROVE  OnlyOwn(q)'
<1>1. job'[q] = job[q] /\ Touched(q)' = Touched(q)
  BY DEF OthersStand, Touched
<1>2. job[q].at \in Installing => Touched(q) \subseteq Dirs \ Touched(p)
  <2>1. job[q].at \in Installing => Touched(q) \subseteq Dirs
    BY DEF Touched, Installing, PackTypeOK, Staged, PackStages, Jobs
  <2> QED BY <2>1 DEF Apart
<1> QED
  BY <1>1, <1>2 DEF OnlyOwn, NoOther

LEMMA NeighbourStep == NeighbourInv /\ ~Overlap /\ PackNext => NeighbourInv'
<1> SUFFICES ASSUME NeighbourInv, ~Overlap, PackNext PROVE NeighbourInv'
  OBVIOUS
<1>0. PackTypeOK /\ Apart /\ PackTypeOK' /\ Apart' /\ \A p \in Installers : OnlyOwn(p)
  BY TypesStep, ApartStep DEF NeighbourInv
<1>1. ASSUME NEW p \in Installers,
             \/ StartInstall(p) \/ MoveAside(p) \/ Place(p) \/ PlaceFails(p) \/ Record(p)
             \/ DropCopy(p) \/ DropCopyRow(p) \/ SetSource(p) \/ StartUninstall(p) \/ Unrow(p)
             \/ Remove(p) \/ PlanMigration(p) \/ WriteMigration(p) \/ PackDies(p)
      PROVE  \A q \in Installers : OnlyOwn(q)'
  <2>1. OthersStand(p)
    BY <1>0, <1>1, GoesNowhereNew, StartsApart
  <2>2. \A q \in Installers \ {p} : OnlyOwn(q)'
    BY <1>0, <1>1, <2>1, OthersKeepOwn, WritesWhereAtWork
  <2>3. OnlyOwn(p)'
    <3>1. CASE StartInstall(p)
      BY <1>0, <3>1, StartsAmongOwn
    <3>2. CASE MoveAside(p) \/ Place(p) \/ Record(p) \/ DropCopy(p) \/ DropCopyRow(p)
      BY <1>0, <3>2, InstallKeepsOwn
    <3>3. CASE PlaceFails(p) \/ SetSource(p) \/ Remove(p) \/ WriteMigration(p) \/ PackDies(p)
      <4>1. Ends(p)
        BY <3>3 DEF PlaceFails, SetSource, Remove, WriteMigration, PackDies
      <4>2. job'[p].at = "idle"
        BY <1>0, <4>1, EndsKeeps DEF NoJob
      <4> QED BY <4>2 DEF OnlyOwn, Installing
    <3>4. CASE Unrow(p)
      <4>1. job'[p] = [job[p] EXCEPT !.at = "remove"] /\ job[p] \in Jobs
        BY <1>0, <3>4, GoesKeeps DEF Unrow, PackStages, PackTypeOK
      <4> QED BY <4>1 DEF Jobs, OnlyOwn, Installing
    <3>5. CASE StartUninstall(p)
      <4>1. PICK d \in Dirs :
              job' = [job EXCEPT ![p] = [NoJob EXCEPT !.at = "unrow", !.dir = d, !.name = NameAt(d)]]
        BY <3>5 DEF StartUninstall
      <4>2. job'[p].at = "unrow"
        BY <1>0, <4>1 DEF PackTypeOK, NoJob
      <4> QED BY <4>2 DEF OnlyOwn, Installing
    <3>6. CASE PlanMigration(p)
      <4>1. PICK plan : job' = [job EXCEPT ![p] = [NoJob EXCEPT !.at = "write", !.plan = plan]]
        BY <3>6, Zenon DEF PlanMigration
      <4>2. job'[p].at = "write"
        BY <1>0, <4>1 DEF PackTypeOK, NoJob
      <4> QED BY <4>2 DEF OnlyOwn, Installing
    <3> QED BY <1>1, <3>1, <3>2, <3>3, <3>4, <3>5, <3>6
  <2> QED BY <2>2, <2>3
<1>2. ASSUME NEW d \in Dirs, EditPack(d) PROVE \A q \in Installers : OnlyOwn(q)'
  <2>1. dirs[d] \in Contents /\ UNCHANGED job
    BY <1>0, <1>2 DEF EditPack, PackTypeOK, Maybe
  <2>2. \/ \E v \in Vers : dirs' = [dirs EXCEPT ![d].ver = v]
        \/ dirs' = [dirs EXCEPT ![d].moved = TRUE]
        \/ dirs' = [dirs EXCEPT ![d].readable = FALSE]
    BY <1>2 DEF EditPack
  <2>3. /\ dirs'[d].name = dirs[d].name /\ (dirs'[d].readable => dirs[d].readable)
        /\ \A e \in Dirs \ {d} : dirs'[e] = dirs[e]
    BY <1>0, <2>1, <2>2 DEF PackTypeOK, Contents
  <2>4. \A q \in Installers : job[q].at \in Installing => Touched(q) \subseteq Dirs
    BY <1>0 DEF Touched, Installing, PackTypeOK, Staged, PackStages, Jobs
  <2>5. \A q \in Installers : Touched(q)' = Touched(q)
    BY <2>1 DEF Touched
  <2>6. \A n \in Names \union {NoPack} : \A e \in Dirs : NoOther(e, n) => NoOther(e, n)'
    BY <1>2, <2>3 DEF NoOther, EditPack
  <2>7. \A q \in Installers : job[q].name \in Names \union {NoPack}
    BY <1>0 DEF PackTypeOK, Jobs, Maybe
  <2> QED BY <1>0, <2>1, <2>4, <2>5, <2>6, <2>7 DEF OnlyOwn, NoOther
<1>3. \A q \in Installers : OnlyOwn(q)'
  BY <1>1, <1>2 DEF PackNext
<1> QED
  BY <1>0, <1>3 DEF NeighbourInv

\* An install removes no readable pack of another name, when no two installs or
\* uninstalls are at work in one directory.
THEOREM InstallsSpareNeighbours == ASSUME ~Overlap PROVE PackSpec => NeighboursStay
<1>1. PackInit => NeighbourInv
  <2>1. ASSUME PackInit, NEW p \in Installers PROVE OnlyOwn(p)
    BY <2>1 DEF PackInit, NoJob, OnlyOwn, Installing
  <2> QED BY <2>1, PackStarts DEF PackInv, NeighbourInv
<1>2. NeighbourInv /\ [PackNext]_packVars => NeighbourInv'
  <2>1. NeighbourInv /\ UNCHANGED packVars => NeighbourInv'
    <3> SUFFICES ASSUME NeighbourInv, UNCHANGED packVars PROVE NeighbourInv'
      OBVIOUS
    <3>1. PackTypeOK'
      BY DEF NeighbourInv, packVars, PackTypeOK
    <3>2. Apart'
      BY DEF NeighbourInv, packVars, Apart, Touched
    <3>3. \A p \in Installers : OnlyOwn(p)'
      BY DEF NeighbourInv, packVars, OnlyOwn, Touched, NoOther
    <3> QED BY <3>1, <3>2, <3>3 DEF NeighbourInv
  <2> QED BY <2>1, NeighbourStep
<1> DEFINE Spares == \A p \in Installers, d \in Dirs :
       (MoveAside(p) \/ DropCopy(p)) /\ dirs[d] # NoPack /\ dirs'[d] = NoPack /\ dirs[d].readable
         => dirs[d].name = job[p].name
<1>3. NeighbourInv => [Spares]_packVars
  <2> SUFFICES ASSUME NeighbourInv, NEW p \in Installers, NEW d \in Dirs,
                      MoveAside(p) \/ DropCopy(p),
                      dirs[d] # NoPack, dirs'[d] = NoPack, dirs[d].readable
               PROVE  dirs[d].name = job[p].name
    OBVIOUS
  <2>1. d \in Touched(p)
    BY WritesWhereAtWork DEF NeighbourInv
  <2>2. job[p].at \in Installing
    BY DEF MoveAside, DropCopy, Installing
  <2> QED BY <2>1, <2>2 DEF NeighbourInv, OnlyOwn, NoOther
<1> QED
  BY <1>1, <1>2, <1>3, PTL DEF PackSpec, NeighboursStay
=============================================================================
