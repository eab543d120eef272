----------------------------- MODULE StoreFolder -----------------------------
(***************************************************************************)
(* The store folder of one machine, and the operations that rewrite the    *)
(* whole corpus under the store lock (module StoreLock): a write and the   *)
(* daily backup it begins with (backup.ts), a migration and its undo       *)
(* (migrations/runner.ts), and the restoring of a snapshot.                *)
(*                                                                         *)
(* Each operation is a chain of durable writes and the process may die     *)
(* between any two.  A corpus stands for its bytes: two files are equal    *)
(* when their digests are, and the sidecar of a snapshot is the corpus it  *)
(* was taken from.  The operations hold the lock, so one is under way at a *)
(* time, and what it has in memory dies with it.                           *)
(***************************************************************************)
EXTENDS Integers, FiniteSets

CONSTANTS
  Procs,
  Engrams,
  MaxVersion,  \* CURRENT_SCHEMA_VERSION
  Days,        \* bound: 1..n, the days that may come
  KeepDaily,
  KeepWeekly,
  WeekOf,      \* the week of each day
  MaxFaults,   \* bound: processes that die, and changes made to files behind PLUR's back
  None

ASSUME FolderAssumption ==
  /\ MaxVersion \in Nat /\ KeepDaily \in Nat \ {0} /\ KeepWeekly \in Nat
  /\ Days \subseteq Nat \ {0} /\ 1 \in Days
  /\ WeekOf \in [Days -> Nat]
  /\ IsFiniteSet(Engrams)
  /\ MaxFaults \in Nat

VARIABLES
  store,       \* engrams.yaml
  version,     \* schema_version in config.yaml
  journal,     \* engrams.yaml.migration.json
  snaps,       \* backups/engrams-<day>.yaml and its sidecar
  hint,        \* backups/.state.json
  written,     \* backups/.last-written.json
  aside,       \* the rows of the engrams.yaml.superseded-* files
  today,
  done,        \* per process: the days doneThisProcess remembers
  op,          \* the operation that holds the store lock, or None
  acked,       \* history: engrams whose learn has returned
  gone,        \* history: engrams compacted away, or cut from the store behind PLUR's back
  misfit,      \* history: was a snapshot of another schema version restored?
  deaths, damage

folderVars == <<store, version, journal, snaps, hint, written, aside, today, done, op,
                acked, gone, misfit, deaths, damage>>

Versions == 0..MaxVersion
\* The rows, and the schema version every one of them has the shape of.
Corpora == [recs : SUBSET Engrams, shape : Versions]
Files == Corpora \cup {None}
Journals == [before : Files, after : Corpora, version : Versions]

ASSUME FileAssumption == None \notin Procs \cup Corpora \cup Journals

\* The count of a missing record, and of a folder with no backups/ yet.
NoRecord == -1
NoFolder == -2

NoSnap == [bytes |-> None, sum |-> None]
Snaps == [bytes : Files, sum : Files]
Intact(s) == s.bytes # None /\ s.sum = s.bytes

Size(c) == Cardinality(c.recs)

Kinds == {"learn", "compact", "up", "down", "restore"}
Stages == {"backup", "sidecar", "hint", "rotate", "write", "record", "recover", "clear",
           "plan", "journal", "corpus", "count", "stamp", "undo", "recount", "unlink",
           "superseded", "replace"}

Ops == [by : Procs, kind : Kinds, at : Stages, rec : Engrams \cup {None}, day : Days \cup {0},
        to : Versions, before : Files, after : Files]

FolderInit ==
  /\ store = None /\ version = 0 /\ journal = None
  /\ snaps = [d \in Days |-> NoSnap]
  /\ hint = None /\ written = NoFolder /\ aside = {}
  /\ today = 1
  /\ done = [p \in Procs |-> {}]
  /\ op = None
  /\ acked = {} /\ gone = {} /\ misfit = FALSE
  /\ deaths = 0 /\ damage = 0

disk == <<store, version, journal, snaps, hint, written, aside>>
ghosts == <<acked, gone, misfit>>
world == <<today, done, deaths, damage>>
Faults == deaths + damage

At(kinds, s) == op # None /\ op.kind \in kinds /\ op.at = s
Goto(s) == op' = [op EXCEPT !.at = s]
End == op' = None

\* An operation takes the store lock; a write starts with the daily backup.
Start(p, k, at, e, d, v) ==
  /\ op = None
  /\ op' = [by |-> p, kind |-> k, at |-> at, rec |-> e, day |-> d, to |-> v,
            before |-> None, after |-> None]
  /\ UNCHANGED <<disk, ghosts, world>>

StartLearn(p, e) ==
  /\ e \notin acked \cup gone
  /\ (store # None => e \notin store.recs)
  /\ Start(p, "learn", "backup", e, 0, 0)
StartCompact(p, e) == store # None /\ e \in store.recs /\ Start(p, "compact", "backup", e, 0, 0)
StartUp(p) == Start(p, "up", "recover", None, 0, MaxVersion)
StartDown(p, v) == Start(p, "down", "recover", None, 0, v)
\* The snapshot is read under the lock; without force it has to match its sidecar.
StartRestore(p, d, force) ==
  /\ op = None /\ snaps[d].bytes # None
  /\ Intact(snaps[d]) \/ force
  /\ op' = [by |-> p, kind |-> "restore", at |-> "superseded", rec |-> None, day |-> d,
            to |-> 0, before |-> None, after |-> snaps[d].bytes]
  /\ UNCHANGED <<disk, ghosts, world>>

----------------------------------------------------------------------------
(* maybeDailyBackup                                                        *)

Writing == {"learn", "compact"}
HintToday == hint # None /\ hint.date = today
Remember(p) == done' = [done EXCEPT ![p] = @ \cup {today}]
Listed == {d \in Days : snaps[d].bytes # None}
\* The count of a snapshot is the one its sidecar names.
Counted == {d \in Listed : snaps[d].sum # None}
Strongest == CHOOSE d \in Counted : \A c \in Counted : Size(snaps[c].sum) <= Size(snaps[d].sum)
Baseline ==
  IF written >= 0 THEN written
  ELSE IF hint # None THEN hint.count
  ELSE IF Counted # {} THEN Size(snaps[Strongest].sum) ELSE 0
Shrunk == 10 * Size(store) < 9 * Baseline

AlreadyDone ==
  /\ At(Writing, "backup") /\ (today \in done[op.by] \/ store = None)
  /\ Goto("write") /\ UNCHANGED <<disk, ghosts, world>>

Undecided == /\ At(Writing, "backup") /\ today \notin done[op.by] /\ store # None

HintSaysDone ==
  /\ Undecided /\ HintToday
  /\ Remember(op.by) /\ Goto("write")
  /\ UNCHANGED <<disk, ghosts, today, deaths, damage>>

\* Mutant: a snapshot is believed without its sidecar.
SnapshotListed ==
  /\ Undecided /\ ~HintToday /\ today \in Listed
  /\ Remember(op.by)
  /\ hint' = [date |-> today, count |-> Size(snaps[today].bytes)]
  /\ Goto("write")
  /\ UNCHANGED <<store, version, journal, snaps, written, aside, ghosts, today, deaths, damage>>

\* Today's snapshot outlives its hint.
SnapshotSaysDone ==
  /\ Undecided /\ ~HintToday /\ Intact(snaps[today])
  /\ Remember(op.by)
  /\ hint' = [date |-> today, count |-> Size(snaps[today].sum)]
  /\ Goto("write")
  /\ UNCHANGED <<store, version, journal, snaps, written, aside, ghosts, today, deaths, damage>>

\* An unverifiable one is moved under a name nothing lists.
SetAside ==
  /\ Undecided /\ ~HintToday /\ today \in Listed /\ ~Intact(snaps[today])
  /\ snaps' = [snaps EXCEPT ![today] = NoSnap]
  /\ UNCHANGED <<store, version, journal, hint, written, aside, op, ghosts, world>>

Refuse ==
  /\ Undecided /\ ~HintToday /\ today \notin Listed /\ Shrunk
  /\ Goto("write") /\ UNCHANGED <<disk, ghosts, world>>

\* Mutant: a snapshot of today is taken again whenever the hint is gone.
SnapshotOver ==
  /\ Undecided /\ ~HintToday /\ ~Shrunk
  /\ snaps' = [snaps EXCEPT ![today].bytes = store]
  /\ written' = IF written = NoFolder THEN NoRecord ELSE written
  /\ op' = [op EXCEPT !.at = "sidecar", !.before = store]
  /\ UNCHANGED <<store, version, journal, hint, aside, ghosts, world>>

\* The bytes validated are the bytes written.
Snapshot ==
  /\ Undecided /\ ~HintToday /\ today \notin Listed /\ ~Shrunk
  /\ snaps' = [snaps EXCEPT ![today].bytes = store]
  /\ written' = IF written = NoFolder THEN NoRecord ELSE written
  /\ op' = [op EXCEPT !.at = "sidecar", !.before = store]
  /\ UNCHANGED <<store, version, journal, hint, aside, ghosts, world>>

Sidecar ==
  /\ At(Writing, "sidecar")
  /\ snaps' = [snaps EXCEPT ![today].sum = op.before]
  /\ Goto("hint")
  /\ UNCHANGED <<store, version, journal, hint, written, aside, ghosts, world>>

WriteHint ==
  /\ At(Writing, "hint")
  /\ Remember(op.by)
  /\ hint' = [date |-> today, count |-> Size(op.before)]
  /\ op' = [op EXCEPT !.at = "rotate", !.before = None]
  /\ UNCHANGED <<store, version, journal, snaps, written, aside, ghosts, today, deaths, damage>>

\* The newest KeepDaily, and the newest of each of the KeepWeekly weeks before them.
Newer(d) == {c \in Listed : c > d}
Older == {d \in Listed : Cardinality(Newer(d)) >= KeepDaily}
FirstOfWeek(d) == \A c \in Newer(d) \cap Older : WeekOf[c] # WeekOf[d]
Weekly == {d \in Older : FirstOfWeek(d)
                         /\ Cardinality({WeekOf[c] : c \in Newer(d) \cap Older}) < KeepWeekly}
Kept == (Listed \ Older) \cup Weekly

Rotate ==
  /\ At(Writing, "rotate")
  /\ snaps' = [d \in Days |-> IF d \in Listed \ Kept THEN NoSnap ELSE snaps[d]]
  /\ Goto("write")
  /\ UNCHANGED <<store, version, journal, hint, written, aside, ghosts, world>>

----------------------------------------------------------------------------
(* saveEngrams                                                             *)

Rows == IF store = None THEN {} ELSE store.recs
Shape == IF store = None THEN version ELSE store.shape

Save ==
  /\ At(Writing, "write")
  /\ store' = [recs |-> IF op.kind = "learn" THEN Rows \cup {op.rec} ELSE Rows \ {op.rec},
               shape |-> Shape]
  /\ gone' = IF op.kind = "compact" THEN gone \cup {op.rec} ELSE gone
  /\ Goto("record")
  /\ UNCHANGED <<version, journal, snaps, hint, written, aside, acked, misfit, world>>

\* recordLastWritten, only where backups/ is.
RecordLastWritten ==
  written' = IF written = NoFolder \/ store = None THEN written ELSE Size(store)

\* The last write of a save and of a restore, and the return of the call.
Finish ==
  /\ At(Writing \cup {"restore"}, "record")
  /\ RecordLastWritten
  /\ acked' = IF op.kind = "learn" THEN acked \cup {op.rec} ELSE acked
  /\ End /\ UNCHANGED <<store, version, journal, snaps, hint, aside, gone, misfit, world>>

----------------------------------------------------------------------------
(* runMigrations, rollbackMigrations                                       *)

Migrating == {"up", "down"}

NoJournal ==
  /\ At(Migrating, "recover") /\ journal = None
  /\ Goto("plan") /\ UNCHANGED <<disk, ghosts, world>>

\* Mutant: a journal is taken for a corpus that was replaced.
FinishAnyStamp ==
  /\ At(Migrating, "recover") /\ journal # None
  /\ version' = journal.version
  /\ Goto("clear")
  /\ UNCHANGED <<store, journal, snaps, hint, written, aside, ghosts, world>>

\* recoverMigration: the corpus was replaced, so the stamp is due ...
FinishStamp ==
  /\ At(Migrating, "recover") /\ journal # None /\ store = journal.after
  /\ version' = journal.version
  /\ Goto("clear")
  /\ UNCHANGED <<store, journal, snaps, hint, written, aside, ghosts, world>>

\* ... or it was not, and the journal is void ...
NeverHappened ==
  /\ At(Migrating, "recover") /\ journal # None
  /\ store # journal.after /\ store = journal.before
  /\ Goto("clear") /\ UNCHANGED <<disk, ghosts, world>>

\* Mutant: the migrated corpus is put back over other writes.
ReplayJournal ==
  /\ At(Migrating, "recover") /\ journal # None
  /\ store \notin {journal.after, journal.before}
  /\ store' = journal.after
  /\ End /\ UNCHANGED <<version, journal, snaps, hint, written, aside, ghosts, world>>

\* ... or other writes followed, and only the operator can tell.
RefuseRecovery ==
  /\ At(Migrating, "recover") /\ journal # None
  /\ store \notin {journal.after, journal.before}
  /\ End /\ UNCHANGED <<disk, ghosts, world>>

ClearJournal ==
  /\ At(Migrating, "clear")
  /\ journal' = None
  /\ Goto("plan")
  /\ UNCHANGED <<store, version, snaps, hint, written, aside, ghosts, world>>

Noop == IF op.kind = "up" THEN op.to = version ELSE op.to >= version

NothingToDo ==
  /\ At(Migrating, "plan") /\ Noop
  /\ End /\ UNCHANGED <<disk, ghosts, world>>

\* The corpus is loaded and the migrations applied in memory.  (The copy createBackup
\* keeps for the operator is read by nothing.)
Plan ==
  /\ At(Migrating, "plan") /\ ~Noop
  /\ op' = [op EXCEPT !.at = "journal", !.after = [recs |-> Rows, shape |-> op.to]]
  /\ UNCHANGED <<disk, ghosts, world>>

\* A migration throws: nothing has been written.
MigrationFails ==
  /\ At(Migrating, "journal")
  /\ End /\ UNCHANGED <<disk, ghosts, world>>

WriteJournal ==
  /\ At(Migrating, "journal")
  /\ journal' = [before |-> store, after |-> op.after, version |-> op.to]
  /\ op' = [op EXCEPT !.at = "corpus", !.before = store]
  /\ UNCHANGED <<store, version, snaps, hint, written, aside, ghosts, world>>

WriteCorpus ==
  /\ At(Migrating, "corpus")
  /\ store' = op.after
  /\ Goto("count")
  /\ UNCHANGED <<version, journal, snaps, hint, written, aside, ghosts, world>>

Count ==
  /\ At(Migrating, "count")
  /\ RecordLastWritten /\ Goto("stamp")
  /\ UNCHANGED <<store, version, journal, snaps, hint, aside, ghosts, world>>

Stamp ==
  /\ At(Migrating, "stamp")
  /\ version' = op.to
  /\ op' = [op EXCEPT !.at = "unlink", !.before = None, !.after = None]
  /\ UNCHANGED <<store, journal, snaps, hint, written, aside, ghosts, world>>

\* The stamp throws, the corpus is put back as it was; if that throws too the
\* journal stays.
StampFails ==
  /\ At(Migrating, "stamp")
  /\ Goto("undo") /\ UNCHANGED <<disk, ghosts, world>>

Undo ==
  /\ At(Migrating, "undo")
  /\ store' = op.before
  /\ op' = [op EXCEPT !.at = "recount", !.before = None, !.after = None]
  /\ UNCHANGED <<version, journal, snaps, hint, written, aside, ghosts, world>>

UndoFails ==
  /\ At(Migrating, "undo")
  /\ End /\ UNCHANGED <<disk, ghosts, world>>

Recount ==
  /\ At(Migrating, "recount")
  /\ RecordLastWritten /\ Goto("unlink")
  /\ UNCHANGED <<store, version, journal, snaps, hint, aside, ghosts, world>>

Unlink ==
  /\ At(Migrating, "unlink")
  /\ journal' = None
  /\ End
  /\ UNCHANGED <<store, version, snaps, hint, written, aside, ghosts, world>>

\* What the refusal tells the operator to do.
Reconcile ==
  /\ op = None /\ journal # None
  /\ store \notin {journal.after, journal.before}
  /\ version' = IF store # None /\ store.shape = journal.version THEN journal.version ELSE version
  /\ journal' = None
  /\ UNCHANGED <<store, snaps, hint, written, aside, op, ghosts, world>>

----------------------------------------------------------------------------
(* restoreBackup                                                           *)

CopyAside ==
  /\ At({"restore"}, "superseded")
  /\ aside' = IF store = None THEN aside ELSE aside \cup store.recs
  /\ Goto("replace")
  /\ UNCHANGED <<store, version, journal, snaps, hint, written, ghosts, world>>

\* Neither schema_version nor the journal is looked at.
Replace ==
  /\ At({"restore"}, "replace")
  /\ store' = op.after
  /\ misfit' = (misfit \/ op.after.shape \notin
                  {version} \cup (IF journal = None THEN {} ELSE {journal.version}))
  /\ op' = [op EXCEPT !.at = "record", !.after = None]
  /\ UNCHANGED <<version, journal, snaps, hint, written, aside, acked, gone, world>>

----------------------------------------------------------------------------
(* What happens to the folder                                              *)

Die ==
  /\ op # None /\ Faults < MaxFaults
  /\ deaths' = deaths + 1
  /\ done' = [done EXCEPT ![op.by] = {}]
  /\ End
  /\ UNCHANGED <<disk, ghosts, today, damage>>

Restart(p) ==
  /\ op = None /\ done[p] # {} /\ Faults < MaxFaults
  /\ deaths' = deaths + 1
  /\ done' = [done EXCEPT ![p] = {}]
  /\ UNCHANGED <<disk, op, ghosts, today, damage>>

\* A file loses rows, and still parses.
CutStore(e) ==
  /\ op = None /\ store # None /\ e \in store.recs /\ Faults < MaxFaults
  /\ damage' = damage + 1
  /\ store' = [store EXCEPT !.recs = @ \ {e}]
  /\ gone' = gone \cup {e}
  /\ UNCHANGED <<version, journal, snaps, hint, written, aside, op, acked, misfit,
                 today, done, deaths>>

CutSnapshot(d, e) ==
  /\ op = None /\ d \in Listed /\ e \in snaps[d].bytes.recs /\ Faults < MaxFaults
  /\ damage' = damage + 1
  /\ snaps' = [snaps EXCEPT ![d].bytes.recs = @ \ {e}]
  /\ UNCHANGED <<store, version, journal, hint, written, aside, op, ghosts,
                 today, done, deaths>>

LoseHint ==
  /\ op = None /\ hint # None /\ Faults < MaxFaults
  /\ damage' = damage + 1
  /\ hint' = None
  /\ UNCHANGED <<store, version, journal, snaps, written, aside, op, ghosts,
                 today, done, deaths>>

NextDay ==
  /\ op = None /\ today + 1 \in Days
  /\ today' = today + 1
  /\ UNCHANGED <<disk, op, ghosts, done, deaths, damage>>

FolderNext ==
  \/ \E p \in Procs, e \in Engrams : StartLearn(p, e)
  \/ \E p \in Procs, e \in Engrams : StartCompact(p, e)
  \/ \E p \in Procs : StartUp(p)
  \/ \E p \in Procs, v \in Versions : StartDown(p, v)
  \/ \E p \in Procs, d \in Days, force \in BOOLEAN : StartRestore(p, d, force)
  \/ AlreadyDone \/ HintSaysDone \/ SnapshotSaysDone \/ SetAside \/ Refuse
  \/ Snapshot \/ Sidecar \/ WriteHint \/ Rotate
  \/ Save \/ Finish
  \/ NoJournal \/ FinishStamp \/ NeverHappened \/ RefuseRecovery \/ ClearJournal
  \/ NothingToDo \/ Plan \/ MigrationFails \/ WriteJournal \/ WriteCorpus \/ Count
  \/ Stamp \/ StampFails \/ Undo \/ UndoFails \/ Recount \/ Unlink \/ Reconcile
  \/ CopyAside \/ Replace
  \/ Die \/ (\E p \in Procs : Restart(p))
  \/ (\E e \in Engrams : CutStore(e)) \/ (\E d \in Days, e \in Engrams : CutSnapshot(d, e))
  \/ LoseHint \/ NextDay

FolderSpec == FolderInit /\ [][FolderNext]_folderVars

----------------------------------------------------------------------------
(* Properties                                                              *)

Counts == {NoFolder, NoRecord} \cup Nat
FolderTypeOK ==
  /\ store \in Files /\ version \in Versions
  /\ journal \in Journals \cup {None}
  /\ snaps \in [Days -> Snaps]
  /\ hint \in {None} \cup [date : Days, count : Nat]
  /\ written \in Counts /\ aside \subseteq Engrams
  /\ today \in Days /\ done \in [Procs -> SUBSET Days] /\ op \in Ops \cup {None}
  /\ acked \subseteq Engrams /\ gone \subseteq Engrams
  /\ misfit \in BOOLEAN /\ deaths \in Nat /\ damage \in Nat /\ Faults <= MaxFaults

\* With no migration to finish, the rows have the shape the configuration says: no
\* death between the journal, the corpus, the stamp and the removal of the journal,
\* and no write, backup or recovery after it, makes the two disagree
\* (commitMigration and recoverMigration, migrations/runner.ts).  A restore of a
\* snapshot taken under another schema version does, and is left out by misfit.
StampIsTrue == ~misfit /\ journal = None /\ store # None => store.shape = version

\* An engram whose learn returned is in the store or in a copy set aside by a restore,
\* unless it was compacted or cut behind PLUR's back: no migration, undo or recovery
\* puts an older corpus back (commitMigration; restoreBackup in backup.ts).
AckedSurvive ==
  \A e \in acked \ gone :
    \/ store # None /\ e \in store.recs
    \/ e \in aside

\* A day that is remembered as backed up has a snapshot that verifies, whatever died
\* between the snapshot, its sidecar and the hint (maybeDailyBackup in backup.ts).
DoneMeansCovered ==
  (HintToday \/ \E p \in Procs : today \in done[p]) /\ damage = 0 => Intact(snaps[today])

\* A snapshot that verifies is never overwritten or moved; it goes only by rotation,
\* when KeepDaily newer ones are there, or when the file itself is damaged
\* (maybeDailyBackup, rotate in backup.ts).
GoodSnapshotStands ==
  [][\A d \in Days :
       Intact(snaps[d]) /\ snaps'[d] # snaps[d] =>
         \/ damage' # damage
         \/ op.at = "rotate" /\ snaps'[d] = NoSnap
            /\ Cardinality({c \in Days : c > d /\ snaps'[c].bytes # None}) >= KeepDaily]_folderVars

=============================================================================
