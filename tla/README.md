# Formal models of plur

plur keeps an agent's memory: *engrams* (learned facts), episodes, tensions and
packs, in YAML files under `~/.plur`, shared by every process on the machine
(MCP server, CLI, hooks, editor plugins), by the machines that sync that
directory, and with remote stores over HTTP. The code that carries its own
logic is `packages/core/src`, and the session handling of `packages/mcp/src/tools.ts`.

## Inventory

| part | source | state | operations | what is hard | what makes it correct |
|---|---|---|---|---|---|
| store lock | `store/async-lock.ts`, `withLock` in `sync.ts` | lock file, guard files, heartbeat table | publish, judge, take over, heartbeat, release | processes that die anywhere, hosts that cannot probe each other, filesystems without hard links, stalls | one holder; a live holder is never robbed; a dead one is replaced |
| in-process queue | `async-mutex.ts` | one promise chain per key, a depth counter | run | eviction of an idle mutex racing a new caller | one runner per key, first come first served, no leak |
| primary stores | `store/*.ts`, `engrams.ts`, `atomicWrite` | the engram file, its time stamp, a cached snapshot | load, save, invalidate | a stamp read before the contents, several writes in one tick | a cached read is of the file, or of a version written in the same tick |
| migrations | `migrations/runner.ts` | schema version, journal, corpus | migrate, roll back, recover | deaths between files, ordinary writes meanwhile | the version says what the rows are; nothing saved is lost |
| backups | `backup.ts` | snapshots, sidecars, hint, state file | back up, rotate, restore | a damaged store that overwrites its own backup, a hint that lies | a day counted as done has a snapshot; a good one is not replaced by a weaker |
| outbox | `index.ts` (learn push, flush, claims), `outbox-order.ts`, `outbox-health.ts` | queued rows with target and idempotency key, claim files, in-flight set | learn, flush, forget, rescope, claim, release | lost answers, two flushers, a row edited while it is pushed | every queued write is delivered, none twice, none after it was withdrawn |
| history chain | `history.ts`, `verify-chain.ts` | hash-chained monthly logs | append, verify, repair torn tail | torn appends, concurrent appenders | a verified chain has lost nothing |
| remote store | `store/remote-store.ts` | TTL cache, shared load in flight, host breaker | load, append, remove, the answer of the ambiguity guards | answers that arrive after an invalidation, grants that change, half a listing | an id reported absent was absent; a removed row does not come back |
| learning | `learn-async.ts`, `learn` in `index.ts` | rows, drafts, the duplicate checker's answer | learn, decide, hold back, review | decisions on rows that have changed meanwhile | a locked row is not touched; a draft waits for a review |
| tensions | `tensions.ts`, `resolveTension` in `index.ts` | tension records, both rows | confirm, dismiss, resolve | three writes that fail half-way, two decisions at once | a decision retires one side; a draft is still under review |
| session scopes | `session-scopes.ts`, `packages/mcp/src/tools.ts` | session to scope table, process slot, open sessions | start, set, clear, end, expire, write | every call awaits the network between look-up and use | a write lands in its own session's scope |
| git sync | `sync.ts`, `mergeHeldRecords` in `engrams.ts` | working tree, commits, records held aside | commit, hold, rebase or merge, restore, push | conflicting edits, records withheld from the remote, deaths | nothing private leaves, nothing is lost, references follow a renamed id |
| packs | `packs.ts` | pack directories, registry of hashes | install, uninstall, list, migrate hashes | packs of one name, rows from before rows named directories, two installers | a row keeps the hash of what was installed; a neighbour is left alone |
| ranking | `inject.ts`, `decay.ts`, `hybrid-search.ts` | none | score, fuse, pack | floating-point ties, budgets | packing keeps within its budget |
| adapters | `mcp`, `cli`, `claw`, `opencode`, `hermes`, ... | none of their own but the MCP server's sessions | call the engine | | |

Beyond these there are folders and remote-only projects, provenance and receipts,
policy and secret scanning, configuration, indexes and database backends,
telemetry, episodes, the Python clients and the Lean formalisation of the
standard; `PROJECT.json` lists each with its reason for being left out.

How the parts meet: every change of a store file runs inside the in-process
queue of its path and, inside that, the store lock. The outbox loads, changes and
saves a row under the store lock, lets go of it for the network, and comes back
to merge; the claim file keeps two processes from pushing one row in that
unlocked time. The history log has a lock file of the same protocol beside it, but
an append goes on without the lock when it cannot be had. Learning and reviews take the
store lock once per write and look at the rows between; a sync takes it for each of its
steps; a migration or a restore holds it to its end, and can only be cut by death.

## Modules

| module | models | composed with |
|---|---|---|
| `StoreMutex` | what a lock promises: a process is out, waiting or in, and one at most is in | the abstract specification of the next three |
| `StoreLock` | the lock-file protocol of `async-lock.ts` and its synchronous twin in `sync.ts` | implements `StoreMutex` (property `ImplementsStoreMutex`) |
| `OutboxClaim` | `_claimOutboxEntry`, `_releaseOutboxClaim` of `index.ts` | implements `StoreMutex` (property `ImplementsMutex`) |
| `AsyncMutex` | `AsyncMutex` and `KeyedAsyncMutex` of `async-mutex.ts` | implements one `StoreMutex` per key (theorem `QueueImplementsMutexes`), and so lets `StoreLock` have one contender per process |
| `Outbox` | one queued row, the writers that push it, the servers, the user | store lock and claim are one step each, on the strength of the modules above |
| `VerifyChain` | what `verifyChain` says of a log, as operators on a log | used by `HistoryChain` |
| `HistoryChain` | appends to the monthly log: locked, lock-less, torn, cached | its lock is one step, and a dead holder is replaced, as in `StoreLock` |
| `StoreCache` | the cached snapshot of `store/yaml-primary-store.ts` | the saves of other processes replace the file whole (`atomicWrite`) |
| `StoreFolder` | saves, daily backups, migrations, rollbacks and restores of one store | the store lock is a lock that only death releases |
| `RemoteCache` | the view a process has of a remote store | servers and other clients are actions |
| `SessionScopes` | the scopes of the sessions of one MCP server, and a write that names none | |
| `Learning` | `learnAsync` and the reviews of tensions over one set of rows | each read and each locked write is one step |
| `GitSync` | `sync()` on several devices with one remote, and the three-way merge of records | each step under the store lock is one action |
| `PackRegistry` | the packs folder and its registry | the registry's lock makes a row's rewrite one step |
| `...Proofs` | the theorems | |
| `MC...` | the instances TLC checks | |

`MCOutboxServers` extends `MCOutbox`: the save is from a remote-only folder, and its `ServersNext` adds the move of a row of any other folder to another store.

Four MC modules put components **side by side**: `MCProgress` (`AsyncMutex`,
`OutboxClaim`), `MCHistoryClaims` (`HistoryChain`, `OutboxClaim`), `MCInProcess`
(`StoreCache`, `RemoteCache`, `SessionScopes`, `Learning`) and `MCStoreFiles`
(`StoreFolder`, `GitSync`, `PackRegistry`). The components of one of these share no
state, so interleaving them tells nothing; a variable `part`, chosen at the start, says which
one moves, and the others keep their initial state. Each property speaks of one component.

### State and actions against the code

**StoreLock.** `lock` is the file at the lock path (inode, token, written yet or
not, past the stale threshold or not); `slots` are the guard files of the steal
ladders; `seen`, `rung`, `chk`, `claim` and `open` are the locals of `takeOver`,
`acquireStealSlot` and `publishLockFile`. One action is one system call on a shared
path: `Link` (or `CreateEmpty`, `WriteToken`, `CheckInode` without hard links) is
`publishLockFile`; `Judge` is `inspectLock` with `abandonedByAge` and
`holderIsAlive`; `Climb`, `WriteSlot`, `Verify` are `acquireStealSlot` and
`judgeStealSlot`; `Reinspect`, `Rename`, `Confirm`, `PutBack`, `PutBackWrite` are
`takeOver` and `stealLock`; `Clear`, `Unguard`, `UnguardUnlink` are
`clearStealSlots` and the release of the guard; `Heartbeat` is `touchIfOurs`;
`Leave`, `ReleaseRead`, `ReleaseUnlink` are the `finally` of `withFileLock` and
`releaseIfOurs`; `GiveUp` is the deadline. `LockAges` and `GuardAges` stand for
time: a file passes its threshold when nobody refreshes it.
`MayStall` names who may stop longer than a threshold and live on.

**AsyncMutex.** `map`, `depth` and `queue` are the fields; each action is the code
between two awaits: `Call` to `await prev`, `Start` and `Settle` around `fn`,
`Evict` the outer `finally`, which other calls may precede.

**OutboxClaim.** `claimFile` is the claim, `markers` the takeover markers beside it.
`Look`, `Publish`, `WriteClaim` take a free claim; `Mark`, `MarkWrite`, `LookAtMarker`,
`Recheck`, `Rename` (`RenameFails`, `Refused`) take over a stale one, walking past dead
markers; `Clear` removes the marker; `Release`, `Remove`, `List`, `Sweep` are the
release, in the order the code reads the claim and lists the folder.

**Outbox.** `row` is the engram in the primary store; `snap`, `got`, `gone` and
`demoted` are a writer's view of it over its awaits. `Learn`, `LearnPush`,
`LearnDone` are the queueing save and its background push, `LearnFailed` the note on the row when
that push fails, after which the claim is released, and `NoteFails` a note that cannot be written:
the handler throws past the release, and the claim stays with nobody (`claim.by = None`). `Routed`, `RoutedSave`
the direct push with its local fallback; `Flush`, `FlushRetire`, `FlushKey`,
`FlushClaim`, `FlushCheck`, `FlushDefer`, `Merge` and `Release` are `flushOutbox`
from selection to merge-back; `Forget`, `ForgetRemoteOnly`, `Rescope`,
`RescopeAway`, `Upload`, `Read` and `Update`, `Tighten` are the user. `Serve`,
`Deliver`, `GiveUp`, `ServeLate`, `Lost` are the network: a request its client has
given up on may still be carried out. `SaveFails` is a hand-off or merge-back that cannot be written, and
`Lapse` the age cap of a claim of this host, or the end of the lease of another's. `want` and `lost` are history variables.

**HistoryChain.** `log` is one sequence of lines per month; `mem` and `side` are the
remembered head and the `.chain-head` file. `Begin` stamps a batch; `Lock`, `Drop`,
`Truncate`, `Find`, `Write`, `Record`, `Unlock` are the locked append (torn tail,
predecessor from cache, side file or tail, the write, the stat that pairs size and head,
the side file); `Miss`, `GapWrite`, `Invalidate` are the lock-less one. `CrashInWrite`
leaves any prefix of the batch and perhaps half a line. `torn`, `hollow` and `bare` are history variables that
name what the code does not cover. `VerifyChain` has the verdicts of `plur verify`: refused, mismatch, dangling, gap, fork.

**StoreCache.** `writes` are the replacements of the file, with who made each and in which tick;
`statted` and `snapshot` are a store's read under way and its cache. `Stat` and
`Read` are the two halves of `loadCached`, `SaveThrough` the save that drops the snapshot, `Pull` a git pull that replaces the file and `Invalidate` the call that follows it,
`Tick` the clock of the file system.

**StoreFolder.** `store`, `version`, `journal`, `snaps` (each with its sidecar), `hint`, `written`
and `aside` are files; `done` is what each process remembers, `op` the operation under the lock. `StartLearn`,
`StartCompact`, `StartUp`, `StartDown`, `StartRestore` take the store lock. `AlreadyDone`,
`HintSaysDone`, `SnapshotSaysDone`, `SetAside`, `Refuse`, `Snapshot`, `Sidecar`,
`WriteHint` and `Rotate` are `maybeDailyBackup` in its order; `Save` and `Finish` are
`saveEngrams` and what it records afterwards. `NoJournal`, `FinishStamp`,
`NeverHappened`, `RefuseRecovery` and `ClearJournal` are `recoverMigration`; `Plan`,
`MigrationFails`, `WriteJournal`, `WriteCorpus`, `Count`, `Stamp`, `StampFails`, `Undo`,
`UndoFails`, `Recount` and `Unlink` are `commitMigration`; `CopyAside` and `Replace` are
`restoreBackup`. `Reconcile` is the operator the refused recovery asks for. `Die` and
`Restart` may come between any two of these; `CutStore` and `CutSnapshot` damage a
file behind plur's back, `LoseHint` removes the hint, `NextDay` is the calendar.
The store lock is held from `Start` to the end: no other operation overlaps, but every one
may find what a dead one has left.

**RemoteCache.** `StartLoad`, `SendPage`, `ReceivePage`, `ReceiveDenial`,
`ReceiveTrouble`, `PageTimesOut` and `EndLoad` are the paged load that callers share;
`SendAppend` with `AppendAnswered` or `AppendHeld`, `SendRemove` with `RemoveAnswered`,
and `AnswerLost` are the writes and what they do to the cache. `OthersAppend`,
`OthersRemove`, `ChangeGrant`, `HostFails`, `HostRecovers` are the world, `SiblingAsks`
another store of the same host, which shares the breaker, and `Pass` the clock against
the TTL and the cooldown. `CacheAnswer` is what forget and feedback ask: here, absent, or unknown.

**SessionScopes.** `BeginStart` and `FinishStart` are `plur_session_start` before and after
its awaits; `SetScope` and `ClearScope` are `plur_session_scope`, `EndSession`
`plur_session_end`, `Age` the expiry. A write is `AdmitNamed` or `AdmitNameless` (it takes the lone
open session) or `RefuseSplit`; then `Choose` reads the scope and `Land` saves, with
other calls between. `ChangeWorkspace` is the client moving to another folder.

**Learning.** A save is `HashCheck`, `Ask` (the duplicate checker answers from the rows as they
are then), `Decide`, `Learn` (under the lock, where the match's lock is looked at again), `ReadBack`,
`HoldRead`, `HoldWrite` or `HoldFails`, and `OpenReview` or `OpenReviewFails`. A decision of a
review is `Claim`, `ReadWinner`, `Promote`, `RetireLoser`, and on failure `WriteFails`,
`DemoteRead`, `Demote`, `Release` or `UndoFails`. `Confirm`, `Dismiss`, `Forget`, `Recur` are
the user and a recurrence elsewhere; `SaverDies` and `DeciderDies` stop anywhere.

**GitSync.** Each device has a tree (engrams and notes about them), a head, and what it holds aside;
the remote is a commit. `Learn`, `Edit`, `Retire`, `Purge`, `Note` are its user. A sync is
`StartSync`, then `Recover` with `RestoreEngrams`, `RestoreNotes`, `DropHold` if an earlier one
died (`Recover` aborts an open merge, unless a file that merge changes was written in between: `touched`), `Commit` (stripped by `Strip`), `Hold`, `Reset`, then `Rebase`, or `StartMerge`,
`MergeRecords`, `SaveRenames`, `Conclude`, then the restores again and `Push`. `Crash` comes anywhere;
`PullFails` and `ConcludeFails` are git's refusals, `AbortByHand` the user's way out of one.
`MergeTrees` is the record merge: by record, by field, deletions against edits, ids given twice.
`known`, `purged`, `retired` and `reused` are history variables: what a device could read, removed and saw retired, and whether a
pull has met an id that names another memory than when the branch left the remote.

**PackRegistry.** `dirs` is the packs folder, `rows` the registry, `job` each process's place in its
operation. An install is `StartInstall` (the directory picked, the stale copies listed),
`MoveAside`, `Place` (or `PlaceFails`, which puts the old pack back), `Record`, then `DropCopy` and
`DropCopyRow` for each stale copy and `SetSource`; an uninstall `StartUninstall`, `Unrow`, `Remove`; the
migration of hashes `PlanMigration` without the lock, `WriteMigration` with it. `EditPack` changes a pack
behind plur's back; `PackDies` stops anywhere. `Verdict` is what a listing says of a pack. With
`Overlap = FALSE` no two installs or uninstalls are at work in one directory.

## Runs

| run | instance | what it shows |
|---|---|---|
| `LockSafety` | 4 processes, 2 hosts, hard links, 3 guard slots, 2 acquisitions each, 3 crashes, nobody stalls | one holder; `StoreMutex` is implemented |
| `LockRecovery` | 3 processes, 2 hosts, no hard links, holders that stall, 1 crash, fair | a dead holder's lock goes while somebody keeps asking, also when live locks are taken over and moved files put back |
| `Progress` | 4 calls on 2 keys; 2 processes at a claim, no hard links, 2 faults, sweep in three steps; fair | one run per key, in call order, and every call runs; a dead claim is replaced, past dead markers too |
| `ClaimSweep` | claims with hard links, sweep in three steps, 1 fault | **violated**: a release sweeps a racer's marker, and two are told "claimed" |
| `OutboxDelivery` | 3 writers, one server that honours keys, deferred pushes, claims that lapse under a live owner, 2 operations, 2 keys, 1 failed attempt, 1 crash | no write lost; no known copy left where it was withdrawn from |
| `OutboxServers` | 2 writers, 2 targets on servers of which 1 honours keys, 1 key, 2 failed attempts, 1 crash; 1 user operation: a forget or a policy change in a remote-only folder, or a move of the row to the other store in any other | one pusher; only attempts whose answer was lost make duplicates; a remote-only row is never stored locally; a push never settles the delivery to another store |
| `OutboxProgress` | 2 writers, 2 operations, 2 keys, 1 failed attempt, 1 crash, fair | a queued write leaves the queue, also behind a dead writer's claim or one that a live process failed to release, an owed retirement is made |
| `HistoryChain` | 3 processes, 2 months, 4 events in batches of 1 or 2, 1 death anywhere; 3 processes at a claim, hard links, sweep in one piece, 2 faults, markers 3 deep | one chain; appends that returned true are in it; a log written under the lock verifies, and a removed event shows; nobody's live claim is removed; claims implement `StoreMutex` |
| `HistoryGaps` | 3 processes, 1 month, no deaths | **violated**: verify reports a broken link in a log nobody edited |
| `InProcess` | 2 cached stores, 4 writes in 3 ticks; a remote store with 2 ids on pages of 1, TTL 1, cooldown 2, 3 ticks, 1 outage, denial or 5xx; 2 sessions, 2 workspaces, 1 write; 2 saves, 2 decisions, 3 rows, 2 faults, 1 act of the user | a cached read misses only ties; `absent` may be trusted and a removed row stays gone; a write lands in its own session's scope; drafts wait for reviews that exist, a review retires one side, locked rows stay |
| `StoreFiles` | 1 process after another, 2 engrams, 1 schema step, 2 days, 1 daily snapshot, 1 death or damaged file; 2 devices, 3 acts of users, 1 crash, 4 pushes; 2 installers, 2 pack names, 3 directories, 2 versions, 2 jobs, 1 edit, 1 death or refused rename | the version tells the rows' shape; acknowledged rows survive; a day counted as done is covered, a good snapshot stands; syncs lose nothing, bring nothing back, leak nothing, and notes follow their memory; a pack keeps its baseline and its neighbours stay |
| `PackNeighbour` | 1 installer, 1 job, nothing edited or failing | **violated**: reinstalling one of two packs of a name makes the untouched other read `modified` |

### Bounds

`MaxAcq`, `MaxCrashes` and `Slots` bound the lock, `Inos` its inodes (freed ones
come back, so reuse of an inode number happens). Four processes are a dead holder,
a stealer, a second stealer acting on an old verdict, and a newcomer that walks in:
the interleaving every guard of the protocol is there for. Three crashes kill the holder
and two stealers in a row, as many as there are rungs below the last; the code has eight, and
the proofs hold for any number. Two acquisitions tell a process's own
old lock from its new one.

`MaxDepth` (`OUTBOX_TAKEOVER_MAX_DEPTH`) is three markers deep with two deaths, so
the refusal at the bottom is reached; `Tokens` are used again when nothing
names them, so the run is not bounded in the number of claims. `MaxFaults` bounds
deaths and refused files together.

The outbox has one row: the code merges rows one by one and never against each
other. `MaxOps` bounds the user's operations, `MaxKeys` the keys (a row that is
cancelled and queued again gets a new one), `MaxCopies` the copies one key-ignoring
server can be made to store of one key, `MaxLost` the attempts that fail,
`MaxCrashes` crashes, failed local saves and failed notes. One failed attempt is enough for an old
request to arrive after a retry. In `OutboxServers` a server may store four copies of a
key, so the bound on duplicates is the bound of the model only in states where all
the faults have happened.

`MaxMonth` = 2 has one change of month, `MaxEvents` = 4 is enough for a link, a gap, a
second gap and a link over both, `MaxBatch` = 2 for a batch cut in its middle.

`StoreCache`: a hit is wrong only if two writes share a tick around a read; four writes in three
ticks have that before, after and across a tick. `RemoteCache`: `PageSize` = 1 with two ids makes
every load of two rows a load of two pages, with rows coming and going between them; `MaxTime` = 3 is one tick more than the
cooldown and two more than the TTL. `SessionScopes`: a second session is another owner for whatever the first one's
write picks up, and of two workspaces one is split over two scopes, where a nameless write is refused.
`Learning`: two saves may draft beside the same row, and two decisions of one review overlap; three rows are the
locked one and a draft of each save; two faults are a write that fails and its undo that fails too.

`StoreFolder`: operations exclude one another, so a second process adds only its own `done`; two days
with `KeepDaily` = 1 have a rotation. `KeepWeekly` is 0, so that weekly snapshots are kept only in the proofs, where the schedule
is any set. One schema step up and down meets every crash point of `commitMigration`, which takes all
pending steps in one go. `GitSync`: three acts are an engram on each device under one id and a note, or an edit against
a removal, or a private row and two others. A merge has two sides, hence two devices; what a third one adds is an id that is removed by one device
and given again by another that had not seen it (see the table below), which two devices cannot come to, by the theorem `TwoNeverReuse`.
`PackRegistry`: two packs of one name and a free directory are what `pickInstallDirName` chooses between; the numbered
directories of its last resort are left out.

Larger instances have passed on their own: `GitSync` with 4 acts (6.3 million states), and with 3 devices, one syncing at a time, and 4 memories learnt, retired or purged, while `~reused`, `StoreFolder` with a
death and a damaged file (4.2 million), `PackRegistry` with 3 jobs and no edit (1.5 million), and with numbered directories (2 million),
`Learning` with two saves and one decision, and one and two, over all rows.

Deadlock is not checked where everybody may rightly be finished or the bounds used up: the configurations say so.
Symmetry permutes processes, devices, engrams, pack names and versions, which no definition tells apart, and
is not used in runs with liveness properties.

### Fairness

* Lock: each live process takes its next step (`WF` of `Step`), and unrefreshed
  files get old. No process is assumed to ask, to crash or to give up:
  `CrashedHolderIsReplaced` is about those that keep asking, the retry loop of `withFileLock`.
* Queue: the event loop runs what is ready, and `fn` settles.
* Claim: each live process takes its next step; faults are bounded.
* Outbox: every `session_start` and `plur_sync` flushes, so a writer that can
  step does; servers answer what reaches them. Strong fairness is assumed of
  claiming, of the re-check and of a DELETE that succeeds: the breaker and the
  budget may put a push off time and again, but not for ever on a host that is up. And a
  claim nobody releases comes to its age cap (`WF` of `Lapse` for such a claim): the clock runs. Without
  `MayLapse` the claims of writers that are still at work do not lapse, since no push takes 15 minutes.

The other modules have none: what they promise is safety, and nothing in them waits for anything but the store lock.

## Proofs

`StoreLockProofs`. `TypeCorrect` is for every configuration. The rest is in a `KindWorld`:
hard links, no stealer that stalls on its guard, and no holder that stalls either unless all
processes run on one machine, where a holder is probed and may take as long as it likes. It is for
any number of processes, hosts, inodes, slots, acquisitions and crashes, and each condition is needed (see the table below). Mutual exclusion is not inductive: a
stealer that judged the lock long ago is one rename away from robbing its new
owner. `LockInv` adds what stops it, in named parts: `NoFallback` (nobody is in the
branch for filesystems without links), `HeldByOwner` (who is in has its token in
the lock file), `OldIsDead` (a file past the threshold has a dead owner),
`GuardWritten`, `NoGuardLeftBehind`, `StealsFromDead` (whatever has been judged
abandoned belongs to a dead process), `LadderStands` (the rungs below a verified stealer
are held by the dead, so two verified stealers of one lock are one) and
`StealWindow` (from its second look at the lock to its rename, nobody else can
have replaced that file: it takes that same guard to do so). The step theorem has
one case per action, the QED steps put them together, and `LockExcludes`,
`LiveHolderNotRobbed`, `StealIsExact`, `ReleaseIsOwn` and `LockImplementsMutex` (a
refinement: the initial state maps to the initial state, a step to a step or a
stutter) follow from it.

`OutboxProofs`. `OutboxTypes` (every configuration) is itself inductive: its parts `SetUp` and
`Answered` say that a stage that pushes has read a row with target and key, and
that a server id anybody carries is that of a stored copy. `RemoteOnlyStays`
(every configuration, claims that lapse and every user operation included) rests on
`RemoteOnlyInv`: no writer's snapshot is demoted, and the fallback row of a direct
push is queued for its team store. `OnePusherAtATime` assumes `~MayLapse` and rests on
`ClaimInv`: whoever is between claim and release has the claim file, and only a claim that nobody holds any
more has lapsed.

`NoWriteIsLost` and `NoCopyAstray` are for any writers, targets, servers, lost answers, deaths, policies and lapsed claims, for `Ops` without `update`
(a caller's rewrite from an old read; the table below shows what it does), `NoWriteIsLost` also for a remote-only folder with it. There an engram has one remote store and one key: `DeliveryInv` says
that rows, snapshots and the user's wish name one target (`OneTarget`) and one key (`OneKey`), a queued row is where the user put it (`InPlace`), a retirement is
owed only by a row that has been closed, forgotten or made local, and stays so (`OwedClosed`), a direct push has the engram for itself (`RoutedAlone`), an answer is in hand only between
its arrival and the hand-off (`InHand`), and copies and requests under way are for that target and key, a copy is retired only after the row
was closed, and a row that is gone for its store has one (`ServerInv`). `NoCopyAstray` also assumes that every server honours
the key: `StrayInv` says that the engram has one copy (`Single`), which, live and known, is accounted for by the row, by a writer with its answer, or by the row's
absence (`Tracked`), that a retirement is taken for done only when it is (`Gone`), and that a writer that finds its row gone finds the write where it belongs (`Home`).
A remote-only folder is left out, since a forget there owes no retirement. `RetargetsSurvive` needs either a folder that is remote-only or a policy
nobody tightens: otherwise a demoted snapshot has no target to compare (`NoDemotion`, `RemoteOnlyInv`).

`ConcurrencyDuplicatesNothing` counts: every copy and every request under way but one stands for an attempt whose answer was lost, and all of them
do while nobody has an answer in hand and the engram may be posted again (`Accounted`). A writer gets no further chance to post than that: it keeps its claim until it has recorded the
answer (`ClaimKept`), so nobody else asks meanwhile, and `learn` holds the store lock until it has looked at the claim (`LearnLocked`). That the count grows by
one at most with each request is the library's theorems on cardinality. It needs all its conditions (the table below): no lapse, no push deferred to a commit, and no row
put back by an update from an old read, which gives a settled write its entry, and its key, again.

`OutboxClaimProofs`. The three properties of the claim are for any number of processes, tokens, deaths, refused files and dead markers in a row, under `KindWorld`: hard links,
no lapse under a live owner, and nobody acting inside a sweep. Each condition is needed: the table below and `ClaimSweep` show what happens without.
A rename replaces whatever is on file, so what has to be shown is that between a recheck and its rename the stale claim stays where it is. `TakeoverInv` says that the claim in force is its owner's and
each owner's is in force (`Owned`); that a token not on file yet is nobody else's and nothing is named after it, so that no claim comes back under an
old name (`NewTokens`); that whoever is after the claim in place has walked past dead markers only, each named after the one before it, and has its own marker down from
the recheck on (`Walked`); that the claim is still in place then (`Rechecked`); and that a process clears none of the markers of the claim in place but its own (`ClearsOwn`). As a
name has one marker, the ways of two processes agree as far as the shorter goes (`OneWay`, by the least place where they differ), and it ends at a marker whose owner is alive: one of them is not past it
(`AloneUnderMarker`). With `Owned` a step that puts a token on file finds no owner (`Replaces`), and the steps are those of `StoreMutex`.

`InProcessProofs` holds the proofs of `AsyncMutex`, `StoreCache`, `RemoteCache` and `SessionScopes`, which share nothing.

`RunsAlone`, `RunsInOrder` and `WaitersStayTogether`. The calls are a finite set. `QueueInv`: mutexes are
`Named` after the run that made them, calls are `Ordered`, each is `Chained` to the one
before it on its mutex, the queue is `Tailed` by the last, `Served` in that order,
`Counted` by `depth`, not split (`NoSplit`), and a mutex that lost its key has no one left
(`Superseded`). The count is what eviction looks at, so the proof needs the cardinality of
the runs of a mutex. `QueueImplementsMutexes` follows (`TurnStep`): seen from one key (`TurnsOf`), a call asks, a start enters
when nobody of that key runs, a settled run leaves, and whatever the other keys do is a stutter. No run checks it: TLC takes no refinement
under a parameterised `INSTANCE`, and with one key put in by hand it holds for 4 calls of 2 keys.

`CacheMissesTies`, for any number of stores, writes and ticks. A hit compares stamps only, so
`CacheInv` says what a stamp can stand for: stamps do not go back (`StampsGoOn`), what a cache misses was not stamped earlier than the
cache (`StampsAreOld`), and a write of one's own empties the cache or is a pull under way (`OwnWritesShow`).

`AbsentHolds` and `RemovalHolds`, for any number of rows, pages, stores, clients, outages and changes of a permission. `RemoteInv` says that the server
gives its ids in order (`InOrder`), so that a new row moves no other in the listing; that a removed row is in no cache and in no load, and is not about to be cached by
an answer on its way (`Gone`); that a load during which no row went has every row of its first pages that was there when it began, and every row pushed
before (`Listing`); and the same of the cache it became (`View`). That the last page ends the listing takes two lemmas about places in a finite set of numbers: below a row's place every place is
taken (`PlacesFilled`, from the library's theorems on injections), so a page that is short has no row behind it (`ShortPageEnds`).

`WritesLandAtHome`, for any number of sessions, calls, workspaces and scopes, from `SessionInv`: the process default stays empty (`SessionTypes`), and a write that has
its key goes to a scope that was its own, or asks for its own session's, where only that session's user puts a scope (`KeysAreOwn`). It assumes that no session's id is the name of a
scope (the keys the code registers workspaces under have a prefix of their own).

`HistoryProofs`. `LogTypes`, `LogIsOneChain`, `AppendsStay`, `LockLeavesNoGap`, `VerifierReads` and `RemovalIsFound`, for any number of
processes, months, events, batches and deaths. What every append keeps, with the lock or without, is `Base`: the types, one process inside
(`Locking`), and no event in two places (`Unique`). `CoveredInv` is the chain while the properties' condition `Covered` holds: whole lines but for the
last of a file whose writer died in it (`Clean`), each event after the one it names with only declared gaps in between (`Chain`), the `.chain-head` file and
each remembered head a last event but for gaps, of the file at the size it names (`HeadOK`), a predecessor that leads the log from the
moment it is found to the append (`Found`), and the events of finished appends in the log. A lock-less append keeps this although it comes
between any two steps of the holder: it adds a gap, and whoever led the log leads it still (`MoreGap`). Under `Covered` it comes in the first
month only. `StrictInv` is for logs of which every append had the lock: only the first event has no predecessor, and a month file without a line
is `hollow`. `RemovalIsFound` is of any log that verifies: the next event names the one before it (`LinksBack`), which is then missing (`RemovalDangles`).

`StoreFilesProofs`, part 1. `FolderTypeCorrect`, `StampsAreTrue`, `AcknowledgedSurvive`, `BackedUpIsCovered` and `GoodSnapshotsStand`, for any engrams, days,
rotation schedule, processes, faults and schema versions, from `FolderInv`: the types, `Stepping` (an operation has in memory what
its stage works with), `Stamped` (rows and version disagree only under a journal that names both, or in the hands of the operation at work),
`Stored` (a learn that is about to be acknowledged has its row in the store, and a restore that is about to replace the store has
set its rows aside) and `Covered` (nothing is of a day to come, and the stages after the snapshot and the sidecar have these on file). That a rotation leaves
`KeepDaily` newer snapshots is seen at the newest of the days it may drop (`NewestDay`): all that are newer are kept, and there are that many (`RotationLeavesNewer`).

`StoreFilesProofs`, part 2. `PackTypeCorrect` is for every configuration. `BaselinesStand` and
`InstallsSpareNeighbours` assume `~Overlap`, for any number of packs, names, directories, processes, edits and mishaps. `PackInv` is made of
`Apart` (no two jobs are at work in one directory), `Based` (a completed install has its row), `Swapped` (between
the swap and the row, what is in the directory is what the job will record), `CopyGone` (a row that is dropped with a stale copy is of no completed install) and `Planned` (what a
migration checked against the source is what was installed, for the rows it may still be written to); `NeighbourInv` says that in the
directories an install is at work in there is nothing readable of another name.

`LearningProofs`. `LearningTypes`, `OneSideOnly`, `LockHolds`, `ProposalsWait` and `HeldAreQueued`, for any number of saves, decisions, statements,
rows, faults and acts of the user. `LearningInv` says that a stage of a save names rows that were saved (`SaveKnows`), that the record a decision has claimed
is decided, for its winner (`DecisionKnows`), and its alone (`ClaimedOnce`), and that a recorded review is of two rows (`Reviewed`). On it rest `RetiredOnce` (whoever retires for a pair
leaves its record decided and unclaimed for good), `Sources` (the superseders of a row, and of a copy that a later write may put back, are rows that were saved), `Waits` (a held row that is
given has a pair decided for it whose claimant, if any, has promoted it and not yet let go, or a pair whose undoing failed) and `Queued` (between its save and its review a held row is in the hands of a save
at another row than its target, so that there is a pair to record).

`GitSyncProofs`, for any number of devices, acts, crashes and pushes. A merge finds, keeps, drops and renames records by id, so `GitCore` says
where an id and a memory name each other. In the pushed history (`RemoteInv`) a memory keeps one id, once retired it is retired in every later
commit, and once it leaves it was removed and does not come back. A branch stands on a commit (`Trees`): neither has an id or a memory under another's, what the
commit has is in the branch unless it was removed, and what was ever pushed and is in the branch is in the commit. What is private
was never committed, and a held record is put back once (`Private`). What a device knew is in its store or held, and, while a merge is open that a recovery would abort, in its branch or held
(`Kept`, `Gone`). The next number of a device is over all it has seen (`Topped`), and a memory that two devices have met was pushed (`Owned`). `InStage` says what each
place of a sync may take for granted about hold, merge and tree. `MemoriesKept` and `RemovalsStand` follow, and with `NotesCore` (the notes of
a store, of a commit and of a hold are about records beside them, through every renaming) `LocalStays` and `NotesFollowIds`. These theorems
say so until a pull meets an id that names another memory than when the branch left the remote (`~reused`): then they are not true, as the table below says. Two devices never come
to that: `TwoInv` says that one of the two is level with the remote, made all that the other is behind by, and has therefore seen its numbers. So `TwoDevices` has the four
properties with no condition. `PrivateNeverPushed` needs none either.

The assumptions on constants are named in the modules that declare them, and TLC evaluates them in every run.

Only model-checked: liveness (the prover has no rule for it under fairness); the
lock outside a `KindWorld`, where the safety theorems are not true (see
below); the claim with lapses, without hard links or with a sweep that others cut into, where they are not true either. Induction over data and `ENABLED` are out of the prover's reach too.

## Where the code and its comments part

Three runs show disagreements that need no fault the comments exclude:

* `ClaimSweep`: `index.ts:7531-7534` says sweeping markers "cannot make a second
  winner". A release reads the claim before it lists the folder (7555); a claim made and
  left by a dead process in between has its racers' markers swept as left over.
* `HistoryGaps`: `verify-chain.ts:287-291` lets the lock holder's link skip gaps that land
  beneath it. If the tail it read is itself a gap, and another gap lands before it
  writes, the link is neither the event before nor the one before the gaps, and
  is reported as `prev_mismatch`, the verdict on an edited log.
* `PackNeighbour`: `packs.ts:1946-1950` keeps a row that two directories could own from being the
  baseline of either. A reinstall of one of them appends a row of its own (417) and leaves
  the old one, which is from then on the baseline of the other, though it may hold the first one's hash.

Others were met while modelling. They are left out of the runs by a constant, a bound or a
guard of a property, or are steps the models leave out:

| what happens | how to see it | where |
|---|---|---|
| a creator that stalls between create and write is taken for abandoned, and two get in | `MutualExclusion` with 3 processes, `OneHost`, `HardLinks = FALSE`, `CreatorStalls`, `Slots = 2`, `MaxAcq = 1`, 1 crash | `async-lock.ts:159` |
| without hard links all half-made lock files share one ladder, whatever their inode: a clean-up whose own guard another takeover has cleared, and which outlasts the age threshold of such files, removes the guard of a third, and two stealers reach the rename | `MutualExclusion` with `HardLinks = FALSE`, `NoStall`, `Slots = 3`, 12 processes on one host and 6 crashes: TLC follows one behaviour of 92 steps, and finds nothing in the instances it can search whole | `async-lock.ts:696` |
| a stealer that stalls on its guard is stepped over, and renames a live lock | `LiveHolderKeepsLock` with `StealerStalls`, hard links, 1 crash | `async-lock.ts:643` |
| a holder on another host that stalls is taken over, and its release reads its own token and unlinks the next lock | `ReleaseRemovesOwn` with `TwoHosts`, `HolderStalls`, no crash | `async-lock.ts:860` |
| without hard links a claim is empty between create and write, and is read as stale | `OneClaimant` with 2 processes, `HardLinks = FALSE`, `AtomicSweep = TRUE`, 1 fault | `index.ts:7453` |
| a lease that lapses under a live owner is replaced | `LiveClaimStands` with `MayLapse = TRUE` | `index.ts:7546` |
| when the note of a failed first push cannot be written, the claim of the live process is not released, though the comment at 5288-5290 says "the `finally` below" does: the row waits for the age cap (15 minutes), on another host for the lease | `claim.by = None` after `NoteFails` in `OutboxProgress`; `EventuallyDelivered` fails there if the age cap is left out | `index.ts:5311` |
| with `MayLapse = FALSE` a write is delivered once per lost answer and once more, not twice at most | `ConcurrencyAddsNoDuplicates` with `<= 2` for `<= 1 + lost` | `index.ts:12050` |
| an edit made while the push is under way is merged but not sent | a live copy with `ver < want.ver` and the row gone, `Ops = {"update"}` | `index.ts:12750` |
| a push deferred to the commit posts what another writer has delivered | `ConcurrencyAddsNoDuplicates` with `Transactional = TRUE`, `Honours = {}`, `MaxLost = 0` | `index.ts:5276` |
| a row that moves between two scopes of one server keeps its key, and the server answers with the copy of the old scope | `NoLostWrite` with `TwoTargets`, `OneServer`, `Ops = {"update"}` | `index.ts:9836` |
| a retargeted row drops an owed retirement | `NoStrayCopy` with `TwoTargets`, `Ops = {"update"}` | `index.ts:12523` |
| a forget of a remote-only row owes no retirement | `NoStrayCopy` with `RemoteOnly`, `Ops = {"forget"}` | `index.ts:10360` |
| an update from an old read revives a forgotten queued row, also one that has been delivered, which is then posted again | `row` queued again after `Forget`, `Ops = {"update", "forget"}`; `ConcurrencyAddsNoDuplicates` with `MaxLost = 0` | `index.ts:9790` |
| the flush's re-check compares the key and not the target, and posts a moved row where it was | `ConcurrencyAddsNoDuplicates` without `copies[i].t = want.at` | `index.ts:12515` |
| a demotion decided for one target is merged into a row that has moved to a store the policy allows (a demoted snapshot has no `_outbox` to compare) | `RetargetSurvives` with `TwoTargets`, `Ops = {"update", "tighten"}`, `MaxOps = 2` | `index.ts:12809` |
| a lock-less append beside a change of month links to the later month or misses | `OneChain`, `NobodyIsAccused` without `now = 1` in `Covered` | `history.ts:797` |
| a lock-less batch counts as one gap and one link, and is reported | `NobodyIsAccused` without `bare = 1` in `Covered` | `history.ts:922` |
| a writer that dies between making a month file and its first line leaves an empty one, and an append to a later month looks no further back: it declares a gap (from the third month on), though the comment at 444-446 has it scan prior months | `NoGapUnderLock` without `hollow`, three months, one death | `history.ts:511` |
| a line torn at the end of a month stays when the next append is of the next month, and verify refuses the log | `VerifyAnswers` without `now = 1` | `verify-chain.ts:204` |
| a fragment that `dropTornTail` cannot cut (it grew while watched, 869; it is longer than 1 MB, 882; an I/O error, 890) stays, and the locked append glues its event to it, though the comment at 851-852 says the append still starts on its own line (a batch does, 931): the event is lost and verify refuses the log | `AppendsLand` or `VerifyAnswers` with `DropNever` for `Drop` | `history.ts:890` |
| a lock-less append between the stat and the truncation of a torn file is cut | `AppendsLand` without `Covered` | `history.ts:880` |
| a load in flight ends after an own push or removal and replaces the cache with the older view, so the row looks absent, or present; a comment at 1113 says an own write is seen at once | `AbsentIsSound`, `RemovedStaysGone` with `confirmed` and `retired` kept while a load is in flight | `remote-store.ts:957` |
| an append whose answer comes after a load that saw the row is cached twice | the cached ids counted as a bag | `remote-store.ts:1121` |
| rows that go between two pages make the next offset skip one; a 403 or 404 in mid-listing is cached as a complete view | `AbsentIsSound` without `steady` | `remote-store.ts:934`, `903` |
| a page that times out late marks a host down that has recovered | `markedAt` set after `HostRecovers` and an answer | `remote-store.ts:892` |
| `plur_session_start` registers after its awaits, also when the session has ended meanwhile; `plur_session_scope` with an expired id registers it again | `registered` of a session with no record | `tools.ts:3823`, `4410` |
| outside the server, the process slot gives an ended session's write in flight another session's default | `LandsAtHome` with a `Land` that reads `slot` | `session-scopes.ts:92` |
| a NOOP answer is taken without a look whether the row is still active | `Decide` of `noop` after `Forget` | `learn-async.ts:250` |
| a save that dies between its draft and its review leaves a draft no review lists, and later saves of the same text are absorbed by it | `HeldIsQueued` without `"dead"` | `index.ts:6174` |
| a draft made by writing back an old copy of a row brings back a superseder it had before it was locked | `LockedStands` without `Used`, three saves | `index.ts:6172` |
| a memory saved independently, and saved again, can be turned into the draft of a pair | `HoldWrite` on a row that `Same` found | `index.ts:6172` |
| a promotion from an old read brings back a forgotten memory, or the loser of another review of the same draft; the comment at 13596 says it cannot | `rows[r].status` active again after `RetireLoser`, with two reviews of one draft | `index.ts:13601` |
| the undo of a second decision makes a draft of what the first one chose | `brokenUndo` | `index.ts:13614` |
| the history entry of a retirement is written unguarded: if it fails, a retirement that landed is undone | `RetireLoser` reported as `WriteFails` | `index.ts:13664` |
| a sync that dies between restoring `engrams.yaml` and the notes leaves held notes with the id of another memory, though a comment at 653 says a restore may run again on its own output; so does an ordinary write before the next sync | `NotesFollow` without `crashes = 0` | `sync.ts:673` |
| with three devices, an id that one device removes, and that another which had not seen it gives again, is taken for the old one by a third that still stands on the old commit: the new memory is deleted there, or blended with the old one | `NothingLost` with 3 devices, `MaxActs = 4`, `MaxPushes = 5`, no crash; it holds while `~reused` | `sync.ts:1014` |
| with a merge open that would leave the branch as it was, `commitChanges` finds nothing to commit and leaves it open; the pull's rebase is refused, and the records of the same commit are merged a second time, so that what was removed since the first time can come back | a sync that stays at `commit` with `merging # 0`: the guard of `Commit` leaves it out | `sync.ts:569` |
| `merge --abort` is refused once a file the merge changes was written (`engrams.yaml`, or a file of notes), and the next commit concludes the merge instead; a merge killed with conflict markers and nothing held makes every later sync refuse until aborted by hand | a sync that stays at `torn` | `sync.ts:214` |
| a restored snapshot of another schema version keeps the present version number | `StampIsTrue` without `misfit` | `backup.ts:685` |
| a death after the journal and an ordinary write before the next run make every migration refuse until an operator looks | `RefuseRecovery` until `Reconcile` | `runner.ts:140` |
| the gate refuses to back up a truncated store until the next save makes its own count the baseline | `Snapshot` of the cut store after `Save` | `backup.ts:375` |
| two processes that install different packs from folders of one name both choose the free directory, and the second moves aside and deletes the first's pack | `NeighboursStay` with `Overlap = TRUE` | `packs.ts:1463` |
| two installs or uninstalls of one directory leave the row of one version and the content of another | `BaselineStands` with `Overlap = TRUE` | `packs.ts:1604` |
| an install that dies between its renames leaves the old pack under a `.replacing-*` name nobody restores; between swap and row, a false `modified` | `PackDies` at `place` or `record` | `packs.ts:1588` |
| a copy that stands in the directory its own source asked for is removed as stale, which a comment at 1768 excludes ("Kept, always") | `StaleCopies` of a `Displaced` start | `packs.ts:1776` |

## Abstractions

* A token, a hash, a key is a model value or a number nobody else has.
* Time is an action that ages a file nobody refreshes; the thresholds' values
  are not compared, save the TTL and the cooldown of `RemoteCache`. A clock that jumps is a stall.
* Git: an open merge is taken to change `engrams.yaml` in any case, so a write of that file keeps git from
  aborting it; a file of notes does so only if the merge changes it (`StagedNotes`), and is left alone by the
  abort if not.
* Outbox: breaker, cooldown, budget and hold-back are one choice not to push
  (`FlushDefer`); supersedes order and attempt bookkeeping are left out; the
  content of a row is the number of its edit. Steps under the store lock are one action.
* History: hashes, signatures, checkpoints and events without a hash are left out, and
  so are batches that span months. A file's size counts lines, so that a fragment can be
  as long as an event: the model allows more coincidences than bytes do.
* StoreFolder: a row is its id, and the shape of the rows is one number: a migration step changes it, whatever it does to the fields.
  A save of `learn` adds a row, a save of `compact` removes one.
* Learning: the duplicate checker is any answer about rows it was shown; statements are equal or not.
* GitSync: an engram is an id, a birth (which engram it is, whatever its id), a version and two bits; a note is an id it names and the
  birth it was written about. Git's line merge either succeeds, when the two sides touch different records (`Disjoint`), or is left to the record merge.
* PackRegistry: a pack's content is name, version, whether bytes moved between its files (which the v1 hash cannot see) and whether its manifest reads.

## Not modelled

* In modelled parts: quarantined rows and duplicate ids within a store file, the shrink guard of a save, temporary files and
  permissions; `/me`, capabilities and the reshaping of remote rows; which store a scope is routed to; the scanner that proposes
  tensions and its heuristics; unreadable files, ids of notes that clash, one review per pair, relations between engrams and tension records written by another
  process during a sync; previews and scans of packs, unsafe or Unicode names, an unreadable registry, export.
* Ranking and recall are floating-point scores over a snapshot, read only: nothing interleaves.
* Database backends are SQL against an engine of its own; `Outbox` has what a deferred commit changes for delivery.
* Folder rules, policy, secrets, configuration, server discovery: decisions over text, made anew at each call. Their verdicts are
  choices of `Outbox` and `SessionScopes`.
* Provenance, receipts, telemetry, episodes: append-only records with no reader that decides by them.
* Adapters, clients, installers and release tooling call the engine and keep no state of their own.

## Plan

Done: the lock, the in-process queue, the outbox and its claim, the history log; the primary
store's cache, migrations and backups, the remote store, session scopes, learning and reviews, git sync,
packs; proofs of the lock, the queue, the outbox and its claim, the history log, the caches, the sessions' scopes, learning, the store's files, git sync and the packs.

Next, in this order:

1. `orderBySupersedes` and the packing budget as functions against reference definitions.
2. `AsyncMutex` composed with `StoreLock` (two callers in one process are two contenders that never overlap).
