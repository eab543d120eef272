------------------------------- MODULE Outbox -------------------------------
(***************************************************************************)
(* The delivery of one queued engram to a remote store (index.ts): the     *)
(* background push of learn, the direct push of learnRouted with its local *)
(* fallback, flushOutbox with its claim, re-read and merge-back, and the   *)
(* user's forget, rescope, update and upload of the row meanwhile.         *)
(*                                                                         *)
(* Rows are merged one by one and never against each other, so one row     *)
(* stands for all of them.  A writer is a Plur instance; it works on a row *)
(* once at a time (_outboxInFlight).  Steps under the store lock are atomic*)
(* (module StoreLock), and so is taking a claim (module OutboxClaim).      *)
(***************************************************************************)
EXTENDS Naturals, FiniteSets

CONSTANTS
  Writers,        \* instances in different processes that share the store
  Targets,        \* remote scopes a write can go to
  ServerOf,       \* the server each of them is on
  Honours,        \* the servers that deduplicate by idempotency key
  Transactional,  \* does the primary store defer work to its commit (afterCommit)?
  RemoteOnly,     \* is the save made from a remote-only folder?
  MayLapse,       \* can a claim lapse while its writer is at it (other host, 15-minute cap)?
  Ops,            \* what the user may do to the row
  MaxOps,         \* bound: user operations
  MaxKeys,        \* bound: idempotency keys
  MaxCopies,      \* bound: copies a key-ignoring server stores of one key
  MaxLost,        \* bound: attempts that fail
  MaxCrashes,     \* bound: crashes and local writes that fail
  Local,          \* the local scope
  None

AllOps == {"forget", "rescope", "update", "upload", "tighten"}
Servers == {ServerOf[t] : t \in Targets}

ASSUME OutboxAssumption ==
  /\ ServerOf \in [Targets -> Servers]
  /\ Honours \subseteq Servers
  /\ Transactional \in BOOLEAN /\ RemoteOnly \in BOOLEAN /\ MayLapse \in BOOLEAN
  /\ Ops \subseteq AllOps
  /\ MaxOps \in Nat /\ MaxKeys \in Nat /\ MaxCopies \in Nat
  /\ MaxLost \in Nat /\ MaxCrashes \in Nat
  /\ Local \notin Targets /\ None \notin Targets \union Writers /\ Local # None

VARIABLES
  row,     \* the engram's row in the primary store, or NoRow
  keys,    \* idempotency keys minted so far
  claim,   \* the claim file of the row
  lockBy,  \* the writer that holds the store lock across steps, or None
  pc,      \* where each writer stands
  snap,    \* per writer: the row as it read it
  reply,   \* per writer: the server's answer to its POST, not read yet
  got,     \* per writer: the server id its POST was answered with
  gone,    \* per writer: has it retired the copy its snapshot owes?
  demoted, \* per writer: did the policy re-scan demote its snapshot?
  copies,  \* what the servers store
  late,    \* POSTs given up on that a server may still process
  forbid,  \* scopes whose sensitivity policy now forbids the content
  held,    \* the copy of the row a caller of updateEngram has in hand
  want,    \* history: where the user last put the engram, and which edit of it
  lost,    \* history: attempts whose answer was not heard or not recorded
  ops, crashes

vars == <<row, keys, claim, lockBy, pc, snap, reply, got, gone, demoted,
          copies, late, forbid, held, want, lost, ops, crashes>>

----------------------------------------------------------------------------
(* Rows, claims and copies *)

NoRow == None
NoKey == 0
Keys == 1..MaxKeys
Scopes == Targets \union {Local}
Edits == 0..MaxOps
\* A server id: the server, the key it came with, and which copy of it.
Ids == Servers \X Keys \X (1..MaxCopies)

\* scope, _outbox.target_scope, its key, _retireRemote.server_id; `ver` stands
\* for the content.
Rows == [st : {"active", "retired"}, at : Scopes, ob : Targets \union {None},
         key : Keys \union {NoKey}, owe : Ids \union {None}, ver : Edits]
NewRow(t, k) == [st |-> "active", at |-> t, ob |-> t, key |-> k, owe |-> None, ver |-> 0]

Queued(r) == r # NoRow /\ r.st = "active" /\ r.ob # None
QueuedFor(r, t) == Queued(r) /\ r.ob = t
Unqueued(r) == [r EXCEPT !.ob = None, !.key = NoKey]

NoClaim == None
\* A claim by None is that of a live process which is not going to release it.
Claims == [by : Writers \union {None}, dead : BOOLEAN, lapsed : BOOLEAN]
Claimable == claim # NoClaim => claim.dead \/ claim.lapsed

Copies == [t : Targets, ver : Edits, live : BOOLEAN, known : BOOLEAN]
Stored(i) == copies[i] # None
CopiesOf(s, k) == {i \in Ids : i[1] = s /\ i[2] = k /\ Stored(i)}

Requests == [t : Targets, key : Keys, ver : Edits]
Request(w) == [t |-> snap[w].ob, key |-> snap[w].key, ver |-> snap[w].ver]

ASSUME NoneAssumption == None \notin Rows \union Ids \union Claims \union Copies

Waiting == {"learnWait", "routedWait", "flushWait"}
Stages == {"idle", "learnPush", "learnDone", "learnFailed", "routedSave", "flushRetire", "flushKey",
           "flushClaim", "flushCheck", "merge", "release"} \union Waiting

Init ==
  /\ \/ row = NoRow /\ want = [at |-> None, ver |-> 0]
     \* a row queued by an older client, without a key
     \/ \E t \in Targets : row = NewRow(t, NoKey) /\ want = [at |-> t, ver |-> 0]
     \* a row saved before its scope had a remote store
     \/ \E t \in Targets : /\ ~RemoteOnly
                            /\ row = Unqueued(NewRow(t, NoKey))
                            /\ want = [at |-> t, ver |-> 0]
  /\ keys = 0
  /\ claim = NoClaim
  /\ lockBy = None
  /\ pc = [w \in Writers |-> "idle"]
  /\ snap = [w \in Writers |-> NoRow]
  /\ reply = [w \in Writers |-> None]
  /\ got = [w \in Writers |-> None]
  /\ gone = [w \in Writers |-> FALSE]
  /\ demoted = [w \in Writers |-> FALSE]
  /\ copies = [i \in Ids |-> None]
  /\ late = {}
  /\ forbid = {}
  /\ held = NoRow
  /\ lost = 0
  /\ ops = 0
  /\ crashes = 0

Goto(w, l) == pc' = [pc EXCEPT ![w] = l]
Unlocked == lockBy = None
flushVars == <<gone, demoted>>
serverVars == <<copies, late>>
userVars == <<forbid, held, ops>>
faults == <<lost, crashes>>
Mine(w) == claim # NoClaim /\ claim.by = w /\ ~claim.dead
Forgotten(w) ==
  /\ snap' = [snap EXCEPT ![w] = NoRow]
  /\ got' = [got EXCEPT ![w] = None]
  /\ gone' = [gone EXCEPT ![w] = FALSE]
  /\ demoted' = [demoted EXCEPT ![w] = FALSE]
  /\ Goto(w, "idle")

----------------------------------------------------------------------------
(* learn and learnRouted *)

\* Nobody has saved the engram, or has it in hand.  One that was forgotten does not
\* come back: the same text is saved as another engram.
Unborn == /\ row = NoRow /\ keys = 0 /\ want.at = None
          /\ held = NoRow /\ \A w \in Writers : snap[w] = NoRow

\* learn: the row is saved with its outbox entry and its key, and the push is
\* launched, still under the store lock unless the store defers it.
Learn(w, t) ==
  /\ pc[w] = "idle" /\ Unborn /\ Unlocked
  /\ t \notin forbid /\ keys < MaxKeys
  /\ keys' = keys + 1
  /\ row' = NewRow(t, keys')
  /\ snap' = [snap EXCEPT ![w] = row']
  /\ want' = [at |-> t, ver |-> 0]
  /\ lockBy' = IF Transactional THEN None ELSE w
  /\ Goto(w, "learnPush")
  /\ UNCHANGED <<claim, reply, got, flushVars, serverVars, userVars, faults>>

\* The push of learn: claim, and POST what was saved; busy means another
\* writer is at it.
LearnPush(w) ==
  /\ pc[w] = "learnPush"
  /\ IF Claimable
       THEN /\ claim' = [by |-> w, dead |-> FALSE, lapsed |-> FALSE]
            /\ Goto(w, "learnWait")
       ELSE Goto(w, "release") /\ UNCHANGED claim
  /\ lockBy' = None
  /\ UNCHANGED <<row, keys, snap, reply, got, flushVars, serverVars, userVars, want, faults>>

\* Decision D1: the copy a remote accepted after its delivery was withdrawn is
\* owed a retirement.
QueueRetire(r, i) == [r EXCEPT !.owe = i]

\* Mutant: the row goes whatever has become of it.
LearnDoneBlind(w) ==
  /\ pc[w] = "learnDone" /\ Unlocked
  /\ row' = NoRow
  /\ got' = [got EXCEPT ![w] = None]
  /\ Goto(w, "release")
  /\ UNCHANGED <<keys, claim, lockBy, snap, reply, flushVars, serverVars, userVars, want, faults>>

\* The hand-off: the row goes if it is still queued for the store it went to.
LearnDone(w) ==
  /\ pc[w] = "learnDone" /\ Unlocked
  /\ row' = IF row = NoRow THEN NoRow
            ELSE IF QueuedFor(row, snap[w].ob) THEN NoRow
            ELSE QueueRetire(row, got[w])
  /\ got' = [got EXCEPT ![w] = None]
  /\ Goto(w, "release")
  /\ UNCHANGED <<keys, claim, lockBy, snap, reply, flushVars, serverVars, userVars, want, faults>>

\* The push has failed: that is noted on the row, and the claim released after it.
LearnFailed(w) ==
  /\ pc[w] = "learnFailed" /\ Unlocked
  /\ Goto(w, "release")
  /\ UNCHANGED <<row, keys, claim, lockBy, snap, reply, got, flushVars, serverVars, userVars, want, faults>>

\* The note cannot be written: the handler throws past the release, the row is
\* free for the next flush, and the claim stays.
NoteFails(w) ==
  /\ pc[w] = "learnFailed" /\ crashes < MaxCrashes
  /\ crashes' = crashes + 1
  /\ claim' = IF Mine(w) THEN [claim EXCEPT !.by = None] ELSE claim
  /\ Forgotten(w)
  /\ UNCHANGED <<row, keys, lockBy, reply, serverVars, userVars, want, lost>>

\* learnRouted: POST first, and keep a local row only if that failed.
Routed(w, t) ==
  /\ pc[w] = "idle" /\ Unborn
  /\ t \notin forbid /\ keys < MaxKeys
  /\ keys' = keys + 1
  /\ snap' = [snap EXCEPT ![w] = NewRow(t, keys')]
  /\ Goto(w, "routedWait")
  /\ UNCHANGED <<row, claim, lockBy, reply, got, flushVars, serverVars, userVars, want, faults>>

\* The same key as the failed attempt, which may have landed.
RoutedSave(w) ==
  /\ pc[w] = "routedSave" /\ Unlocked
  /\ row' = snap[w]
  /\ want' = [at |-> snap[w].ob, ver |-> 0]
  /\ Goto(w, "release")
  /\ UNCHANGED <<keys, claim, lockBy, snap, reply, got, flushVars, serverVars, userVars, faults>>
----------------------------------------------------------------------------
(* The network and the servers (docs/remote-store-contract.md) *)

\* For a key it has accepted, a key-honouring server gives its first answer
\* again; otherwise it stores a new copy.
Known(q) == ServerOf[q.t] \in Honours /\ CopiesOf(ServerOf[q.t], q.key) # {}
IdFor(q) ==
  LET there == CopiesOf(ServerOf[q.t], q.key)
  IN IF Known(q) THEN CHOOSE i \in there : TRUE
     ELSE <<ServerOf[q.t], q.key, Cardinality(there) + 1>>
Store(q) ==
  /\ IdFor(q) \in Ids
  /\ copies' = IF Known(q) THEN copies
               ELSE [copies EXCEPT ![IdFor(q)] =
                       [t |-> q.t, ver |-> q.ver, live |-> TRUE, known |-> FALSE]]

Serve(w) ==
  /\ pc[w] \in Waiting /\ reply[w] = None
  /\ Store(Request(w))
  /\ reply' = [reply EXCEPT ![w] = IdFor(Request(w))]
  /\ UNCHANGED <<row, keys, claim, lockBy, pc, snap, got, flushVars, late, userVars, want, faults>>

ServeLate(q) ==
  /\ q \in late
  /\ Store(q)
  /\ late' = late \ {q}
  /\ UNCHANGED <<row, keys, claim, lockBy, pc, snap, reply, got, flushVars, userVars, want, faults>>

\* The answer arrives.
Deliver(w) ==
  /\ pc[w] \in Waiting /\ reply[w] # None
  /\ copies' = [copies EXCEPT ![reply[w]].known = TRUE]
  /\ reply' = [reply EXCEPT ![w] = None]
  /\ IF pc[w] = "routedWait"
       THEN /\ want' = [at |-> snap[w].ob, ver |-> 0]
            /\ Goto(w, "release")
            /\ UNCHANGED got
       ELSE /\ got' = [got EXCEPT ![w] = reply[w]]
            /\ Goto(w, IF pc[w] = "learnWait" THEN "learnDone" ELSE "merge")
            /\ UNCHANGED want
  /\ UNCHANGED <<row, keys, claim, lockBy, snap, flushVars, late, userVars, faults>>

\* An error, a timeout or the caller's budget: the server may have stored the
\* write, may still store it, or may never have seen it.
Abandon(w) ==
  /\ reply' = [reply EXCEPT ![w] = None]
  /\ late' = IF reply[w] = None /\ pc[w] \in Waiting THEN late \union {Request(w)} ELSE late

GiveUp(w) ==
  /\ pc[w] \in Waiting /\ lost < MaxLost
  /\ Abandon(w)
  /\ lost' = lost + 1
  /\ Goto(w, CASE pc[w] = "learnWait"  -> "learnFailed"
               [] pc[w] = "routedWait" -> "routedSave"
               [] pc[w] = "flushWait"  -> "merge")
  /\ UNCHANGED <<row, keys, claim, lockBy, snap, got, flushVars, copies, userVars, want, crashes>>

Lost(q) ==
  /\ q \in late
  /\ late' = late \ {q}
  /\ UNCHANGED <<row, keys, claim, lockBy, pc, snap, reply, got, flushVars, copies, userVars, want, faults>>

----------------------------------------------------------------------------
(* flushOutbox *)

\* Selection: a row that owes a retirement is taken up in any case; a queued
\* one if its scope still is the one it was queued for (routeFor).  Stages the
\* snapshot does not need are passed over: keys, retirement, delivery.
ToPush(r) == IF Queued(r) /\ r.key # NoKey THEN "flushClaim"
             ELSE IF r.owe # None THEN "merge" ELSE "release"
ToRetire(r) == IF r.owe # None THEN "flushRetire" ELSE ToPush(r)

\* Mutant: only rows still to be delivered are taken up.
FlushQueuedOnly(w) ==
  /\ pc[w] = "idle" /\ Queued(row) /\ row.at = row.ob
  /\ snap' = [snap EXCEPT ![w] = row]
  /\ Goto(w, IF row.key = NoKey THEN "flushKey" ELSE ToRetire(row))
  /\ UNCHANGED <<row, keys, claim, lockBy, reply, got, flushVars, serverVars, userVars, want, faults>>

Flush(w) ==
  /\ pc[w] = "idle" /\ row # NoRow
  /\ row.owe # None \/ (Queued(row) /\ row.at = row.ob)
  /\ snap' = [snap EXCEPT ![w] = row]
  /\ Goto(w, IF Queued(row) /\ row.key = NoKey THEN "flushKey" ELSE ToRetire(row))
  /\ UNCHANGED <<row, keys, claim, lockBy, reply, got, flushVars, serverVars, userVars, want, faults>>

\* _persistMissingOutboxKeys, under the store lock; a row that has lost its
\* entry is not keyed, and a keyless snapshot is not posted.
FlushKey(w) ==
  /\ pc[w] = "flushKey" /\ Unlocked
  /\ IF row # NoRow /\ row.ob # None
       THEN /\ row.key = NoKey => keys < MaxKeys
            /\ keys' = IF row.key = NoKey THEN keys + 1 ELSE keys
            /\ row' = IF row.key = NoKey THEN [row EXCEPT !.key = keys'] ELSE row
            /\ snap' = [snap EXCEPT ![w].key = row'.key]
       ELSE UNCHANGED <<row, keys, snap>>
  /\ Goto(w, ToRetire(snap'[w]))
  /\ UNCHANGED <<claim, lockBy, reply, got, flushVars, serverVars, userVars, want, faults>>

\* removeIdempotent: the DELETE may fail, also after it took effect.
FlushRetire(w) ==
  /\ pc[w] = "flushRetire"
  /\ \E took, ok \in BOOLEAN :
       /\ ok => took
       /\ copies' = IF took THEN [copies EXCEPT ![snap[w].owe].live = FALSE] ELSE copies
       /\ gone' = [gone EXCEPT ![w] = ok]
  /\ Goto(w, ToPush(snap[w]))
  /\ UNCHANGED <<row, keys, claim, lockBy, snap, reply, got, demoted, late, userVars, want, faults>>

\* Nothing is posted, and the row stays as it is: the budget ran out, the host
\* is in cooldown, the entry is held back, or what it supersedes is not there yet.
Skip(w) == Goto(w, IF snap[w].owe # None THEN "merge" ELSE "release")

FlushDefer(w) ==
  /\ pc[w] \in {"flushClaim", "flushCheck"}
  /\ Skip(w)
  /\ UNCHANGED <<row, keys, claim, lockBy, snap, reply, got, flushVars, serverVars, userVars, want, faults>>

FlushClaim(w) ==
  /\ pc[w] = "flushClaim"
  /\ IF Claimable
       THEN /\ claim' = [by |-> w, dead |-> FALSE, lapsed |-> FALSE]
            /\ Goto(w, "flushCheck")
       ELSE Skip(w) /\ UNCHANGED claim
  /\ UNCHANGED <<row, keys, lockBy, snap, reply, got, flushVars, serverVars, userVars, want, faults>>

\* Mutant: the snapshot is pushed without a look at the row.
FlushCheckBlind(w) ==
  /\ pc[w] = "flushCheck"
  /\ Goto(w, IF snap[w].at = snap[w].ob THEN "flushWait" ELSE "merge")
  /\ UNCHANGED <<row, keys, claim, lockBy, snap, reply, got, flushVars, serverVars, userVars, want, faults>>

\* Mutant: a remote-only save is demoted like any other.
FlushCheckDemotes(w) ==
  /\ pc[w] = "flushCheck"
  /\ LET mine == Queued(row) /\ row.key = snap[w].key
         clear == snap[w].owe # None => gone[w]
         routed == snap[w].at = snap[w].ob
         offends == snap[w].ob \in forbid
     IN /\ IF ~mine THEN Skip(w)
           ELSE Goto(w, IF clear /\ routed /\ ~offends THEN "flushWait" ELSE "merge")
        /\ demoted' = [demoted EXCEPT ![w] = mine /\ clear /\ routed /\ offends]
  /\ UNCHANGED <<row, keys, claim, lockBy, snap, reply, got, gone, serverVars, userVars, want, faults>>

\* Under the claim: the row must still be queued under the key of the
\* snapshot, its owed retirement done, its scope the queued one, and the
\* content allowed by the policy of today; then the snapshot is posted.
FlushCheck(w) ==
  /\ pc[w] = "flushCheck"
  /\ LET mine == Queued(row) /\ row.key = snap[w].key
         clear == snap[w].owe # None => gone[w]
         routed == snap[w].at = snap[w].ob
         offends == snap[w].ob \in forbid
     IN /\ IF ~mine THEN Skip(w)
           ELSE Goto(w, IF clear /\ routed /\ ~offends THEN "flushWait" ELSE "merge")
        /\ demoted' = [demoted EXCEPT ![w] = mine /\ clear /\ routed /\ offends /\ ~RemoteOnly]
  /\ UNCHANGED <<row, keys, claim, lockBy, snap, reply, got, gone, serverVars, userVars, want, faults>>

\* Mutant: the key alone decides, wherever the row is to go by now.
HandedOffByKey(w) == Queued(row) /\ row.key = snap[w].key

\* The merge-back, into a fresh read of the row: a delivered row goes if it is
\* still the write that was admitted; a demotion is applied to a row that is
\* still queued; a retirement that is done is struck off.
HandedOff(w) ==
  /\ QueuedFor(row, snap[w].ob)
  /\ row.at = snap[w].ob
  /\ row.key = snap[w].key

\* Mutant: a row that was tried is taken for delivered.
MergedUnheard(w) ==
  IF row # NoRow /\ HandedOff(w) THEN NoRow ELSE row

Merged(w) ==
  IF row = NoRow THEN NoRow
  ELSE IF got[w] # None THEN IF HandedOff(w) THEN NoRow ELSE QueueRetire(row, got[w])
  ELSE IF demoted[w] /\ Queued(row) THEN [Unqueued(row) EXCEPT !.at = Local]
  ELSE row

StruckOff(r, w) ==
  IF r # NoRow /\ gone[w] /\ r.owe = snap[w].owe THEN [r EXCEPT !.owe = None] ELSE r

Merge(w) ==
  /\ pc[w] = "merge" /\ Unlocked
  /\ row' = StruckOff(Merged(w), w)
  /\ want' = IF row' # NoRow /\ row'.at # row.at THEN [want EXCEPT !.at = Local] ELSE want
  /\ got' = [got EXCEPT ![w] = None]
  /\ Goto(w, "release")
  /\ UNCHANGED <<keys, claim, lockBy, snap, reply, flushVars, serverVars, userVars, faults>>

\* The hand-off or the merge-back cannot be written: the row stays queued, and
\* the server's answer is forgotten.
SaveFails(w) ==
  /\ pc[w] \in {"learnDone", "merge"} /\ crashes < MaxCrashes
  /\ crashes' = crashes + 1
  /\ lost' = IF got[w] # None THEN lost + 1 ELSE lost
  /\ copies' = IF got[w] # None THEN [copies EXCEPT ![got[w]].known = FALSE] ELSE copies
  /\ got' = [got EXCEPT ![w] = None]
  /\ Goto(w, "release")
  /\ UNCHANGED <<row, keys, claim, lockBy, snap, reply, flushVars, late, userVars, want>>

\* Mutant: whoever releases removes the claim, also another writer's.
ReleaseAny(w) ==
  /\ pc[w] = "release"
  /\ claim' = NoClaim
  /\ Forgotten(w)
  /\ UNCHANGED <<row, keys, lockBy, reply, serverVars, userVars, want, faults>>

\* _releaseOutboxClaim: only a claim of one's own.
Release(w) ==
  /\ pc[w] = "release"
  /\ claim' = IF Mine(w) THEN NoClaim ELSE claim
  /\ Forgotten(w)
  /\ UNCHANGED <<row, keys, lockBy, reply, serverVars, userVars, want, faults>>

----------------------------------------------------------------------------
(* What the user does to the row meanwhile, under the store lock *)

UserOp(op) == op \in Ops /\ ops < MaxOps /\ ops' = ops + 1 /\ Unlocked
writerVars == <<claim, lockBy, pc, snap, reply, got, gone, demoted>>

\* forget retires the row and cancels its delivery ...
Forget ==
  /\ UserOp("forget")
  /\ ~RemoteOnly \/ ~Queued(row)
  /\ row # NoRow /\ row.st = "active"
  /\ row' = [Unqueued(row) EXCEPT !.st = "retired"]
  /\ want' = [want EXCEPT !.at = None]
  /\ UNCHANGED <<keys, writerVars, serverVars, forbid, held, faults>>

\* ... but deletes a save queued from a remote-only folder.
ForgetRemoteOnly ==
  /\ UserOp("forget")
  /\ RemoteOnly /\ Queued(row)
  /\ row' = NoRow
  /\ want' = [want EXCEPT !.at = None]
  /\ UNCHANGED <<keys, writerVars, serverVars, forbid, held, faults>>

\* rescope to a local scope, which cancels the delivery.
Rescope ==
  /\ UserOp("rescope")
  /\ ~RemoteOnly
  /\ row # NoRow /\ row.st = "active" /\ row.at # Local
  /\ row' = [Unqueued(row) EXCEPT !.at = Local]
  /\ want' = [want EXCEPT !.at = Local]
  /\ UNCHANGED <<keys, writerVars, serverVars, forbid, held, faults>>

\* rescope to another remote: a copy of its own is posted there, and the row is
\* retired with its outbox entry still on it.
RescopeAway ==
  /\ UserOp("rescope")
  /\ ~RemoteOnly
  /\ row # NoRow /\ row.st = "active"
  /\ row' = [row EXCEPT !.st = "retired"]
  /\ want' = [want EXCEPT !.at = None]
  /\ UNCHANGED <<keys, writerVars, serverVars, forbid, held, faults>>

\* uploadLocal queues a local row, as a new write with a key of its own; a row
\* the policy forbids is demoted instead.
Upload ==
  /\ UserOp("upload")
  /\ ~RemoteOnly
  /\ row # NoRow /\ row.st = "active" /\ row.at \in Targets /\ row.ob \in {None, row.at}
  /\ \/ /\ row.at \in forbid
        /\ row' = [Unqueued(row) EXCEPT !.at = Local]
        /\ want' = [want EXCEPT !.at = Local]
        /\ UNCHANGED keys
     \/ /\ row.at \notin forbid /\ row.ob = None /\ keys < MaxKeys
        /\ keys' = keys + 1
        /\ row' = [row EXCEPT !.ob = row.at, !.key = keys']
        /\ UNCHANGED want
  /\ UNCHANGED <<writerVars, serverVars, forbid, held, faults>>

\* A caller of updateEngram reads the row, and writes it back changed.
Read ==
  /\ "update" \in Ops /\ ops < MaxOps
  /\ held = NoRow /\ row # NoRow /\ row.st = "active"
  /\ held' = row
  /\ UNCHANGED <<row, keys, writerVars, serverVars, forbid, want, ops, faults>>

\* _reconcileQueuedScope: a queued row that moves is retargeted or cancelled,
\* keeping its key; otherwise the queue entry is the caller's.
Reconciled(s) ==
  LET moves == Queued(row) /\ s # row.at
      ob    == IF moves THEN (IF s = Local THEN None ELSE s)
               ELSE IF RemoteOnly THEN row.ob ELSE held.ob
      key   == IF ob = None THEN NoKey ELSE IF moves \/ RemoteOnly THEN row.key ELSE held.key
  IN [st |-> "active", at |-> s, ob |-> ob, key |-> key, owe |-> row.owe, ver |-> ops + 1]

\* The leak guard sends an update the policy forbids to the local scope.
Update(t) ==
  LET s == IF t \in forbid THEN Local ELSE t
  IN /\ UserOp("update")
     /\ held # NoRow
     /\ RemoteOnly /\ Queued(row) => s = row.at
     /\ IF row = NoRow
          THEN UNCHANGED <<row, want>>
          ELSE /\ row' = Reconciled(s)
               /\ want' = [at |-> s, ver |-> ops + 1]
     /\ held' = NoRow
     /\ UNCHANGED <<keys, writerVars, serverVars, forbid, faults>>

\* Somebody tightens the sensitivity policy of a scope.
Tighten(t) ==
  /\ UserOp("tighten")
  /\ forbid' = forbid \union {t}
  /\ UNCHANGED <<row, keys, writerVars, serverVars, held, want, faults>>

----------------------------------------------------------------------------
(* Crashes and clocks *)

\* The process dies; its claim and its rows stay, what it knew is gone.
Crash(w) ==
  /\ pc[w] # "idle" /\ crashes < MaxCrashes
  /\ crashes' = crashes + 1
  /\ lost' = IF pc[w] \in Waiting \/ got[w] # None THEN lost + 1 ELSE lost
  /\ Abandon(w)
  /\ claim' = IF Mine(w) THEN [claim EXCEPT !.dead = TRUE] ELSE claim
  /\ lockBy' = IF lockBy = w THEN None ELSE lockBy
  /\ copies' = IF got[w] = None THEN copies ELSE [copies EXCEPT ![got[w]].known = FALSE]
  /\ Forgotten(w)
  /\ UNCHANGED <<row, keys, forbid, held, want, ops>>

\* Mutant: a claim of this host is honoured while its process lives, whatever its age.
LapseOfOthers ==
  /\ MayLapse /\ claim # NoClaim /\ ~claim.lapsed /\ ~claim.dead
  /\ claim' = [claim EXCEPT !.lapsed = TRUE]
  /\ UNCHANGED <<row, keys, lockBy, pc, snap, reply, got, flushVars, serverVars, userVars, want, faults>>

\* The lease of a claim of another host is over, or the age cap of one of this host.
\* Without MayLapse that is later than any push takes.
Lapse ==
  /\ claim # NoClaim /\ ~claim.lapsed /\ ~claim.dead
  /\ MayLapse \/ claim.by = None
  /\ claim' = [claim EXCEPT !.lapsed = TRUE]
  /\ UNCHANGED <<row, keys, lockBy, pc, snap, reply, got, flushVars, serverVars, userVars, want, faults>>

----------------------------------------------------------------------------
User == Forget \/ ForgetRemoteOnly \/ Rescope \/ RescopeAway \/ Upload \/ Read \/ (\E s \in Scopes : Update(s))
          \/ \E t \in Targets : Tighten(t)

\* What a writer does by itself; the network answers or does not.
Step(w) ==
  \/ LearnPush(w) \/ LearnDone(w) \/ LearnFailed(w) \/ RoutedSave(w)
  \/ Flush(w) \/ FlushRetire(w) \/ FlushKey(w) \/ FlushClaim(w) \/ FlushCheck(w)
  \/ FlushDefer(w) \/ Merge(w) \/ Release(w)

Next ==
  \/ \E w \in Writers :
       \/ Step(w) \/ Serve(w) \/ Deliver(w) \/ GiveUp(w)
       \/ SaveFails(w) \/ NoteFails(w) \/ Crash(w)
       \/ \E t \in Targets : Learn(w, t) \/ Routed(w, t)
  \/ \E q \in late : ServeLate(q) \/ Lost(q)
  \/ User \/ Lapse

Spec == Init /\ [][Next]_vars

\* Every session start and every plur_sync flushes, so a writer that can take a
\* step takes it; the server answers what it was asked; and a host that is not
\* down for good is not always in cooldown, nor does it refuse every DELETE.  Time
\* passes: a claim that nobody releases comes to its age cap.
Fairness ==
  /\ \A w \in Writers :
       /\ WF_vars(Step(w)) /\ WF_vars(Serve(w)) /\ WF_vars(Deliver(w))
       /\ SF_vars(FlushClaim(w)) /\ SF_vars(FlushCheck(w))
       /\ SF_vars(FlushRetire(w) /\ gone'[w])
  /\ WF_vars(Lapse /\ claim.by = None)

FairSpec == Spec /\ Fairness

----------------------------------------------------------------------------
(* Properties *)

\* Rows, claims, requests, copies and counters are of their kinds; a stage that
\* pushes or retires has read a row with what it needs; and every server id a
\* row or a writer carries is that of a copy.
RowTypes ==
  /\ row \in Rows \union {NoRow}
  /\ keys \in 0..MaxKeys
  /\ claim \in Claims \union {NoClaim}
  /\ lockBy \in Writers \union {None}

WriterTypes ==
  /\ pc \in [Writers -> Stages]
  /\ snap \in [Writers -> Rows \union {NoRow}]
  /\ reply \in [Writers -> Ids \union {None}]
  /\ got \in [Writers -> Ids \union {None}]
  /\ gone \in [Writers -> BOOLEAN]
  /\ demoted \in [Writers -> BOOLEAN]

ServerTypes ==
  /\ copies \in [Ids -> Copies \union {None}]
  /\ late \subseteq Requests

UserTypes ==
  /\ forbid \subseteq Targets
  /\ held \in Rows \union {NoRow}
  /\ want \in [at : Scopes \union {None}, ver : Edits]
  /\ ops \in 0..MaxOps
  /\ crashes \in 0..MaxCrashes
  /\ lost \in 0..(MaxLost + crashes)

ToBePushed == {"learnPush", "routedSave", "flushClaim", "flushCheck"} \union Waiting

SetUp ==
  \A w \in Writers :
    /\ pc[w] # "idle" => snap[w] # NoRow
    /\ pc[w] = "flushKey" => Queued(snap[w])
    /\ pc[w] = "flushRetire" => snap[w].owe # None
    /\ pc[w] \in ToBePushed => Queued(snap[w]) /\ snap[w].key # NoKey

Owes(r) == r # NoRow /\ r.owe # None
Answered ==
  /\ Owes(row) => Stored(row.owe)
  /\ \A w \in Writers :
       /\ Owes(snap[w]) => Stored(snap[w].owe)
       /\ reply[w] # None => Stored(reply[w])
       /\ got[w] # None => Stored(got[w])

TypeOK == RowTypes /\ WriterTypes /\ ServerTypes /\ UserTypes /\ SetUp /\ Answered

\* Decision C3: two writers never push the entry at once (while claims do not
\* lapse under a live owner).
Pushing == {"learnWait", "flushWait"}
OnePusher ==
  \A v, w \in Writers : pc[v] \in Pushing /\ pc[w] \in Pushing => v = w

\* Retries are the only source of duplicates: of a write that was not moved to
\* another store meanwhile, a server holds at most one copy more than there were
\* attempts whose answer the client did not hear or could not record.  Two
\* writers racing for the same entry add none.
ConcurrencyAddsNoDuplicates ==
  \A s \in Servers, k \in Keys :
    Cardinality({i \in CopiesOf(s, k) : want.ver = 0 \/ copies[i].t = want.at}) <= 1 + lost

\* A row goes only when the store the user wants it in has a live copy.
LiveCopies(t) == {i \in Ids : Stored(i) /\ copies[i].live /\ copies[i].t = t}
NoLostWrite ==
  row = NoRow /\ want.at \in Targets => LiveCopies(want.at) # {}

\* Decision D1: a copy that a client knows of, in a store where the user does
\* not want the engram, is owed a retirement, or is about to be (its writer has
\* the answer in hand).
NoStrayCopy ==
  \A i \in Ids :
    Stored(i) /\ copies[i].live /\ copies[i].known =>
      \/ copies[i].t = want.at
      \/ row # NoRow /\ row.owe = i
      \/ \E w \in Writers : got[w] = i

\* A save from a remote-only folder is delivered or deleted, never kept as a
\* local row, whatever the policy says by then and whatever its update holds.
RemoteOnlyNeverLocal ==
  RemoteOnly /\ row # NoRow => Queued(row) /\ row.at \in Targets

\* A push settles only the delivery it judged: a row that has been retargeted
\* to another store meanwhile stays queued for that store.
RetargetSurvives ==
  [][\A w \in Writers :
       (Merge(w) \/ LearnDone(w)) /\ Queued(row) /\ row.ob # snap[w].ob
         => row' # NoRow /\ row'.ob = row.ob]_vars

\* A queued write leaves the queue in the end: delivered, withdrawn or demoted.
EventuallyDelivered == Queued(row) ~> ~Queued(row)

\* A copy that is owed a retirement is retired in the end, whatever
\* crashes and cancellations there were before.
EventuallyRetired ==
  \A i \in Ids : (row # NoRow /\ row.owe = i) ~> (Stored(i) /\ ~copies[i].live)
=============================================================================
