----------------------------- MODULE StoreLock -----------------------------
(***************************************************************************)
(* The store lock of store/async-lock.ts and its synchronous twin in       *)
(* sync.ts: a lock FILE beside the store, published whole under the        *)
(* holder's token, taken over when its holder is dead (or cannot be probed *)
(* and has gone stale), and removed by its holder on release.              *)
(*                                                                         *)
(* One process contends at most once at a time (the in-process queue of    *)
(* async-mutex.ts sees to it: module AsyncMutex).  Each system call that   *)
(* touches a shared path is a step of its own.                             *)
(***************************************************************************)
EXTENDS Naturals, FiniteSets

CONSTANTS
  Procs,       \* processes that share the store
  HostOf,      \* the machine each runs on: a pid can be probed on its own host only
  Inos,        \* bound: inode numbers of the store's filesystem; freed ones are reused
  HardLinks,   \* does the filesystem have hard links?
  MayStall,    \* who may stop longer than its age threshold while alive
  Slots,       \* STEAL_GUARD_SLOTS
  MaxAcq,      \* bound: acquisitions per process
  MaxCrashes,  \* bound: processes that die
  None         \* no file

Roles == {"holder", "stealer", "creator"}

ASSUME ConstAssumption ==
  /\ HardLinks \in BOOLEAN
  /\ MayStall \subseteq Roles
  /\ Slots \in Nat \ {0}
  /\ MaxAcq \in Nat
  /\ MaxCrashes \in Nat
  /\ HostOf \in [Procs -> {HostOf[p] : p \in Procs}]

VARIABLES
  alive,   \* is the process running?
  pc,      \* where its acquisition stands
  acq,     \* acquisitions it has started: with the process, its token
  lock,    \* the file at the lock path, or None
  slots,   \* the guard files of the steal ladders, by <<judged contents, rung>>
  seen,    \* per process: the contents and inode it judged abandoned
  rung,    \* per process: the ladder rung it stands on
  chk,     \* per process: the rung its verification or clean-up has reached
  claim,   \* per process: the file it renamed away, or None
  open     \* per process: the inode of a file it created and has not written

vars == <<alive, pc, acq, lock, slots, seen, rung, chk, claim, open>>

----------------------------------------------------------------------------
(* Tokens and files *)

\* makeToken: host, pid and a counter, unique to one acquisition.
Tokens == Procs \X (1..MaxAcq)
Token(p) == <<p, acq[p]>>

\* A file's contents are its token, or "" between its create and its write.
Empty == <<None, 0>>
Contents == Tokens \union {Empty}
Files == [ino : Inos, tok : Tokens, full : BOOLEAN, old : BOOLEAN]
File(i, t, full, old) == [ino |-> i, tok |-> t, full |-> full, old |-> old]
Content(f) == IF f.full THEN f.tok ELSE Empty

Rungs == 0..(Slots - 1)
SlotPaths == Contents \X Rungs
Guards == [by : Procs, full : BOOLEAN, old : BOOLEAN]
Guard(p, full, old) == [by |-> p, full |-> full, old |-> old]
NoFile == None

\* What a stealer remembers of the lock it judged.
Judgements == [key : Contents, ino : Inos]

ASSUME NoneAssumption ==
  /\ None \notin Procs
  /\ None \notin Inos
  /\ None \notin Files
  /\ None \notin Guards
  /\ None \notin Judgements

SameHost(p, q) == HostOf[p] = HostOf[q]

\* Mutants: age taken for dead at once, and never consulted.
AbandonedAtOnce(p, f) ==
  IF f.full /\ SameHost(p, f.tok[1]) THEN ~alive[f.tok[1]] ELSE TRUE
AbandonedIfProbed(p, f) ==
  IF f.full /\ SameHost(p, f.tok[1]) THEN ~alive[f.tok[1]] ELSE FALSE

\* holderIsAlive and abandonedByAge: a holder on the judge's own host is
\* probed, and its age is then never consulted; of any other holder, and of an
\* empty file, age is all there is.
Abandoned(p, f) ==
  IF f.full /\ SameHost(p, f.tok[1]) THEN ~alive[f.tok[1]] ELSE f.old

\* judgeStealSlot, the same judgement of a guard file.
SlotDead(p, g) ==
  IF g.full /\ SameHost(p, g.by) THEN ~alive[g.by] ELSE g.old

\* The inodes in use: at the lock path, renamed aside, or still open.
UsedInos ==
  (IF lock = NoFile THEN {} ELSE {lock.ino})
    \union {claim[p].ino : p \in {q \in Procs : claim[q] # NoFile}}
    \union {open[p] : p \in Procs}
FreeInos == Inos \ UsedInos
FreshIno == CHOOSE i \in Inos : i \in FreeInos

At(p, l) == alive[p] /\ pc[p] = l
Goto(p, l) == pc' = [pc EXCEPT ![p] = l]

HoldingStages == {"hold", "relRead", "relUnlink"}
CreatorStages == {"write", "check"}
GuardStages == {"slotWrite", "verify", "reinspect", "rename", "confirm",
                "putback", "putWrite", "clear", "unguard", "unguardUnlink"}
Stages == {"idle", "publish", "retry", "judge", "ladder"}
            \union HoldingStages \union CreatorStages \union GuardStages

Init ==
  /\ alive = [p \in Procs |-> TRUE]
  /\ pc = [p \in Procs |-> "idle"]
  /\ acq = [p \in Procs |-> 0]
  /\ lock = NoFile
  /\ slots = [x \in SlotPaths |-> NoFile]
  /\ seen = [p \in Procs |-> None]
  /\ rung = [p \in Procs |-> 0]
  /\ chk = [p \in Procs |-> 0]
  /\ claim = [p \in Procs |-> NoFile]
  /\ open = [p \in Procs |-> None]

----------------------------------------------------------------------------
(* Publishing the lock: publishLockFile *)

Start(p) ==
  /\ At(p, "idle")
  /\ acq[p] < MaxAcq
  /\ acq' = [acq EXCEPT ![p] = @ + 1]
  /\ Goto(p, "publish")
  /\ UNCHANGED <<alive, lock, slots, seen, rung, chk, claim, open>>

\* With hard links the file appears with its token in it, or not at all.
Link(p) ==
  /\ HardLinks
  /\ At(p, "publish") \/ At(p, "retry")
  /\ FreeInos # {}
  /\ IF lock = NoFile
       THEN /\ lock' = File(FreshIno, Token(p), TRUE, FALSE)
            /\ Goto(p, "hold")
       ELSE /\ Goto(p, "judge")
            /\ UNCHANGED lock
  /\ UNCHANGED <<alive, acq, slots, seen, rung, chk, claim, open>>

\* Without them: create it empty, write the token, then check that the path
\* still names the file that was written.
CreateEmpty(p) ==
  /\ ~HardLinks
  /\ At(p, "publish") \/ At(p, "retry")
  /\ FreeInos # {}
  /\ IF lock = NoFile
       THEN /\ lock' = File(FreshIno, Token(p), FALSE, FALSE)
            /\ open' = [open EXCEPT ![p] = FreshIno]
            /\ Goto(p, "write")
       ELSE /\ Goto(p, "judge")
            /\ UNCHANGED <<lock, open>>
  /\ UNCHANGED <<alive, acq, slots, seen, rung, chk, claim>>

\* The write goes to the inode, wherever the file has been moved to.
Written(f, i) ==
  IF f # NoFile /\ f.ino = i THEN File(f.ino, f.tok, TRUE, FALSE) ELSE f

WriteToken(p) ==
  /\ At(p, "write")
  /\ lock' = Written(lock, open[p])
  /\ claim' = [q \in Procs |-> Written(claim[q], open[p])]
  /\ Goto(p, "check")
  /\ UNCHANGED <<alive, acq, slots, seen, rung, chk, open>>

CheckInode(p) ==
  /\ At(p, "check")
  /\ open' = [open EXCEPT ![p] = None]
  /\ Goto(p, IF lock # NoFile /\ lock.ino = open[p] THEN "hold" ELSE "judge")
  /\ UNCHANGED <<alive, acq, lock, slots, seen, rung, chk, claim>>

\* The acquire deadline is checked at the top of every attempt but the first.
GiveUp(p) ==
  /\ At(p, "retry")
  /\ Goto(p, "idle")
  /\ UNCHANGED <<alive, acq, lock, slots, seen, rung, chk, claim, open>>

\* What EEXIST leads to.  The waiter's own judgement is only a hint: takeOver
\* inspects the file afresh, and it is that inspection which is modelled.
Judge(p) ==
  /\ At(p, "judge")
  /\ IF lock # NoFile /\ Content(lock) = Token(p)
       THEN Goto(p, "hold") /\ UNCHANGED seen
     ELSE IF lock # NoFile /\ Abandoned(p, lock)
       THEN /\ seen' = [seen EXCEPT ![p] = [key |-> Content(lock), ino |-> lock.ino]]
            /\ Goto(p, "ladder")
     ELSE Goto(p, "retry") /\ UNCHANGED seen
  /\ UNCHANGED <<alive, acq, lock, slots, rung, chk, claim, open>>

----------------------------------------------------------------------------
(* The steal ladder: acquireStealSlot *)

\* stealGuardPath: the ladder is keyed by the contents of the judged lock.
SlotAt(p, k) == <<seen[p].key, k>>
\* The guard file a process stands on.
MySlot(p) == SlotAt(p, rung[p])

\* Back to the loop of withFileLock, with no guard left behind.
Retreat(p) ==
  /\ Goto(p, "retry")
  /\ seen' = [seen EXCEPT ![p] = None]
  /\ rung' = [rung EXCEPT ![p] = 0]
  /\ chk' = [chk EXCEPT ![p] = 0]

\* The lowest free rung above a run of dead ones; a live guard sends the
\* stealer away.
Climb(p) ==
  /\ At(p, "ladder")
  /\ IF rung[p] = Slots
       THEN Retreat(p) /\ UNCHANGED slots
     ELSE IF slots[MySlot(p)] = NoFile
       THEN /\ slots' = [slots EXCEPT ![MySlot(p)] = Guard(p, FALSE, FALSE)]
            /\ Goto(p, "slotWrite")
            /\ UNCHANGED <<seen, rung, chk>>
     ELSE IF SlotDead(p, slots[MySlot(p)])
       THEN /\ rung' = [rung EXCEPT ![p] = @ + 1]
            /\ UNCHANGED <<pc, slots, seen, chk>>
     ELSE Retreat(p) /\ UNCHANGED slots
  /\ UNCHANGED <<alive, acq, lock, claim, open>>

\* The second half of the guard's O_EXCL create; a guard unlinked meanwhile
\* takes the write with it.
WriteSlot(p) ==
  /\ At(p, "slotWrite")
  /\ slots' = [slots EXCEPT ![MySlot(p)] =
                 IF @ # NoFile /\ @.by = p THEN Guard(p, TRUE, FALSE) ELSE @]
  /\ Goto(p, "verify")
  /\ UNCHANGED <<alive, acq, lock, seen, rung, chk, claim, open>>

\* Every lower rung must still exist and still be dead.
Verify(p) ==
  /\ At(p, "verify")
  /\ IF chk[p] = rung[p]
       THEN Goto(p, "reinspect") /\ UNCHANGED chk
     ELSE LET below == slots[SlotAt(p, chk[p])] IN
          IF below # NoFile /\ SlotDead(p, below)
            THEN chk' = [chk EXCEPT ![p] = @ + 1] /\ UNCHANGED pc
          ELSE Goto(p, "unguard") /\ UNCHANGED chk
  /\ UNCHANGED <<alive, acq, lock, slots, seen, rung, claim, open>>

----------------------------------------------------------------------------
(* The steal: the rest of takeOver, and stealLock *)

\* Mutant: the judgement made before the guard was taken is trusted.
ReinspectSkipped(p) ==
  /\ At(p, "reinspect")
  /\ Goto(p, "rename")
  /\ UNCHANGED <<alive, acq, lock, slots, seen, rung, chk, claim, open>>

\* Same contents, same inode and still abandoned, or hands off.
Reinspect(p) ==
  /\ At(p, "reinspect")
  /\ Goto(p, IF /\ lock # NoFile
                /\ [key |-> Content(lock), ino |-> lock.ino] = seen[p]
                /\ Abandoned(p, lock)
             THEN "rename" ELSE "unguard")
  /\ UNCHANGED <<alive, acq, lock, slots, seen, rung, chk, claim, open>>

\* rename moves whatever is at the path by now.
Rename(p) ==
  /\ At(p, "rename")
  /\ claim' = [claim EXCEPT ![p] = lock]
  /\ lock' = NoFile
  /\ Goto(p, IF lock = NoFile THEN "unguard" ELSE "confirm")
  /\ UNCHANGED <<alive, acq, slots, seen, rung, chk, open>>

Confirm(p) ==
  /\ At(p, "confirm")
  /\ IF [key |-> Content(claim[p]), ino |-> claim[p].ino] = seen[p]
       THEN /\ claim' = [claim EXCEPT ![p] = NoFile]
            /\ chk' = [chk EXCEPT ![p] = 0]
            /\ Goto(p, "clear")
       ELSE Goto(p, "putback") /\ UNCHANGED <<claim, chk>>
  /\ UNCHANGED <<alive, acq, lock, slots, seen, rung, open>>

\* Not the file that was judged: put it back, unless the path has been taken.
\* Without hard links the copy is a new file, created first and written second.
PutBack(p) ==
  /\ At(p, "putback")
  /\ IF lock # NoFile
       THEN claim' = [claim EXCEPT ![p] = NoFile] /\ Goto(p, "unguard") /\ UNCHANGED <<lock, open>>
     ELSE IF HardLinks
       THEN /\ lock' = claim[p]
            /\ claim' = [claim EXCEPT ![p] = NoFile]
            /\ Goto(p, "unguard")
            /\ UNCHANGED open
     ELSE /\ FreeInos # {}
          /\ lock' = File(FreshIno, claim[p].tok, FALSE, FALSE)
          /\ open' = [open EXCEPT ![p] = FreshIno]
          /\ Goto(p, "putWrite")
          /\ UNCHANGED claim
  /\ UNCHANGED <<alive, acq, slots, seen, rung, chk>>

PutBackWrite(p) ==
  /\ At(p, "putWrite")
  /\ lock' = IF claim[p].full THEN Written(lock, open[p]) ELSE lock
  /\ claim' = [q \in Procs |-> IF q = p THEN NoFile
                               ELSE IF claim[p].full THEN Written(claim[q], open[p]) ELSE claim[q]]
  /\ open' = [open EXCEPT ![p] = None]
  /\ Goto(p, "unguard")
  /\ UNCHANGED <<alive, acq, slots, seen, rung, chk>>

\* clearStealSlots: after a confirmed claim every other rung of the ladder goes.
Clear(p) ==
  /\ At(p, "clear")
  /\ IF chk[p] = Slots
       THEN Goto(p, "unguard") /\ UNCHANGED <<slots, chk>>
       ELSE /\ chk' = [chk EXCEPT ![p] = @ + 1]
            /\ slots' = IF chk[p] = rung[p] THEN slots
                        ELSE [slots EXCEPT ![SlotAt(p, chk[p])] = NoFile]
            /\ UNCHANGED pc
  /\ UNCHANGED <<alive, acq, lock, seen, rung, claim, open>>

\* releaseIfOurs on the guard: read it, and unlink it if it was ours.
Unguard(p) ==
  /\ At(p, "unguard")
  /\ IF slots[MySlot(p)] # NoFile /\ slots[MySlot(p)].by = p /\ slots[MySlot(p)].full
       THEN Goto(p, "unguardUnlink") /\ UNCHANGED <<seen, rung, chk>>
       ELSE Retreat(p)
  /\ UNCHANGED <<alive, acq, lock, slots, claim, open>>

UnguardUnlink(p) ==
  /\ At(p, "unguardUnlink")
  /\ slots' = [slots EXCEPT ![MySlot(p)] = NoFile]
  /\ Retreat(p)
  /\ UNCHANGED <<alive, acq, lock, claim, open>>

----------------------------------------------------------------------------
(* Holding and releasing *)

\* touchIfOurs, from the heartbeat timer or before a git command.
Heartbeat(p) ==
  /\ At(p, "hold")
  /\ lock # NoFile /\ Content(lock) = Token(p) /\ lock.old
  /\ lock' = File(lock.ino, lock.tok, lock.full, FALSE)
  /\ UNCHANGED <<alive, pc, acq, slots, seen, rung, chk, claim, open>>

\* The critical section returns or throws; the heartbeat stops.
Leave(p) ==
  /\ At(p, "hold")
  /\ Goto(p, "relRead")
  /\ UNCHANGED <<alive, acq, lock, slots, seen, rung, chk, claim, open>>

\* releaseIfOurs on the lock: read, compare, and then unlink the path.
ReleaseRead(p) ==
  /\ At(p, "relRead")
  /\ Goto(p, IF lock # NoFile /\ Content(lock) = Token(p) THEN "relUnlink" ELSE "idle")
  /\ UNCHANGED <<alive, acq, lock, slots, seen, rung, chk, claim, open>>

ReleaseUnlink(p) ==
  /\ At(p, "relUnlink")
  /\ lock' = NoFile
  /\ Goto(p, "idle")
  /\ UNCHANGED <<alive, acq, slots, seen, rung, chk, claim, open>>

----------------------------------------------------------------------------
(* The environment: crashes and the passing of time *)

\* A process dies and leaves all its files where they are.
Crash(p) ==
  /\ alive[p] /\ pc[p] # "idle"
  /\ Cardinality({q \in Procs : ~alive[q]}) < MaxCrashes
  /\ alive' = [alive EXCEPT ![p] = FALSE]
  /\ Goto(p, "idle")
  /\ seen' = [seen EXCEPT ![p] = None]
  /\ rung' = [rung EXCEPT ![p] = 0]
  /\ chk' = [chk EXCEPT ![p] = 0]
  /\ open' = [open EXCEPT ![p] = None]
  /\ UNCHANGED <<acq, lock, slots, claim>>

\* Who still keeps the lock file young: its heartbeating holder, or, while it
\* is empty, the process about to write it.
KeepsLockYoung(p) ==
  /\ alive[p]
  /\ \/ lock.full /\ lock.tok = Token(p) /\ pc[p] \in HoldingStages \union {"check"}
        /\ "holder" \notin MayStall
     \/ ~lock.full /\ lock.ino = open[p] /\ pc[p] \in {"write", "putWrite"}
        /\ "creator" \notin MayStall

\* A guard is held for a few system calls.
KeepsGuardYoung(p, x) ==
  /\ alive[p] /\ slots[x].by = p /\ pc[p] \in GuardStages /\ x = MySlot(p)
  /\ "stealer" \notin MayStall

\* Age is only consulted by a process that cannot probe the writer; a file
\* that no such process can meet is left young.
AgeMatters(full, writer) ==
  ~full \/ \E q \in Procs : alive[q] /\ ~SameHost(q, writer)

LockAges ==
  /\ lock # NoFile /\ ~lock.old
  /\ AgeMatters(lock.full, lock.tok[1])
  /\ \A p \in Procs : ~KeepsLockYoung(p)
  /\ lock' = File(lock.ino, lock.tok, lock.full, TRUE)
  /\ UNCHANGED <<alive, pc, acq, slots, seen, rung, chk, claim, open>>

GuardAges(x) ==
  /\ slots[x] # NoFile /\ ~slots[x].old
  /\ AgeMatters(slots[x].full, slots[x].by)
  /\ \A p \in Procs : ~KeepsGuardYoung(p, x)
  /\ slots' = [slots EXCEPT ![x] = Guard(@.by, @.full, TRUE)]
  /\ UNCHANGED <<alive, pc, acq, lock, seen, rung, chk, claim, open>>

----------------------------------------------------------------------------
\* What a process does by itself once it has asked for the lock.
Step(p) ==
  \/ Link(p) \/ CreateEmpty(p) \/ WriteToken(p) \/ CheckInode(p) \/ Judge(p)
  \/ Climb(p) \/ WriteSlot(p) \/ Verify(p) \/ Reinspect(p) \/ Rename(p)
  \/ Confirm(p) \/ PutBack(p) \/ PutBackWrite(p) \/ Clear(p)
  \/ Unguard(p) \/ UnguardUnlink(p)
  \/ Leave(p) \/ ReleaseRead(p) \/ ReleaseUnlink(p)

Ages == LockAges \/ \E x \in SlotPaths : GuardAges(x)

Next ==
  \/ \E p \in Procs : Start(p) \/ Step(p) \/ GiveUp(p) \/ Heartbeat(p) \/ Crash(p)
  \/ Ages

Spec == Init /\ [][Next]_vars

\* Every live process is scheduled, critical sections end, and time passes.
\* Nothing is assumed of new requests, of crashes, or of the deadline.
Fairness ==
  /\ \A p \in Procs : WF_vars(Step(p))
  /\ WF_vars(LockAges)
  /\ \A x \in SlotPaths : WF_vars(GuardAges(x))

FairSpec == Spec /\ Fairness

----------------------------------------------------------------------------
(* Properties *)

\* Every variable holds a value the code could hold in it.
ProcTypes ==
  /\ alive \in [Procs -> BOOLEAN]
  /\ pc \in [Procs -> Stages]
  /\ acq \in [Procs -> 0..MaxAcq]

FileTypes ==
  /\ lock \in Files \union {NoFile}
  /\ claim \in [Procs -> Files \union {NoFile}]
  /\ open \in [Procs -> Inos \union {None}]

GuardTypes == slots \in [SlotPaths -> Guards \union {NoFile}]

StealTypes ==
  /\ seen \in [Procs -> Judgements \union {None}]
  /\ rung \in [Procs -> 0..Slots]
  /\ chk \in [Procs -> 0..Slots]

TypeOK == ProcTypes /\ FileTypes /\ GuardTypes /\ StealTypes

InCriticalSection(p) == At(p, "hold")

\* At most one live process is inside the critical section guarded by the
\* lock (withFileLock runs fn only once it has acquired).
MutualExclusion ==
  \A p, q \in Procs : InCriticalSection(p) /\ InCriticalSection(q) => p = q

\* "A live holder is waited for, never stolen from": while a live process is
\* in its critical section, the file at the lock path is its own.
LiveHolderKeepsLock ==
  \A p \in Procs :
    InCriticalSection(p) => lock # NoFile /\ Content(lock) = Token(p)

\* The rename claim of stealLock only ever moves aside the very file that its
\* process judged abandoned: the put-back branch is never taken.
ClaimIsJudgedFile ==
  \A p \in Procs :
    At(p, "confirm") => [key |-> Content(claim[p]), ino |-> claim[p].ino] = seen[p]

\* A guard file of a live process belongs to the takeover it is in the middle
\* of: a stealer that backs off, is overtaken, or has its guard cleared leaves
\* none behind that would block the ladder.
NoGuardLeftBehind ==
  \A x \in SlotPaths : \A p \in Procs :
    slots[x] # NoFile /\ slots[x].by = p /\ alive[p]
      => pc[p] \in GuardStages /\ x = MySlot(p)

\* A process removes the lock on release only if the file still carries its
\* own token (releaseIfOurs).
ReleaseRemovesOwn ==
  [][\A p \in Procs :
       ReleaseUnlink(p) /\ lock # NoFile => Content(lock) = Token(p)]_vars

\* A lock whose holder died does not outlive the interest in it: it is taken
\* over, unless every live process stops asking.
LockLeftBy(t) == lock # NoFile /\ lock.tok = t /\ ~alive[t[1]]
NobodyAsks == \A p \in Procs : alive[p] => pc[p] = "idle"

CrashedHolderIsReplaced ==
  \A t \in Tokens : LockLeftBy(t) ~> ~LockLeftBy(t) \/ NobodyAsks

\* The lock implements StoreMutex: dead processes are outside, a process holds
\* the abstract lock exactly while it runs its critical section.
StageOf(p) ==
  IF ~alive[p] \/ pc[p] \in {"idle", "relRead", "relUnlink"} THEN "out"
  ELSE IF pc[p] = "hold" THEN "in" ELSE "waiting"

Abs == INSTANCE StoreMutex WITH stage <- [p \in Procs |-> StageOf(p)]

ImplementsStoreMutex == Abs!AbsSpec
----------------------------------------------------------------------------
(* The inductive invariants.  TypeInv holds in every configuration; LockInv, *)
(* which MutualExclusion follows from, on a filesystem with hard links and   *)
(* with nobody stalled past an age threshold.                                *)

\* What a process has set up by the time it gets to a stage.
SetUp ==
  \A p \in Procs :
    /\ pc[p] # "idle" => acq[p] >= 1
    /\ pc[p] \in {"ladder"} \union GuardStages => seen[p] # None
    /\ pc[p] \notin GuardStages \ {"slotWrite"} => chk[p] = 0
    /\ pc[p] = "verify" => chk[p] <= rung[p]
    /\ pc[p] \in {"reinspect", "rename"} => chk[p] = rung[p]
    /\ pc[p] \in {"confirm", "putback", "putWrite"} => claim[p] # NoFile

TypeInv == TypeOK /\ SetUp

\* The stages that only the create-then-write fallback and the put-back reach.
NoFallback ==
  /\ \A p \in Procs : pc[p] \notin CreatorStages \union {"putback", "putWrite"}
  /\ lock # NoFile => lock.full

\* The lock file of a live process is the one that process is holding, and
\* the file of a live holder is at the lock path.
HeldByOwner ==
  /\ \A p \in Procs :
       alive[p] /\ pc[p] \in HoldingStages => lock # NoFile /\ lock.tok = Token(p)
  /\ lock # NoFile /\ alive[lock.tok[1]]
       => pc[lock.tok[1]] \in HoldingStages /\ lock.tok = Token(lock.tok[1])

\* Only what a dead process left behind grows old.
OldIsDead ==
  /\ lock # NoFile /\ lock.old => ~alive[lock.tok[1]]
  /\ \A x \in SlotPaths :
       slots[x] # NoFile /\ slots[x].old => ~alive[slots[x].by]

\* A guard of a live process without a token in it is about to get one.
GuardWritten ==
  \A x \in SlotPaths :
    slots[x] # NoFile /\ ~slots[x].full /\ alive[slots[x].by] => pc[slots[x].by] = "slotWrite"

\* A takeover is of a dead holder's lock, from a rung of that lock's ladder.
StealsFromDead ==
  \A p \in Procs : alive[p] /\ pc[p] \in {"ladder"} \union GuardStages =>
    /\ seen[p].key \in Tokens
    /\ ~alive[seen[p].key[1]]
    /\ pc[p] \in GuardStages => rung[p] \in Rungs

\* Is the lock that p judged still at the lock path?
StillThere(p) == lock # NoFile /\ seen[p] # None /\ lock.tok = seen[p].key

OwnGuard(p) == slots[MySlot(p)] # NoFile /\ slots[MySlot(p)].by = p

DeadBelow(p, k) ==
  \A i \in Rungs : i < k =>
    slots[SlotAt(p, i)] # NoFile /\ ~alive[slots[SlotAt(p, i)].by]

\* While it is, p's guard stands, and so do the dead rungs p has verified.
LadderStands ==
  \A p \in Procs : alive[p] /\ StillThere(p) =>
    /\ pc[p] \in GuardStages => OwnGuard(p)
    /\ pc[p] \in {"verify", "reinspect", "rename"} => DeadBelow(p, chk[p])

\* Before the rename the judged file is there to be renamed; after it, it is
\* gone from the lock path for good.
StealWindow ==
  \A p \in Procs : alive[p] =>
    /\ pc[p] = "rename" => StillThere(p) /\ lock.ino = seen[p].ino
    /\ pc[p] = "confirm" =>
         /\ claim[p] # NoFile /\ claim[p].full
         /\ claim[p].tok = seen[p].key /\ claim[p].ino = seen[p].ino
    /\ pc[p] \in {"confirm", "clear"} => ~StillThere(p)

LockInv ==
  /\ TypeInv /\ NoFallback /\ HeldByOwner /\ OldIsDead /\ NoGuardLeftBehind
  /\ GuardWritten /\ StealsFromDead /\ LadderStands /\ StealWindow
============================================================================
