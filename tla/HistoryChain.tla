---------------------------- MODULE HistoryChain ----------------------------
(***************************************************************************)
(* The appends to the hash-chained history log (history.ts): under the     *)
(* chain lock, with the torn tail of a dead writer dropped and the         *)
(* predecessor taken from the caches or the file; without the lock, when it *)
(* cannot be had, as a declared gap.                                       *)
(*                                                                         *)
(* A write is one system call, and nobody sees half of it unless its writer *)
(* dies.  The lock of a dead process is taken over (module StoreLock).  The *)
(* size a cached head is checked against counts lines, so that a fragment  *)
(* may be as long as an event.                                             *)
(***************************************************************************)
EXTENDS VerifyChain

CONSTANTS
  Procs,       \* processes, each with its own head cache
  MaxMonth,    \* bound: months
  MaxEvents,   \* bound: events
  MaxBatch,    \* bound: events of one append
  MaxCrashes,  \* bound: deaths
  None

ASSUME HistoryAssumption ==
  /\ MaxMonth \in Nat \ {0} /\ MaxBatch \in Nat \ {0}
  /\ MaxEvents \in Nat /\ MaxCrashes \in Nat
  /\ None \notin Procs

VARIABLES
  log,     \* the month files
  now,     \* the current month
  holder,  \* who has the chain lock, or None
  pc,      \* where each process stands
  batch,   \* per process: its events, by id
  stamp,   \* per process: the month of their time stamp
  file,    \* per process: the month file it appends to
  fresh,   \* per process: does its append begin with a newline?
  keep,    \* per process: the lines it keeps of a file with a torn tail
  prev,    \* per process: the predecessor it found
  mem,     \* per process: the head it remembers, or NoHead
  side,    \* the .chain-head file, or NoHead
  begun,   \* history: events so far
  done,    \* history: events whose append has returned true
  torn,    \* history: has a writer died in the middle of a line?
  hollow,  \* history: has one died after it made a file, before its first line?
  bare,    \* history: events of the largest append without the lock
  crashes

vars == <<log, now, holder, pc, batch, stamp, file, fresh, keep, prev, mem, side,
          begun, done, torn, hollow, bare, crashes>>

Months == 1..MaxMonth
Ids == 1..MaxEvents
NoHead == None
Init ==
  /\ log = [m \in Months |-> NoFile]
  /\ now = 1
  /\ holder = None
  /\ pc = [p \in Procs |-> "idle"]
  /\ batch = [p \in Procs |-> <<>>]
  /\ stamp = [p \in Procs |-> 1]
  /\ file = [p \in Procs |-> 1]
  /\ fresh = [p \in Procs |-> FALSE]
  /\ keep = [p \in Procs |-> 0]
  /\ prev = [p \in Procs |-> Null]
  /\ mem = [p \in Procs |-> NoHead]
  /\ side = NoHead
  /\ begun = 0
  /\ done = {}
  /\ torn = FALSE
  /\ hollow = FALSE
  /\ bare = 0
  /\ crashes = 0

Goto(p, l) == pc' = [pc EXCEPT ![p] = l]
caches == <<mem, side>>
history == <<begun, done, torn, hollow, bare, crashes>>
scratch == <<batch, stamp, file, fresh, keep, prev>>
Back(p) ==
  /\ batch' = [batch EXCEPT ![p] = <<>>]
  /\ stamp' = [stamp EXCEPT ![p] = 1]
  /\ file' = [file EXCEPT ![p] = 1]
  /\ fresh' = [fresh EXCEPT ![p] = FALSE]
  /\ keep' = [keep EXCEPT ![p] = 0]
  /\ prev' = [prev EXCEPT ![p] = Null]
  /\ Goto(p, "idle")

----------------------------------------------------------------------------
(* Files *)

Size(m) == Len(Lines(log, m))
EndsMidLine(m) == Size(m) > 0 /\ log[m][Size(m)].kind = "torn"

\* Mutant: an event always goes to the file of its own month.
OwnMonthFile(s) == s

\* The file of its own month, or the newest one that has events.
TargetMonthFile(s) ==
  LET later == {m \in Months : s <= m /\ m <= now /\ (m = s \/ Size(m) > 0)}
  IN CHOOSE m \in later : \A n \in later : n <= m

\* The lines of an append: each event links to the one before it, the first to p.
Chained(b, p) == [i \in 1..Len(b) |-> Event(b[i], IF i = 1 THEN p ELSE b[i - 1])]

\* What is in a file after `ls` was appended to it.  A fragment that is there is
\* closed by a newline; without one, the first new line is glued to it.
Appended(m, newline, ls) ==
  IF ls = <<>> THEN Lines(log, m)
  ELSE IF ~EndsMidLine(m) THEN Lines(log, m) \o ls
  ELSE LET whole == SubSeq(log[m], 1, Size(m) - 1)
       IN IF newline THEN whole \o <<Bad>> \o ls
          ELSE whole \o <<IF ls[1] = Torn THEN Torn ELSE Bad>> \o Tail(ls)

----------------------------------------------------------------------------
(* Under the chain lock *)

\* The events are stamped before the lock is asked for.
Begin(p) ==
  /\ pc[p] = "idle"
  /\ \E n \in 1..MaxBatch :
       /\ begun + n <= MaxEvents
       /\ batch' = [batch EXCEPT ![p] = [i \in 1..n |-> begun + i]]
       /\ begun' = begun + n
  /\ stamp' = [stamp EXCEPT ![p] = now]
  /\ Goto(p, "lock")
  /\ UNCHANGED <<log, now, holder, file, fresh, keep, prev, caches, done, torn, hollow, bare, crashes>>

Lock(p) ==
  /\ pc[p] = "lock" /\ holder = None
  /\ holder' = p
  /\ file' = [file EXCEPT ![p] = TargetMonthFile(stamp[p])]
  /\ Goto(p, "drop")
  /\ UNCHANGED <<log, now, batch, stamp, fresh, keep, prev, caches, history>>

\* Mutant: the fragment of a dead writer is left there.
DropNever(p) ==
  /\ pc[p] = "drop"
  /\ Goto(p, "find")
  /\ UNCHANGED <<log, now, holder, scratch, caches, history>>

\* dropTornTail: a fragment is a dead write; the file is measured ...
Drop(p) ==
  /\ pc[p] = "drop"
  /\ IF EndsMidLine(file[p])
       THEN keep' = [keep EXCEPT ![p] = Size(file[p]) - 1] /\ Goto(p, "truncate")
       ELSE UNCHANGED keep /\ Goto(p, "find")
  /\ UNCHANGED <<log, now, holder, batch, stamp, file, fresh, prev, caches, history>>

\* ... and cut.
Truncate(p) ==
  /\ pc[p] = "truncate"
  /\ log' = [log EXCEPT ![file[p]] = SubSeq(@, 1, keep[p])]
  /\ mem' = [mem EXCEPT ![p] = NoHead]
  /\ side' = NoHead
  /\ Goto(p, "find")
  /\ UNCHANGED <<now, holder, scratch, history>>

\* Mutant: a remembered head is believed as it is.
HoldsAlways(h, m) == h # NoHead /\ h.file = m

\* observationHolds: the file is as long as it was when the head was recorded.
Holds(h, m) == h # NoHead /\ h.file = m /\ Size(m) = h.size

\* tailSeekLastHash: the last event of a file, unless its last line does not parse.
TailHash(m) == IF Size(m) = 0 \/ log[m][Size(m)].kind # "event" THEN Null ELSE log[m][Size(m)].id

\* findPredecessorHash: the memory, the sidecar, the tail of the file, or that
\* of the newest other month if the file has no events.
Predecessor(p, m) ==
  LET others == {n \in Months \ {m} : log[n] # NoFile}
  IN IF Holds(mem[p], m) THEN mem[p].id
     ELSE IF Holds(side, m) THEN side.id
     ELSE IF Size(m) > 0 THEN TailHash(m)
     ELSE IF others = {} THEN Null
     ELSE TailHash(CHOOSE n \in others : \A o \in others : o <= n)

Find(p) ==
  /\ pc[p] = "find"
  /\ prev' = [prev EXCEPT ![p] = Predecessor(p, file[p])]
  /\ Goto(p, "write")
  /\ UNCHANGED <<log, now, holder, batch, stamp, file, fresh, keep, caches, history>>

\* The append; a batch puts itself on a line of its own.
Write(p) ==
  /\ pc[p] = "write"
  /\ log' = [log EXCEPT ![file[p]] =
               Appended(file[p], Len(batch[p]) > 1, Chained(batch[p], prev[p]))]
  /\ Goto(p, "record")
  /\ UNCHANGED <<now, holder, scratch, caches, history>>

\* The head is remembered with the size the file has by now; a batch forgets it.
Record(p) ==
  /\ pc[p] = "record"
  /\ IF Len(batch[p]) > 1
       THEN mem' = [mem EXCEPT ![p] = NoHead]
       ELSE mem' = [mem EXCEPT ![p] = [id |-> batch[p][1], file |-> file[p], size |-> Size(file[p])]]
  /\ Goto(p, "unlock")
  /\ UNCHANGED <<log, now, holder, scratch, side, history>>

\* writeChainHead, and the lock is released.
Unlock(p) ==
  /\ pc[p] = "unlock"
  /\ side' = mem[p]
  /\ holder' = None
  /\ done' = done \union {batch[p][i] : i \in 1..Len(batch[p])}
  /\ Back(p)
  /\ UNCHANGED <<log, now, mem, begun, torn, hollow, bare, crashes>>

----------------------------------------------------------------------------
(* Without it *)

\* The lock is not to be had: a gap is declared, on a line of its own.
Miss(p) ==
  /\ pc[p] = "lock" /\ holder \notin {None, p}
  /\ LET m == TargetMonthFile(stamp[p])
     IN /\ file' = [file EXCEPT ![p] = m]
        /\ fresh' = [fresh EXCEPT ![p] = EndsMidLine(m)]
  /\ bare' = IF Len(batch[p]) > bare THEN Len(batch[p]) ELSE bare
  /\ Goto(p, "gapWrite")
  /\ UNCHANGED <<log, now, holder, batch, stamp, keep, prev, caches, begun, done, torn, hollow, crashes>>

GapWrite(p) ==
  /\ pc[p] = "gapWrite"
  /\ log' = [log EXCEPT ![file[p]] = Appended(file[p], fresh[p], Chained(batch[p], Null))]
  /\ Goto(p, "gapDone")
  /\ UNCHANGED <<now, holder, scratch, caches, history>>

\* Whatever size the file has now, it may include somebody else's append.
Invalidate(p) ==
  /\ pc[p] = "gapDone"
  /\ mem' = [mem EXCEPT ![p] = NoHead]
  /\ side' = NoHead
  /\ done' = done \union {batch[p][i] : i \in 1..Len(batch[p])}
  /\ Back(p)
  /\ UNCHANGED <<log, now, holder, begun, torn, hollow, bare, crashes>>

----------------------------------------------------------------------------
(* Clocks and crashes *)

Tick ==
  /\ now < MaxMonth
  /\ now' = now + 1
  /\ UNCHANGED <<log, holder, pc, scratch, caches, history>>

Dies(p) ==
  /\ pc[p] # "idle" /\ crashes < MaxCrashes
  /\ crashes' = crashes + 1
  /\ holder' = IF holder = p THEN None ELSE holder
  /\ mem' = [mem EXCEPT ![p] = NoHead]
  /\ Back(p)
  /\ UNCHANGED <<now, side, begun, done, bare>>

Crash(p) == Dies(p) /\ UNCHANGED <<log, torn, hollow>>

\* It dies in its append: the file may be there without a line of it, and the
\* last line that is there may be incomplete.
CrashInWrite(p) ==
  /\ pc[p] \in {"write", "gapWrite"}
  /\ LET ls == Chained(batch[p], IF pc[p] = "write" THEN prev[p] ELSE Null)
         nl == IF pc[p] = "write" THEN Len(batch[p]) > 1 ELSE fresh[p]
     IN \E n \in 0..(Len(ls) - 1), part \in BOOLEAN :
          /\ log' = [log EXCEPT ![file[p]] =
                       Appended(file[p], nl, SubSeq(ls, 1, n) \o (IF part THEN <<Torn>> ELSE <<>>))]
          /\ torn' = (torn \/ part)
          /\ hollow' = (hollow \/ (n = 0 /\ ~part))
  /\ Dies(p)

----------------------------------------------------------------------------
Step(p) ==
  \/ Lock(p) \/ Drop(p) \/ Truncate(p) \/ Find(p) \/ Write(p) \/ Record(p) \/ Unlock(p)
  \/ Miss(p) \/ GapWrite(p) \/ Invalidate(p)

Next ==
  \/ \E p \in Procs : Begin(p) \/ Step(p) \/ Crash(p) \/ CrashInWrite(p)
  \/ Tick

Spec == Init /\ [][Next]_vars

----------------------------------------------------------------------------
(* Properties *)

\* What the code does not cover (see the README): an append without the lock
\* beside a torn line or the end of a month, and one of several events.
Covered == bare > 0 => ~torn /\ now = 1 /\ bare = 1

\* The log is one chain: an event links to an earlier one, with nothing but
\* declared gaps in between, and no two events claim one predecessor, but for
\* two first ones.
LinkOf(x, y) == Before(y, x) /\ At(log, y).id = At(log, x).prev
OneChain ==
  Covered =>
    /\ \A x \in Events(log) : At(log, x).prev # Null =>
         \E y \in Events(log) :
           /\ LinkOf(x, y)
           /\ \A z \in Earlier(log, x) : Before(y, z) => At(log, z).prev = Null
    /\ Forks(log) \subseteq {Null}

\* What verifyChain makes of it: a log that nobody edited is never taken for
\* tampered with.
NobodyIsAccused == Covered => Broken(log) = {}

\* Gaps come of missed locks only: while every writer gets the lock, and none
\* dies in a line or, from the third month on, before the first line of a file,
\* the whole log verifies.
NoGapUnderLock == ~torn /\ bare = 0 /\ (hollow => now < 3) => Verified(log)

\* An append that has returned true is in the log, and stays there.
InLog(e) == \E x \in Events(log) : At(log, x).id = e
AppendsLand == Covered => \A e \in done : InLog(e)

\* Whoever loses an event of a log that verifies is found out: removing any but
\* the last one leaves a broken link.
Without(x) ==
  [log EXCEPT ![x[1]] = SubSeq(@, 1, x[2] - 1) \o SubSeq(@, x[2] + 1, Len(@))]
RemovalShows ==
  Verified(log) =>
    \A x \in Events(log) : (\E y \in Events(log) : Before(x, y)) => ~Verified(Without(x))

\* A writer that dies in a line does not make verifyChain refuse the file for
\* good, as long as somebody appends to that file with the lock.
VerifyAnswers == bare = 0 /\ now = 1 => ~Refuses(log)
=============================================================================
