----------------------------- MODULE AsyncMutex -----------------------------
(***************************************************************************)
(* The in-process queue in front of the store lock (async-mutex.ts): one   *)
(* promise chain per mutex, one mutex per key, created by the first call   *)
(* that finds none and evicted when its last run has settled.  Each action *)
(* is one synchronous stretch of code between two awaits.                  *)
(***************************************************************************)
EXTENDS Naturals, FiniteSets

CONSTANTS
  Runs,    \* calls of KeyedAsyncMutex.run; each is made once
  Keys,    \* lock paths
  None

ASSUME QueueAssumption == IsFiniteSet(Runs) /\ None \notin Runs \union Keys

VARIABLES
  map,     \* mutexes: the mutex of each key, or None
  depth,   \* per mutex: runs queued or executing
  queue,   \* per mutex: the last run chained to it, or None
  key,     \* per run: the key it was called with
  mutex,   \* per run: the mutex it is chained to
  prev,    \* per run: the run it awaits, or None
  pc,      \* per run: where it stands
  order    \* history: how many calls came before it

vars == <<map, depth, queue, key, mutex, prev, pc, order>>

\* A mutex has the name of the run that created it.
Mutexes == Runs
Stages == {"new", "queued", "running", "settled", "done"}

Init ==
  /\ map = [k \in Keys |-> None]
  /\ depth = [m \in Mutexes |-> 0]
  /\ queue = [m \in Mutexes |-> None]
  /\ key = [r \in Runs |-> None]
  /\ mutex = [r \in Runs |-> None]
  /\ prev = [r \in Runs |-> None]
  /\ pc = [r \in Runs |-> "new"]
  /\ order = [r \in Runs |-> 0]

Goto(r, l) == pc' = [pc EXCEPT ![r] = l]
Called == {r \in Runs : pc[r] # "new"}

\* Mutant: the call replaces the tail of the queue instead of chaining to it.
CallReplaces(r, k) ==
  /\ pc[r] = "new"
  /\ LET m == IF map[k] = None THEN r ELSE map[k]
     IN /\ map' = [map EXCEPT ![k] = m]
        /\ depth' = [depth EXCEPT ![m] = @ + 1]
        /\ mutex' = [mutex EXCEPT ![r] = m]
        /\ queue' = IF queue[m] = None THEN [queue EXCEPT ![m] = r] ELSE queue
        /\ prev' = [prev EXCEPT ![r] = queue[m]]
  /\ key' = [key EXCEPT ![r] = k]
  /\ order' = [q \in Runs |-> IF q \in Called THEN order[q] + 1 ELSE order[q]]
  /\ Goto(r, "queued")

\* Mutant: the tail is set before it is read, so a run awaits itself.
CallSwapped(r, k) ==
  /\ pc[r] = "new"
  /\ LET m == IF map[k] = None THEN r ELSE map[k]
     IN /\ map' = [map EXCEPT ![k] = m]
        /\ depth' = [depth EXCEPT ![m] = @ + 1]
        /\ mutex' = [mutex EXCEPT ![r] = m]
        /\ queue' = [queue EXCEPT ![m] = r]
        /\ prev' = [prev EXCEPT ![r] = queue'[m]]
  /\ key' = [key EXCEPT ![r] = k]
  /\ order' = [q \in Runs |-> IF q \in Called THEN order[q] + 1 ELSE order[q]]
  /\ Goto(r, "queued")

\* run, up to `await prev`: find or create the mutex, and chain to it.
Call(r, k) ==
  /\ pc[r] = "new"
  /\ LET m == IF map[k] = None THEN r ELSE map[k]
     IN /\ map' = [map EXCEPT ![k] = m]
        /\ depth' = [depth EXCEPT ![m] = @ + 1]
        /\ mutex' = [mutex EXCEPT ![r] = m]
        /\ prev' = [prev EXCEPT ![r] = queue[m]]
        /\ queue' = [queue EXCEPT ![m] = r]
  /\ key' = [key EXCEPT ![r] = k]
  /\ order' = [q \in Runs |-> IF q \in Called THEN order[q] + 1 ELSE order[q]]
  /\ Goto(r, "queued")

Released(r) == r # None => pc[r] \in {"settled", "done"}

\* `prev` has resolved: fn runs.
Start(r) ==
  /\ pc[r] = "queued" /\ Released(prev[r])
  /\ Goto(r, "running")
  /\ UNCHANGED <<map, depth, queue, key, mutex, prev, order>>

\* fn has returned or thrown: the count goes down, and the next run may start.
Settle(r) ==
  /\ pc[r] = "running"
  /\ depth' = [depth EXCEPT ![mutex[r]] = @ - 1]
  /\ Goto(r, "settled")
  /\ UNCHANGED <<map, queue, key, mutex, prev, order>>

\* The outer finally, after other callers may have come and gone.
Evict(r) ==
  /\ pc[r] = "settled"
  /\ map' = IF depth[mutex[r]] = 0 /\ map[key[r]] = mutex[r]
              THEN [map EXCEPT ![key[r]] = None] ELSE map
  /\ Goto(r, "done")
  /\ UNCHANGED <<depth, queue, key, mutex, prev, order>>

Next == \E r \in Runs : (\E k \in Keys : Call(r, k)) \/ Start(r) \/ Settle(r) \/ Evict(r)

Spec == Init /\ [][Next]_vars

\* The event loop runs what is ready; fn settles in the end.
Fairness == \A r \in Runs : WF_vars(Start(r) \/ Settle(r) \/ Evict(r))

FairSpec == Spec /\ Fairness

----------------------------------------------------------------------------
(* Properties *)

\* Every variable is of its kind, and a called run has a key and a mutex.
TypeOK ==
  /\ map \in [Keys -> Mutexes \union {None}]
  /\ depth \in [Mutexes -> Nat]
  /\ queue \in [Mutexes -> Runs \union {None}]
  /\ key \in [Runs -> Keys \union {None}]
  /\ mutex \in [Runs -> Mutexes \union {None}]
  /\ prev \in [Runs -> Runs \union {None}]
  /\ pc \in [Runs -> Stages]
  /\ order \in [Runs -> Nat]
  /\ \A r \in Called : key[r] \in Keys /\ mutex[r] \in Mutexes

\* Two runs of one key never execute at once.
OneRunPerKey ==
  \A r, s \in Runs :
    pc[r] = "running" /\ pc[s] = "running" /\ key[r] = key[s] => r = s

\* Runs of one key start in the order of their calls (`order` grows with age).
FirstComeFirstServed ==
  \A r, s \in Called :
    pc[r] # "queued" /\ pc[s] = "queued" /\ key[r] = key[s] => order[r] > order[s]

\* Eviction never splits two waiters across two mutexes: whoever waits or runs
\* is chained to the mutex a new caller of its key would find.
NoSplit ==
  \A r \in Runs : pc[r] \in {"queued", "running"} => map[key[r]] = mutex[r]

\* The calls of each key share a StoreMutex of their own.
TurnsOf(k) ==
  [r \in Runs |-> CASE key[r] = k /\ pc[r] = "queued" -> "waiting"
                    [] key[r] = k /\ pc[r] = "running" -> "in"
                    [] OTHER -> "out"]
Turn(k) == INSTANCE StoreMutex WITH Procs <- Runs, stage <- TurnsOf(k)

\* Every call gets its turn, also behind a run that threw.
EveryCallRuns == \A r \in Runs : pc[r] = "queued" ~> pc[r] = "running"
=============================================================================
