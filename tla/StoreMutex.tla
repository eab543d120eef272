---------------------------- MODULE StoreMutex ----------------------------
(***************************************************************************)
(* What a store lock promises its callers (`withAsyncLock` in              *)
(* store/async-lock.ts and `withLock` in sync.ts): a caller asks for the   *)
(* lock, runs its critical section alone, and leaves; it may also give up  *)
(* waiting, or its process may die at any point.  Nothing is said here of  *)
(* lock files, tokens or takeovers: StoreLock implements this.             *)
(***************************************************************************)
CONSTANT Procs

VARIABLE stage     \* per process: outside, waiting for the lock, or inside

AbsVars == stage

Stages == {"out", "waiting", "in"}

AbsTypeOK == stage \in [Procs -> Stages]

AbsInit == stage = [p \in Procs |-> "out"]

Ask(p) ==
  /\ stage[p] = "out"
  /\ stage' = [stage EXCEPT ![p] = "waiting"]

Enter(p) ==
  /\ stage[p] = "waiting"
  /\ \A q \in Procs : stage[q] # "in"
  /\ stage' = [stage EXCEPT ![p] = "in"]

\* Finishing the critical section, giving up the wait, or dying.
Exit(p) ==
  /\ stage[p] # "out"
  /\ stage' = [stage EXCEPT ![p] = "out"]

AbsNext == \E p \in Procs : Ask(p) \/ Enter(p) \/ Exit(p)

AbsSpec == AbsInit /\ [][AbsNext]_AbsVars
============================================================================
