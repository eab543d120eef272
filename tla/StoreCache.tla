----------------------------- MODULE StoreCache -----------------------------
(***************************************************************************)
(* The snapshot of engrams.yaml that each YamlPrimaryStore keeps beside    *)
(* the file's time stamp (yaml-primary-store.ts).  A write replaces the    *)
(* file; a cached read takes the stamp first and the file after it, and    *)
(* another process may replace the file in between.  File systems stamp in *)
(* ticks, and several writes can share one.                                *)
(***************************************************************************)
EXTENDS Naturals, Sequences

CONSTANTS
  Readers,    \* the stores, each in a process of its own
  MaxWrites,  \* bound: replacements of the file
  MaxTick,    \* bound: ticks of the file system's clock
  NoSnapshot

ASSUME CacheAssumption == MaxWrites \in Nat /\ MaxTick \in Nat /\ NoSnapshot \notin Nat

VARIABLES
  tick,
  writes,     \* the replacements of the file: by whom, and in which tick
  statted,    \* per store: the stamp of the read under way, or NoSnapshot
  snapshot,   \* per store: cache, or NoSnapshot
  pulling     \* per store: has its sync replaced the file, and not returned?

cacheVars == <<tick, writes, statted, snapshot, pulling>>

Latest == Len(writes)
\* mtimeNs of the file; 0 while there is none.
Mtime == IF Latest = 0 THEN 0 ELSE writes[Latest].at

CacheInit ==
  /\ tick = 1
  /\ writes = <<>>
  /\ statted = [r \in Readers |-> NoSnapshot]
  /\ snapshot = [r \in Readers |-> NoSnapshot]
  /\ pulling = [r \in Readers |-> FALSE]

Tick ==
  /\ tick < MaxTick
  /\ tick' = tick + 1
  /\ UNCHANGED <<writes, statted, snapshot, pulling>>

ReplaceFile(r) ==
  /\ Latest < MaxWrites
  /\ writes' = Append(writes, [by |-> r, at |-> tick])

Hit(r) == Latest # 0 /\ snapshot[r] # NoSnapshot /\ snapshot[r].mtime = Mtime

\* loadCached: a hit, or no file, changes nothing; otherwise the stamp is kept ...
Stat(r) ==
  /\ statted[r] = NoSnapshot /\ Latest # 0 /\ ~Hit(r)
  /\ statted' = [statted EXCEPT ![r] = Mtime]
  /\ UNCHANGED <<tick, writes, snapshot, pulling>>

\* ... while the file is read.
Read(r) ==
  /\ statted[r] # NoSnapshot
  /\ snapshot' = [snapshot EXCEPT ![r] = [mtime |-> statted[r], seq |-> Latest]]
  /\ statted' = [statted EXCEPT ![r] = NoSnapshot]
  /\ UNCHANGED <<tick, writes, pulling>>

\* Mutant: a write leaves the snapshot to its stamp.
SaveKeeps(r) ==
  /\ statted[r] = NoSnapshot
  /\ ReplaceFile(r)
  /\ UNCHANGED <<tick, statted, snapshot, pulling>>

\* save: nothing else of the process runs between the write and the reset.
SaveThrough(r) ==
  /\ statted[r] = NoSnapshot
  /\ ReplaceFile(r)
  /\ snapshot' = [snapshot EXCEPT ![r] = NoSnapshot]
  /\ UNCHANGED <<tick, statted, pulling>>

\* A git pull replaces the file behind the store's back ...
Pull(r) ==
  /\ statted[r] = NoSnapshot /\ ~pulling[r]
  /\ ReplaceFile(r)
  /\ pulling' = [pulling EXCEPT ![r] = TRUE]
  /\ UNCHANGED <<tick, statted, snapshot>>

\* ... and invalidates it once the lock is given back.
Invalidate(r) ==
  /\ pulling[r] /\ statted[r] = NoSnapshot
  /\ snapshot' = [snapshot EXCEPT ![r] = NoSnapshot]
  /\ pulling' = [pulling EXCEPT ![r] = FALSE]
  /\ UNCHANGED <<tick, writes, statted>>

CacheNext ==
  \/ Tick
  \/ \E r \in Readers : Stat(r) \/ Read(r) \/ SaveThrough(r) \/ Pull(r) \/ Invalidate(r)

CacheSpec == CacheInit /\ [][CacheNext]_cacheVars

----------------------------------------------------------------------------
(* Properties *)

\* What a hit may miss: writes of other processes in the very tick the snapshot was
\* taken in, and never a write of one's own that has returned, however coarse the
\* stamps are (loadCached and save; issue 25 in the file's header).
HitMissesOnlyTies ==
  \A r \in Readers : Hit(r) =>
    \A n \in (snapshot[r].seq + 1)..Latest :
      /\ writes[n].at = snapshot[r].mtime
      /\ writes[n].by = r => pulling[r]

=============================================================================
