-------------------------- MODULE StoreLockProofs --------------------------
(***************************************************************************)
(* Proofs about StoreLock.                                                 *)
(*                                                                         *)
(* Part 1 proves the type invariant in every configuration.  Part 2 proves *)
(* LockInv, and from it the safety of the lock, in a KindWorld: for any    *)
(* number of processes, hosts, crashes and ladder rungs.  Part 3 proves    *)
(* that the lock implements StoreMutex.                                    *)
(***************************************************************************)
EXTENDS StoreLock, TLAPS

\* Where the safety of the lock is proved.  The filesystem has hard links; a
\* stealer ends its few system calls before its guard counts as abandoned; and
\* so does a holder with its heartbeat, unless all processes run on one host,
\* where they are probed and a holder may stall for as long as it likes.
OneMachine == \A p, q \in Procs : SameHost(p, q)
KindWorld ==
  /\ HardLinks
  /\ "stealer" \notin MayStall
  /\ "holder" \notin MayStall \/ OneMachine

(* Part 1: types. *)

\* A lock file is a record with these fields, and never the absence of a file.
LEMMA FileRecord ==
  /\ \A i \in Inos, t \in Tokens, full, old \in BOOLEAN : File(i, t, full, old) \in Files
  /\ \A f \in Files : /\ f.ino \in Inos /\ f.tok \in Tokens /\ f.full \in BOOLEAN
                       /\ f.old \in BOOLEAN /\ f # NoFile
BY NoneAssumption DEF File, Files, NoFile

\* So is a guard file of the steal ladder.
LEMMA GuardRecord ==
  /\ \A p \in Procs, full, old \in BOOLEAN : Guard(p, full, old) \in Guards
  /\ \A g \in Guards : g.by \in Procs /\ g.full \in BOOLEAN /\ g.old \in BOOLEAN /\ g # NoFile
BY NoneAssumption DEF Guard, Guards, NoFile

\* What inspectLock returns of a file is a judgement a stealer can remember.
LEMMA JudgeType ==
  \A f \in Files : [key |-> Content(f), ino |-> f.ino] \in Judgements
BY FileRecord DEF Content, Contents, Judgements

\* Writing the token through an open descriptor leaves a file a file.
LEMMA WrittenType ==
  \A f \in Files \union {NoFile} : \A i :
    /\ Written(f, i) \in Files \union {NoFile}
    /\ f # NoFile => Written(f, i) # NoFile
BY FileRecord DEF Written

\* A file is created under an inode of the filesystem.
LEMMA FreshInoType == FreeInos # {} => FreshIno \in Inos
BY DEF FreeInos, FreshIno

\* A process that has started an acquisition has a token.
LEMMA TokenType ==
  ASSUME TypeInv, NEW p \in Procs, pc[p] # "idle"
  PROVE  Token(p) \in Tokens
BY DEF TypeInv, TypeOK, SetUp, ProcTypes, Token, Tokens

\* The type invariant holds before anybody has asked for the lock.
LEMMA TypeInit == Init => TypeInv
BY ConstAssumption DEF Init, TypeInv, TypeOK, ProcTypes, FileTypes, GuardTypes, StealTypes,
   SetUp, Stages, GuardStages, NoFile

\* Every step of the lock, in every configuration, keeps the type invariant.
LEMMA TypeStep == TypeInv /\ [Next]_vars => TypeInv'
<1> SUFFICES ASSUME TypeInv, [Next]_vars PROVE TypeInv'
  OBVIOUS
<1> USE ConstAssumption DEF TypeInv, TypeOK, At, Goto, NoFile
<1>0. CASE UNCHANGED vars
  BY <1>0 DEF vars, ProcTypes, FileTypes, GuardTypes, StealTypes, SetUp
<1>1. ASSUME NEW p \in Procs, Start(p) PROVE TypeInv'
  <2>1. ProcTypes'
    BY <1>1 DEF Start, ProcTypes, Stages, HoldingStages, CreatorStages, GuardStages
  <2>2. FileTypes'
    BY <1>1 DEF Start, FileTypes, SetUp
  <2>3. GuardTypes'
    BY <1>1 DEF Start, GuardTypes
  <2>4. StealTypes'
    BY <1>1 DEF Start, StealTypes, SetUp
  <2>5. SetUp'
    BY <1>1 DEF Start, SetUp, ProcTypes, FileTypes, StealTypes, GuardStages
  <2> QED
    BY <2>1, <2>2, <2>3, <2>4, <2>5
<1>2. ASSUME NEW p \in Procs, Link(p) PROVE TypeInv'
  <2>1. ProcTypes'
    BY <1>2 DEF Link, ProcTypes, Stages, HoldingStages, CreatorStages, GuardStages
  <2>2. FileTypes'
    BY <1>2, FreshInoType, FileRecord, TokenType DEF Link, FileTypes, SetUp
  <2>3. GuardTypes'
    BY <1>2 DEF Link, GuardTypes
  <2>4. StealTypes'
    BY <1>2 DEF Link, StealTypes, SetUp
  <2>5. SetUp'
    BY <1>2, ZenonT(40) DEF Link, SetUp, ProcTypes, FileTypes, StealTypes, GuardStages
  <2> QED
    BY <2>1, <2>2, <2>3, <2>4, <2>5
<1>3. ASSUME NEW p \in Procs, CreateEmpty(p) PROVE TypeInv'
  <2>1. ProcTypes'
    BY <1>3 DEF CreateEmpty, ProcTypes, Stages, HoldingStages, CreatorStages, GuardStages
  <2>2. FileTypes'
    <3>1. CASE lock = NoFile
      <4>1. FreshIno \in Inos /\ File(FreshIno, Token(p), FALSE, FALSE) \in Files
        BY <1>3, FreshInoType, FileRecord, TokenType DEF CreateEmpty
      <4> QED
        BY <1>3, <3>1, <4>1 DEF CreateEmpty, FileTypes
    <3>2. CASE lock # NoFile
      BY <1>3, <3>2 DEF CreateEmpty, FileTypes
    <3> QED
      BY <3>1, <3>2
  <2>3. GuardTypes'
    BY <1>3 DEF CreateEmpty, GuardTypes
  <2>4. StealTypes'
    BY <1>3 DEF CreateEmpty, StealTypes, SetUp
  <2>5. SetUp'
    BY <1>3, ZenonT(40) DEF CreateEmpty, SetUp, ProcTypes, FileTypes, StealTypes, GuardStages
  <2> QED
    BY <2>1, <2>2, <2>3, <2>4, <2>5
<1>4. ASSUME NEW p \in Procs, WriteToken(p) PROVE TypeInv'
  <2>1. ProcTypes'
    BY <1>4 DEF WriteToken, ProcTypes, Stages, HoldingStages, CreatorStages, GuardStages
  <2>2. FileTypes'
    <3>1. lock' \in Files \union {NoFile}
      BY <1>4, WrittenType DEF WriteToken, FileTypes
    <3>2. claim' \in [Procs -> Files \union {NoFile}]
      BY <1>4, WrittenType DEF WriteToken, FileTypes
    <3> QED
      BY <1>4, <3>1, <3>2 DEF WriteToken, FileTypes
  <2>3. GuardTypes'
    BY <1>4 DEF WriteToken, GuardTypes
  <2>4. StealTypes'
    BY <1>4 DEF WriteToken, StealTypes, SetUp
  <2>5. SetUp'
    BY <1>4, WrittenType DEF WriteToken, SetUp, ProcTypes, FileTypes, StealTypes, GuardStages
  <2> QED
    BY <2>1, <2>2, <2>3, <2>4, <2>5
<1>5. ASSUME NEW p \in Procs, CheckInode(p) PROVE TypeInv'
  <2>1. ProcTypes'
    BY <1>5 DEF CheckInode, ProcTypes, Stages, HoldingStages, CreatorStages, GuardStages
  <2>2. FileTypes'
    BY <1>5 DEF CheckInode, FileTypes, SetUp
  <2>3. GuardTypes'
    BY <1>5 DEF CheckInode, GuardTypes
  <2>4. StealTypes'
    BY <1>5 DEF CheckInode, StealTypes, SetUp
  <2>5. SetUp'
    BY <1>5 DEF CheckInode, SetUp, ProcTypes, FileTypes, StealTypes, GuardStages
  <2> QED
    BY <2>1, <2>2, <2>3, <2>4, <2>5
<1>6. ASSUME NEW p \in Procs, GiveUp(p) PROVE TypeInv'
  <2>1. ProcTypes'
    BY <1>6 DEF GiveUp, ProcTypes, Stages, HoldingStages, CreatorStages, GuardStages
  <2>2. FileTypes'
    BY <1>6 DEF GiveUp, FileTypes, SetUp
  <2>3. GuardTypes'
    BY <1>6 DEF GiveUp, GuardTypes
  <2>4. StealTypes'
    BY <1>6 DEF GiveUp, StealTypes, SetUp
  <2>5. SetUp'
    BY <1>6 DEF GiveUp, SetUp, ProcTypes, FileTypes, StealTypes, GuardStages
  <2> QED
    BY <2>1, <2>2, <2>3, <2>4, <2>5
<1>7. ASSUME NEW p \in Procs, Judge(p) PROVE TypeInv'
  <2>1. ProcTypes'
    BY <1>7 DEF Judge, ProcTypes, Stages, HoldingStages, CreatorStages, GuardStages
  <2>2. FileTypes'
    BY <1>7 DEF Judge, FileTypes, SetUp
  <2>3. GuardTypes'
    BY <1>7 DEF Judge, GuardTypes
  <2>4. StealTypes'
    BY <1>7, JudgeType DEF Judge, StealTypes, SetUp, FileTypes
  <2>5. SetUp'
    BY <1>7, JudgeType, NoneAssumption DEF Judge, SetUp, ProcTypes, FileTypes, StealTypes,
       GuardStages
  <2> QED
    BY <2>1, <2>2, <2>3, <2>4, <2>5
<1>8. ASSUME NEW p \in Procs, Climb(p) PROVE TypeInv'
  <2>1. ProcTypes'
    BY <1>8 DEF Climb, Retreat, ProcTypes, Stages, HoldingStages, CreatorStages, GuardStages
  <2>2. FileTypes'
    BY <1>8 DEF Climb, FileTypes, SetUp
  <2>3. GuardTypes'
    BY <1>8, GuardRecord DEF Climb, Retreat, GuardTypes
  <2>4. StealTypes'
    <3>1. rung' \in [Procs -> 0..Slots]
      <4>1. rung[p] \in 0..Slots /\ 0 \in 0..Slots /\ (rung[p] # Slots => rung[p] + 1 \in 0..Slots)
        BY DEF StealTypes
      <4> QED
        BY <1>8, <4>1 DEF Climb, Retreat, StealTypes
    <3> QED
      BY <1>8, <3>1 DEF Climb, Retreat, StealTypes
  <2>5. SetUp'
    <3>1. CASE pc' = pc
      BY <1>8, <3>1 DEF Climb, Retreat, SetUp, ProcTypes, StealTypes, GuardStages
    <3>2. CASE Goto(p, "slotWrite") /\ UNCHANGED <<seen, rung, chk>>
      BY <1>8, <3>2 DEF Climb, SetUp, ProcTypes, StealTypes, GuardStages
    <3>3. CASE Retreat(p)
      BY <1>8, <3>3 DEF Climb, Retreat, SetUp, ProcTypes, StealTypes, GuardStages
    <3> QED
      BY <1>8, <3>1, <3>2, <3>3 DEF Climb
  <2> QED
    BY <2>1, <2>2, <2>3, <2>4, <2>5
<1>9. ASSUME NEW p \in Procs, WriteSlot(p) PROVE TypeInv'
  <2>1. ProcTypes'
    BY <1>9 DEF WriteSlot, ProcTypes, Stages, HoldingStages, CreatorStages, GuardStages
  <2>2. FileTypes'
    BY <1>9 DEF WriteSlot, FileTypes, SetUp
  <2>3. GuardTypes'
    BY <1>9, GuardRecord DEF WriteSlot, GuardTypes
  <2>4. StealTypes'
    BY <1>9 DEF WriteSlot, StealTypes, SetUp
  <2>5. SetUp'
    BY <1>9 DEF WriteSlot, SetUp, ProcTypes, FileTypes, StealTypes, GuardStages
  <2> QED
    BY <2>1, <2>2, <2>3, <2>4, <2>5
<1>10. ASSUME NEW p \in Procs, Verify(p) PROVE TypeInv'
  <2>1. ProcTypes'
    BY <1>10 DEF Verify, ProcTypes, Stages, HoldingStages, CreatorStages, GuardStages
  <2>2. FileTypes'
    BY <1>10 DEF Verify, FileTypes, SetUp
  <2>3. GuardTypes'
    BY <1>10 DEF Verify, GuardTypes
  <2>4. StealTypes'
    BY <1>10 DEF Verify, StealTypes, SetUp
  <2>5. SetUp'
    BY <1>10 DEF Verify, SetUp, ProcTypes, FileTypes, StealTypes, GuardStages
  <2> QED
    BY <2>1, <2>2, <2>3, <2>4, <2>5
<1>11. ASSUME NEW p \in Procs, Reinspect(p) PROVE TypeInv'
  <2>1. ProcTypes'
    BY <1>11 DEF Reinspect, ProcTypes, Stages, HoldingStages, CreatorStages, GuardStages
  <2>2. FileTypes'
    BY <1>11 DEF Reinspect, FileTypes, SetUp
  <2>3. GuardTypes'
    BY <1>11 DEF Reinspect, GuardTypes
  <2>4. StealTypes'
    BY <1>11 DEF Reinspect, StealTypes, SetUp
  <2>5. SetUp'
    BY <1>11 DEF Reinspect, SetUp, ProcTypes, FileTypes, StealTypes, GuardStages
  <2> QED
    BY <2>1, <2>2, <2>3, <2>4, <2>5
<1>12. ASSUME NEW p \in Procs, Rename(p) PROVE TypeInv'
  <2>1. ProcTypes'
    BY <1>12 DEF Rename, ProcTypes, Stages, HoldingStages, CreatorStages, GuardStages
  <2>2. FileTypes'
    BY <1>12 DEF Rename, FileTypes, SetUp
  <2>3. GuardTypes'
    BY <1>12 DEF Rename, GuardTypes
  <2>4. StealTypes'
    BY <1>12 DEF Rename, StealTypes, SetUp
  <2>5. SetUp'
    BY <1>12 DEF Rename, SetUp, ProcTypes, FileTypes, StealTypes, GuardStages
  <2> QED
    BY <2>1, <2>2, <2>3, <2>4, <2>5
<1>13. ASSUME NEW p \in Procs, Confirm(p) PROVE TypeInv'
  <2>1. ProcTypes'
    BY <1>13 DEF Confirm, ProcTypes, Stages, HoldingStages, CreatorStages, GuardStages
  <2>2. FileTypes'
    BY <1>13 DEF Confirm, FileTypes, SetUp
  <2>3. GuardTypes'
    BY <1>13 DEF Confirm, GuardTypes
  <2>4. StealTypes'
    BY <1>13 DEF Confirm, StealTypes, SetUp
  <2>5. SetUp'
    BY <1>13 DEF Confirm, SetUp, ProcTypes, FileTypes, StealTypes, GuardStages
  <2> QED
    BY <2>1, <2>2, <2>3, <2>4, <2>5
<1>14. ASSUME NEW p \in Procs, PutBack(p) PROVE TypeInv'
  <2>1. ProcTypes'
    BY <1>14 DEF PutBack, ProcTypes, Stages, HoldingStages, CreatorStages, GuardStages
  <2>2. FileTypes'
    <3>1. CASE lock # NoFile
      BY <1>14, <3>1 DEF PutBack, FileTypes
    <3>2. CASE lock = NoFile /\ HardLinks
      BY <1>14, <3>2 DEF PutBack, FileTypes
    <3>3. CASE lock = NoFile /\ ~HardLinks
      <4>1. claim[p] \in Files
        BY <1>14 DEF PutBack, FileTypes, SetUp
      <4>2. FreshIno \in Inos /\ File(FreshIno, claim[p].tok, FALSE, FALSE) \in Files
        BY <1>14, <3>3, <4>1, FreshInoType, FileRecord DEF PutBack
      <4> QED
        BY <1>14, <3>3, <4>2 DEF PutBack, FileTypes
    <3> QED
      BY <3>1, <3>2, <3>3
  <2>3. GuardTypes'
    BY <1>14 DEF PutBack, GuardTypes
  <2>4. StealTypes'
    BY <1>14 DEF PutBack, StealTypes, SetUp
  <2>5. SetUp'
    BY <1>14, ZenonT(40) DEF PutBack, SetUp, ProcTypes, FileTypes, StealTypes, GuardStages
  <2> QED
    BY <2>1, <2>2, <2>3, <2>4, <2>5
<1>15. ASSUME NEW p \in Procs, PutBackWrite(p) PROVE TypeInv'
  <2>1. ProcTypes'
    BY <1>15 DEF PutBackWrite, ProcTypes, Stages, HoldingStages, CreatorStages, GuardStages
  <2>2. FileTypes'
    <3>1. lock' \in Files \union {NoFile}
      BY <1>15, WrittenType DEF PutBackWrite, FileTypes
    <3>2. claim' \in [Procs -> Files \union {NoFile}]
      BY <1>15, WrittenType DEF PutBackWrite, FileTypes
    <3> QED
      BY <1>15, <3>1, <3>2 DEF PutBackWrite, FileTypes
  <2>3. GuardTypes'
    BY <1>15 DEF PutBackWrite, GuardTypes
  <2>4. StealTypes'
    BY <1>15 DEF PutBackWrite, StealTypes, SetUp
  <2>5. SetUp'
    <3>1. \A q \in Procs \ {p} : claim[q] # NoFile => claim'[q] # NoFile
      BY <1>15, WrittenType DEF PutBackWrite, FileTypes
    <3> QED
      BY <1>15, <3>1 DEF PutBackWrite, SetUp, ProcTypes, GuardStages
  <2> QED
    BY <2>1, <2>2, <2>3, <2>4, <2>5
<1>16. ASSUME NEW p \in Procs, Clear(p) PROVE TypeInv'
  <2>1. ProcTypes'
    BY <1>16 DEF Clear, ProcTypes, Stages, HoldingStages, CreatorStages, GuardStages
  <2>2. FileTypes'
    BY <1>16 DEF Clear, FileTypes, SetUp
  <2>3. GuardTypes'
    BY <1>16 DEF Clear, GuardTypes
  <2>4. StealTypes'
    BY <1>16 DEF Clear, StealTypes, SetUp
  <2>5. SetUp'
    BY <1>16 DEF Clear, SetUp, ProcTypes, FileTypes, StealTypes, GuardStages
  <2> QED
    BY <2>1, <2>2, <2>3, <2>4, <2>5
<1>17. ASSUME NEW p \in Procs, Unguard(p) PROVE TypeInv'
  <2>1. ProcTypes'
    BY <1>17 DEF Unguard, Retreat, ProcTypes, Stages, HoldingStages, CreatorStages, GuardStages
  <2>2. FileTypes'
    BY <1>17 DEF Unguard, FileTypes, SetUp
  <2>3. GuardTypes'
    BY <1>17 DEF Unguard, Retreat, GuardTypes
  <2>4. StealTypes'
    BY <1>17 DEF Unguard, Retreat, StealTypes, SetUp
  <2>5. SetUp'
    BY <1>17 DEF Unguard, Retreat, SetUp, ProcTypes, FileTypes, StealTypes, GuardStages
  <2> QED
    BY <2>1, <2>2, <2>3, <2>4, <2>5
<1>18. ASSUME NEW p \in Procs, UnguardUnlink(p) PROVE TypeInv'
  <2>1. ProcTypes'
    BY <1>18 DEF UnguardUnlink, Retreat, ProcTypes, Stages, HoldingStages, CreatorStages,
       GuardStages
  <2>2. FileTypes'
    BY <1>18 DEF UnguardUnlink, FileTypes, SetUp
  <2>3. GuardTypes'
    BY <1>18 DEF UnguardUnlink, Retreat, GuardTypes
  <2>4. StealTypes'
    BY <1>18 DEF UnguardUnlink, Retreat, StealTypes, SetUp
  <2>5. SetUp'
    BY <1>18 DEF UnguardUnlink, Retreat, SetUp, ProcTypes, FileTypes, StealTypes, GuardStages
  <2> QED
    BY <2>1, <2>2, <2>3, <2>4, <2>5
<1>19. ASSUME NEW p \in Procs, Heartbeat(p) PROVE TypeInv'
  <2>1. ProcTypes'
    BY <1>19 DEF Heartbeat, ProcTypes, Stages, HoldingStages, CreatorStages, GuardStages
  <2>2. FileTypes'
    BY <1>19, FileRecord DEF Heartbeat, FileTypes, SetUp
  <2>3. GuardTypes'
    BY <1>19 DEF Heartbeat, GuardTypes
  <2>4. StealTypes'
    BY <1>19 DEF Heartbeat, StealTypes, SetUp
  <2>5. SetUp'
    BY <1>19 DEF Heartbeat, SetUp, ProcTypes, FileTypes, StealTypes, GuardStages
  <2> QED
    BY <2>1, <2>2, <2>3, <2>4, <2>5
<1>20. ASSUME NEW p \in Procs, Leave(p) PROVE TypeInv'
  <2>1. ProcTypes'
    BY <1>20 DEF Leave, ProcTypes, Stages, HoldingStages, CreatorStages, GuardStages
  <2>2. FileTypes'
    BY <1>20 DEF Leave, FileTypes, SetUp
  <2>3. GuardTypes'
    BY <1>20 DEF Leave, GuardTypes
  <2>4. StealTypes'
    BY <1>20 DEF Leave, StealTypes, SetUp
  <2>5. SetUp'
    BY <1>20 DEF Leave, SetUp, ProcTypes, FileTypes, StealTypes, GuardStages
  <2> QED
    BY <2>1, <2>2, <2>3, <2>4, <2>5
<1>21. ASSUME NEW p \in Procs, ReleaseRead(p) PROVE TypeInv'
  <2>1. ProcTypes'
    BY <1>21 DEF ReleaseRead, ProcTypes, Stages, HoldingStages, CreatorStages, GuardStages
  <2>2. FileTypes'
    BY <1>21 DEF ReleaseRead, FileTypes, SetUp
  <2>3. GuardTypes'
    BY <1>21 DEF ReleaseRead, GuardTypes
  <2>4. StealTypes'
    BY <1>21 DEF ReleaseRead, StealTypes, SetUp
  <2>5. SetUp'
    BY <1>21 DEF ReleaseRead, SetUp, ProcTypes, FileTypes, StealTypes, GuardStages
  <2> QED
    BY <2>1, <2>2, <2>3, <2>4, <2>5
<1>22. ASSUME NEW p \in Procs, ReleaseUnlink(p) PROVE TypeInv'
  <2>1. ProcTypes'
    BY <1>22 DEF ReleaseUnlink, ProcTypes, Stages, HoldingStages, CreatorStages, GuardStages
  <2>2. FileTypes'
    BY <1>22 DEF ReleaseUnlink, FileTypes, SetUp
  <2>3. GuardTypes'
    BY <1>22 DEF ReleaseUnlink, GuardTypes
  <2>4. StealTypes'
    BY <1>22 DEF ReleaseUnlink, StealTypes, SetUp
  <2>5. SetUp'
    BY <1>22 DEF ReleaseUnlink, SetUp, ProcTypes, FileTypes, StealTypes, GuardStages
  <2> QED
    BY <2>1, <2>2, <2>3, <2>4, <2>5
<1>23. ASSUME NEW p \in Procs, Crash(p) PROVE TypeInv'
  <2>1. ProcTypes'
    BY <1>23 DEF Crash, ProcTypes, Stages, HoldingStages, CreatorStages, GuardStages
  <2>2. FileTypes'
    BY <1>23 DEF Crash, FileTypes, SetUp
  <2>3. GuardTypes'
    BY <1>23 DEF Crash, GuardTypes
  <2>4. StealTypes'
    BY <1>23 DEF Crash, StealTypes, SetUp
  <2>5. SetUp'
    BY <1>23 DEF Crash, SetUp, ProcTypes, FileTypes, StealTypes, GuardStages
  <2> QED
    BY <2>1, <2>2, <2>3, <2>4, <2>5
<1>24. CASE LockAges
  BY <1>24, FileRecord DEF LockAges, ProcTypes, FileTypes, GuardTypes, StealTypes, SetUp
<1>25. ASSUME NEW x \in SlotPaths, GuardAges(x) PROVE TypeInv'
  BY <1>25, GuardRecord DEF GuardAges, ProcTypes, FileTypes, GuardTypes, StealTypes, SetUp
<1> QED
  BY <1>0, <1>1, <1>2, <1>3, <1>4, <1>5, <1>6, <1>7, <1>8, <1>9, <1>10, <1>11, <1>12, <1>13,
     <1>14, <1>15, <1>16, <1>17, <1>18, <1>19, <1>20, <1>21, <1>22, <1>23, <1>24, <1>25 DEF Next,
     Step, Ages

----------------------------------------------------------------------------
(* Part 2: LockInv. *)

\* A token names its process, and no token reads as an empty file.
LEMMA TokenOwner ==
  /\ \A t \in Tokens : t[1] \in Procs /\ t # Empty
  /\ \A p \in Procs : Token(p)[1] = p
BY NoneAssumption DEF Tokens, Token, Empty

\* The same of a token after a step.
LEMMA TokenOwnerNext ==
  \A p \in Procs : Token(p)'[1] = p
BY DEF Token

\* With hard links a lock file always carries a token.
LEMMA LockTypes ==
  ASSUME LockInv
  PROVE  /\ lock # NoFile => lock \in Files /\ lock.tok \in Tokens /\ lock.tok[1] \in Procs
                             /\ lock.full /\ Content(lock) = lock.tok
         /\ \A x \in SlotPaths : slots[x] # NoFile => slots[x] \in Guards /\ slots[x].by \in Procs
BY FileRecord, GuardRecord, TokenOwner DEF LockInv, NoFallback, TypeInv, TypeOK, FileTypes,
   GuardTypes, Content

\* Whoever isAbandoned gives up on is dead: probed so, or too old to be alive.
LEMMA AbandonedIsDead ==
  ASSUME LockInv, lock # NoFile, NEW p \in Procs, Abandoned(p, lock)
  PROVE  ~alive[lock.tok[1]]
BY DEF LockInv, OldIsDead, Abandoned

\* Whoever judgeStealSlot calls dead is dead.
LEMMA DeadSlotIsDead ==
  ASSUME LockInv, NEW x \in SlotPaths, slots[x] # NoFile,
         NEW p \in Procs, SlotDead(p, slots[x])
  PROVE  ~alive[slots[x].by]
BY DEF LockInv, OldIsDead, SlotDead

\* Two processes never stand before the rename of stealLock at once: of two
\* guards on one ladder the upper was only kept over dead lower ones.
LEMMA OneStealer ==
  ASSUME LockInv, NEW p \in Procs, NEW q \in Procs, At(p, "rename"), At(q, "rename")
  PROVE  p = q
<1>1. /\ StillThere(p) /\ StillThere(q) /\ seen[p].key = seen[q].key
      /\ chk[p] = rung[p] /\ chk[q] = rung[q]
      /\ rung[p] \in Rungs /\ rung[q] \in Rungs
  BY DEF LockInv, StealWindow, StillThere, StealsFromDead, TypeInv, SetUp, At, GuardStages
<1>2. slots[MySlot(p)].by = p /\ slots[MySlot(q)].by = q
  BY <1>1 DEF LockInv, LadderStands, OwnGuard, At, GuardStages
<1>3. ~(rung[p] < rung[q]) /\ ~(rung[q] < rung[p])
  BY <1>1, <1>2 DEF LockInv, LadderStands, DeadBelow, At, MySlot, SlotAt
<1>4. rung[p] = rung[q]
  BY <1>1, <1>3, ConstAssumption DEF Rungs
<1> QED
  BY <1>1, <1>2, <1>4 DEF MySlot, SlotAt

\* Whose ladder position does not move keeps its guard path.
LEMMA SlotFrame ==
  \A q \in Procs : seen'[q] = seen[q] =>
    /\ \A i : SlotAt(q, i)' = SlotAt(q, i)
    /\ rung'[q] = rung[q] => MySlot(q)' = MySlot(q)
BY DEF MySlot, SlotAt

\* A stealer's guard paths are paths of its ladder.
LEMMA SlotDomain ==
  ASSUME LockInv, NEW q \in Procs, alive[q], pc[q] \in {"ladder"} \union GuardStages
  PROVE  /\ \A i \in Rungs : SlotAt(q, i) \in SlotPaths
         /\ rung[q] \in Rungs => MySlot(q) \in SlotPaths
BY DEF LockInv, StealsFromDead, MySlot, SlotAt, Contents, SlotPaths

\* Every step keeps LockInv, in a KindWorld.
LEMMA LockStep ==
  ASSUME KindWorld, LockInv, [Next]_vars
  PROVE  LockInv'
<1>0. TypeInv /\ TypeInv' /\ HardLinks
  BY TypeStep DEF LockInv, KindWorld
<1> USE <1>0 DEF LockInv, At, Goto
<1>1. ASSUME NEW p \in Procs, Start(p) PROVE LockInv'
  <2>1. NoFallback'
    BY <1>1 DEF Start, NoFallback, CreatorStages, TypeInv, TypeOK, ProcTypes, StealTypes
  <2>2. HeldByOwner'
    BY <1>1, LockTypes, TokenOwner DEF Start, HeldByOwner, HoldingStages, Token, TypeInv, TypeOK,
       ProcTypes, StealTypes
  <2>3. OldIsDead'
    BY <1>1 DEF Start, OldIsDead, File, Guard, GuardTypes, TypeInv, TypeOK, ProcTypes, StealTypes
  <2>4. NoGuardLeftBehind'
    BY <1>1, SlotFrame DEF Start, NoGuardLeftBehind, GuardStages, TypeInv, TypeOK, ProcTypes,
       StealTypes
  <2>5. StealsFromDead'
    BY <1>1 DEF Start, StealsFromDead, GuardStages, TypeInv, TypeOK, ProcTypes, StealTypes
  <2>6. LadderStands'
    BY <1>1, SlotFrame DEF Start, LadderStands, StillThere, OwnGuard, DeadBelow, GuardStages,
       TypeInv, TypeOK, ProcTypes, StealTypes
  <2>7. StealWindow'
    BY <1>1 DEF Start, StealWindow, StillThere, TypeInv, TypeOK, ProcTypes, StealTypes
  <2>8. GuardWritten'
    BY <1>1, LockTypes DEF Start, GuardWritten, GuardTypes, TypeInv, TypeOK, ProcTypes, StealTypes
  <2> QED
    BY <2>1, <2>2, <2>3, <2>4, <2>5, <2>6, <2>7, <2>8
<1>2. ASSUME NEW p \in Procs, Link(p) PROVE LockInv'
  <2>0. CASE lock = NoFile
    <3>0. /\ lock' \in Files /\ lock'.tok = Token(p) /\ lock'.full /\ ~lock'.old
          /\ lock' # NoFile
      <4>1. FreshIno \in Inos /\ Token(p) \in Tokens
        BY <1>2, FreshInoType, TokenType DEF Link
      <4>2. lock' = File(FreshIno, Token(p), TRUE, FALSE)
        BY <1>2, <2>0 DEF Link
      <4> QED
        BY <4>1, <4>2, FileRecord DEF File
    <3>1. /\ alive[p] /\ pc[p] \in {"publish", "retry"} /\ pc' = [pc EXCEPT ![p] = "hold"]
          /\ UNCHANGED <<alive, acq, slots, seen, rung, chk, claim, open>>
      BY <1>2, <2>0 DEF Link
    <3> HIDE <1>0
    <3> USE <2>0, <3>0, <3>1
    <3>2. NoFallback'
      BY <1>0 DEF NoFallback, CreatorStages, ProcTypes, TypeOK, TypeInv
    <3>3. HeldByOwner'
      BY <1>0, TokenOwner DEF HeldByOwner, HoldingStages, Token, ProcTypes, TypeOK, TypeInv
    <3>4. OldIsDead'
      BY DEF OldIsDead
    <3>5. NoGuardLeftBehind'
      BY <1>0, SlotFrame DEF NoGuardLeftBehind, GuardStages, ProcTypes, TypeOK, TypeInv
    <3>6. StealsFromDead'
      BY <1>0 DEF StealsFromDead, GuardStages, ProcTypes, TypeOK, TypeInv
    <3>7. \A q \in Procs : alive[q] /\ pc[q] \in GuardStages => ~StillThere(q)'
      BY TokenOwner DEF StealsFromDead, StillThere
    <3>8. LadderStands'
      BY <1>0, <3>7 DEF LadderStands, GuardStages, ProcTypes, TypeOK, TypeInv
    <3>9. StealWindow'
      BY <1>0, <3>7 DEF StealWindow, StillThere, GuardStages, ProcTypes, TypeOK, TypeInv
    <3>10. GuardWritten'
      BY <1>0, LockTypes DEF GuardWritten, ProcTypes, TypeOK, TypeInv
    <3> QED
      BY <1>0, <3>2, <3>3, <3>4, <3>5, <3>6, <3>8, <3>9, <3>10
  <2> SUFFICES ASSUME lock # NoFile PROVE LockInv'
    BY <2>0
  <2>1. NoFallback'
    BY <1>2 DEF Link, NoFallback, CreatorStages, TypeInv, TypeOK, ProcTypes, StealTypes
  <2>2. HeldByOwner'
    BY <1>2, LockTypes, TokenOwner DEF Link, HeldByOwner, HoldingStages, Token, TypeInv, TypeOK,
       ProcTypes, StealTypes
  <2>3. OldIsDead'
    BY <1>2 DEF Link, OldIsDead, File, Guard, GuardTypes, TypeInv, TypeOK, ProcTypes, StealTypes
  <2>4. NoGuardLeftBehind'
    BY <1>2, SlotFrame DEF Link, NoGuardLeftBehind, GuardStages, TypeInv, TypeOK, ProcTypes,
       StealTypes
  <2>5. StealsFromDead'
    BY <1>2 DEF Link, StealsFromDead, GuardStages, TypeInv, TypeOK, ProcTypes, StealTypes
  <2>6. LadderStands'
    BY <1>2, SlotFrame DEF Link, LadderStands, StillThere, OwnGuard, DeadBelow, GuardStages,
       TypeInv, TypeOK, ProcTypes, StealTypes
  <2>7. StealWindow'
    BY <1>2 DEF Link, StealWindow, StillThere, TypeInv, TypeOK, ProcTypes, StealTypes
  <2>8. GuardWritten'
    BY <1>2, LockTypes DEF Link, GuardWritten, GuardTypes, TypeInv, TypeOK, ProcTypes, StealTypes
  <2> QED
    BY <2>1, <2>2, <2>3, <2>4, <2>5, <2>6, <2>7, <2>8
<1>3. ASSUME NEW p \in Procs, GiveUp(p) PROVE LockInv'
  <2>1. NoFallback'
    BY <1>3 DEF GiveUp, NoFallback, CreatorStages, TypeInv, TypeOK, ProcTypes, StealTypes
  <2>2. HeldByOwner'
    BY <1>3, LockTypes, TokenOwner DEF GiveUp, HeldByOwner, HoldingStages, Token, TypeInv,
       TypeOK, ProcTypes, StealTypes
  <2>3. OldIsDead'
    BY <1>3 DEF GiveUp, OldIsDead, File, Guard, GuardTypes, TypeInv, TypeOK, ProcTypes, StealTypes
  <2>4. NoGuardLeftBehind'
    BY <1>3, SlotFrame DEF GiveUp, NoGuardLeftBehind, GuardStages, TypeInv, TypeOK, ProcTypes,
       StealTypes
  <2>5. StealsFromDead'
    BY <1>3 DEF GiveUp, StealsFromDead, GuardStages, TypeInv, TypeOK, ProcTypes, StealTypes
  <2>6. LadderStands'
    BY <1>3, SlotFrame DEF GiveUp, LadderStands, StillThere, OwnGuard, DeadBelow, GuardStages,
       TypeInv, TypeOK, ProcTypes, StealTypes
  <2>7. StealWindow'
    BY <1>3 DEF GiveUp, StealWindow, StillThere, TypeInv, TypeOK, ProcTypes, StealTypes
  <2>8. GuardWritten'
    BY <1>3, LockTypes DEF GiveUp, GuardWritten, GuardTypes, TypeInv, TypeOK, ProcTypes, StealTypes
  <2> QED
    BY <2>1, <2>2, <2>3, <2>4, <2>5, <2>6, <2>7, <2>8
<1>4. ASSUME NEW p \in Procs, Judge(p) PROVE LockInv'
  <2>1. NoFallback'
    BY <1>4 DEF Judge, NoFallback, CreatorStages, TypeInv, TypeOK, ProcTypes, StealTypes
  <2>2. HeldByOwner'
    BY <1>4, LockTypes, TokenOwner DEF Judge, HeldByOwner, HoldingStages, Token, TypeInv, TypeOK,
       ProcTypes, StealTypes
  <2>3. OldIsDead'
    BY <1>4 DEF Judge, OldIsDead, File, Guard, GuardTypes, TypeInv, TypeOK, ProcTypes, StealTypes
  <2>4. NoGuardLeftBehind'
    BY <1>4, SlotFrame DEF Judge, NoGuardLeftBehind, GuardStages, TypeInv, TypeOK, ProcTypes,
       StealTypes
  <2>5. StealsFromDead'
    <3>1. CASE UNCHANGED seen /\ \E l \in {"hold", "retry"} : Goto(p, l)
      BY <1>4, <3>1 DEF Judge, StealsFromDead, GuardStages, TypeInv, TypeOK, ProcTypes
    <3>2. CASE /\ lock # NoFile /\ Abandoned(p, lock) /\ Goto(p, "ladder")
               /\ seen' = [seen EXCEPT ![p] = [key |-> Content(lock), ino |-> lock.ino]]
      BY <1>4, <3>2, LockTypes, AbandonedIsDead
         DEF Judge, StealsFromDead, GuardStages, TypeInv, TypeOK, ProcTypes, StealTypes
    <3> QED
      BY <1>4, <3>1, <3>2 DEF Judge
  <2>6. LadderStands'
    BY <1>4, SlotFrame DEF Judge, LadderStands, StillThere, OwnGuard, DeadBelow, GuardStages,
       TypeInv, TypeOK, ProcTypes, StealTypes
  <2>7. StealWindow'
    BY <1>4 DEF Judge, StealWindow, StillThere, TypeInv, TypeOK, ProcTypes, StealTypes
  <2>8. GuardWritten'
    BY <1>4, LockTypes DEF Judge, GuardWritten, GuardTypes, TypeInv, TypeOK, ProcTypes, StealTypes
  <2> QED
    BY <2>1, <2>2, <2>3, <2>4, <2>5, <2>6, <2>7, <2>8
<1>5. ASSUME NEW p \in Procs, Climb(p) PROVE LockInv'
  <2>a. CASE UNCHANGED slots /\ Retreat(p)
    <3>1. NoFallback' /\ HeldByOwner' /\ OldIsDead'
      BY <1>5, <2>a, LockTypes DEF Climb, Retreat, NoFallback, HeldByOwner, OldIsDead,
         HoldingStages, CreatorStages, Token, TypeInv, TypeOK, ProcTypes
    <3>4. GuardWritten'
      BY <1>5, <2>a, LockTypes DEF Climb, Retreat, GuardWritten, TypeInv, TypeOK, ProcTypes
    <3>2. NoGuardLeftBehind' /\ StealsFromDead'
      BY <1>5, <2>a, SlotFrame DEF Climb, Retreat, NoGuardLeftBehind, StealsFromDead,
         GuardStages, TypeInv, TypeOK, ProcTypes, StealTypes
    <3>3. LadderStands' /\ StealWindow'
      BY <1>5, <2>a, SlotFrame DEF Climb, Retreat, LadderStands, OwnGuard, DeadBelow,
         GuardStages, StealWindow, StillThere,
         TypeInv, TypeOK, ProcTypes, StealTypes
    <3> QED
      BY <3>1, <3>2, <3>3, <3>4
  <2>b. CASE /\ slots[MySlot(p)] # NoFile /\ rung' = [rung EXCEPT ![p] = @ + 1]
             /\ UNCHANGED <<pc, slots, seen, chk>>
    <3>1. NoFallback' /\ HeldByOwner' /\ OldIsDead'
      BY <1>5, <2>b, LockTypes DEF Climb, NoFallback, HeldByOwner, OldIsDead, Token
    <3>4. GuardWritten'
      BY <1>5, <2>b, LockTypes DEF Climb, GuardWritten, TypeInv, TypeOK, ProcTypes
    <3>2. NoGuardLeftBehind' /\ StealsFromDead'
      BY <1>5, <2>b, SlotFrame DEF Climb, NoGuardLeftBehind, StealsFromDead,
         GuardStages, TypeInv, TypeOK, ProcTypes, StealTypes
    <3>3. LadderStands' /\ StealWindow'
      BY <1>5, <2>b, SlotFrame DEF Climb, LadderStands, OwnGuard, DeadBelow, GuardStages,
         StealWindow, StillThere,
         TypeInv, TypeOK, ProcTypes, StealTypes
    <3> QED
      BY <3>1, <3>2, <3>3, <3>4
  <2>c. CASE /\ rung[p] # Slots /\ slots[MySlot(p)] = NoFile
             /\ slots' = [slots EXCEPT ![MySlot(p)] = Guard(p, FALSE, FALSE)]
             /\ Goto(p, "slotWrite") /\ UNCHANGED <<seen, rung, chk>>
    <3>0. /\ alive[p] /\ pc[p] = "ladder" /\ pc' = [pc EXCEPT ![p] = "slotWrite"]
          /\ UNCHANGED <<alive, acq, lock, seen, rung, chk, claim, open>>
      BY <1>5, <2>c DEF Climb
    <3>1. rung[p] \in Rungs
      BY <2>c, ConstAssumption DEF Rungs, TypeInv, TypeOK, StealTypes
    <3>2. MySlot(p) \in SlotPaths
      BY <3>0, <3>1, SlotDomain
    <3>3. /\ slots'[MySlot(p)] # NoFile /\ slots'[MySlot(p)].by = p /\ ~slots'[MySlot(p)].old
          /\ \A x \in SlotPaths \ {MySlot(p)} : slots'[x] = slots[x]
      BY <2>c, <3>2, GuardRecord DEF TypeInv, TypeOK, GuardTypes, Guard
    <3>4. \A q \in Procs : MySlot(q)' = MySlot(q) /\ \A k : SlotAt(q, k)' = SlotAt(q, k)
      BY <2>c, SlotFrame
    <3>5. NoFallback' /\ HeldByOwner' /\ OldIsDead'
      BY <3>0, <3>2, <3>3, LockTypes DEF NoFallback, HeldByOwner, OldIsDead,
         HoldingStages, CreatorStages, Token, TypeInv, TypeOK, ProcTypes
    <3>6. NoGuardLeftBehind'
      BY <3>0, <3>3, <3>4 DEF NoGuardLeftBehind, GuardStages, TypeInv, TypeOK, ProcTypes
    <3>7. StealsFromDead'
      BY <3>0, <3>1 DEF StealsFromDead, GuardStages, TypeInv, TypeOK, ProcTypes
    <3>8. OwnGuard(p)'
      BY <3>3, <3>4 DEF OwnGuard
    <3>9. ASSUME NEW q \in Procs \ {p}, alive[q], StillThere(q), pc[q] \in GuardStages
          PROVE  /\ OwnGuard(q)'
                 /\ pc[q] \in {"verify", "reinspect", "rename"} => DeadBelow(q, chk[q])'
      <4>1. MySlot(q) \in SlotPaths /\ \A k \in Rungs : SlotAt(q, k) \in SlotPaths
        BY <3>9, SlotDomain DEF StealsFromDead
      <4>2. OwnGuard(q) /\ (pc[q] \in {"verify", "reinspect", "rename"} => DeadBelow(q, chk[q]))
        BY <3>9 DEF LadderStands
      <4>3. slots'[MySlot(q)] = slots[MySlot(q)]
        BY <2>c, <3>3, <4>1, <4>2 DEF OwnGuard
      <4>4. pc[q] \in {"verify", "reinspect", "rename"}
              => \A k \in Rungs : k < chk[q] => slots'[SlotAt(q, k)] = slots[SlotAt(q, k)]
        BY <2>c, <3>3, <4>1, <4>2 DEF DeadBelow
      <4> QED
        BY <3>0, <3>4, <3>9, <4>2, <4>3, <4>4 DEF OwnGuard, DeadBelow
    <3>10. LadderStands'
      <4>1. \A q \in Procs : StillThere(q)' <=> StillThere(q)
        BY <3>0 DEF StillThere
      <4>2. \A q \in Procs \ {p} : pc'[q] = pc[q]
        BY <3>0 DEF TypeInv, TypeOK, ProcTypes
      <4>3. pc'[p] = "slotWrite"
        BY <3>0 DEF TypeInv, TypeOK, ProcTypes
      <4> QED
        BY <3>0, <3>8, <3>9, <4>1, <4>2, <4>3 DEF LadderStands, GuardStages, StillThere
    <3>11. StealWindow'
      BY <3>0 DEF StealWindow, StillThere, TypeInv, TypeOK, ProcTypes
    <3>12. GuardWritten'
      BY <3>0, <3>3, LockTypes DEF GuardWritten, TypeInv, TypeOK, ProcTypes
    <3> QED
      BY <3>5, <3>6, <3>7, <3>10, <3>11, <3>12
  <2> QED
    BY <1>5, <2>a, <2>b, <2>c DEF Climb
<1>6. ASSUME NEW p \in Procs, WriteSlot(p) PROVE LockInv'
  <2>b. /\ At(p, "slotWrite") /\ pc' = [pc EXCEPT ![p] = "verify"]
        /\ UNCHANGED <<alive, acq, lock, seen, rung, chk, claim, open>>
    BY <1>6 DEF WriteSlot
  <2>0. \A x \in SlotPaths :
          /\ slots'[x] = NoFile <=> slots[x] = NoFile
          /\ slots[x] # NoFile => slots'[x].by = slots[x].by /\ (slots'[x].old => slots[x].old)
    BY <1>6, GuardRecord DEF WriteSlot, TypeInv, TypeOK, GuardTypes, Guard
  <2>a. \A q \in Procs : MySlot(q)' = MySlot(q) /\ \A k : SlotAt(q, k)' = SlotAt(q, k)
    BY <1>6, SlotFrame DEF WriteSlot
  <2>1. NoFallback'
    BY <1>6 DEF WriteSlot, NoFallback, CreatorStages, TypeInv, TypeOK, ProcTypes, StealTypes
  <2>2. HeldByOwner'
    BY <1>6, LockTypes, TokenOwner DEF WriteSlot, HeldByOwner, HoldingStages, Token, TypeInv,
       TypeOK, ProcTypes, StealTypes
  <2>3. OldIsDead'
    BY <1>6, <2>0 DEF WriteSlot, OldIsDead
  <2>4. NoGuardLeftBehind'
    BY <2>b, <2>0, <2>a DEF NoGuardLeftBehind, GuardStages, TypeInv, TypeOK, ProcTypes
  <2>5. StealsFromDead'
    BY <1>6 DEF WriteSlot, StealsFromDead, GuardStages, TypeInv, TypeOK, ProcTypes, StealTypes
  <2>6. LadderStands'
    <3>1. ASSUME NEW q \in Procs, alive[q], StillThere(q), pc[q] \in GuardStages
          PROVE  /\ OwnGuard(q)'
                 /\ pc[q] \in {"verify", "reinspect", "rename"} => DeadBelow(q, chk[q])'
      <4>1. MySlot(q) \in SlotPaths /\ \A k \in Rungs : SlotAt(q, k) \in SlotPaths
        BY <3>1, SlotDomain DEF StealsFromDead
      <4>2. OwnGuard(q) /\ (pc[q] \in {"verify", "reinspect", "rename"} => DeadBelow(q, chk[q]))
        BY <3>1 DEF LadderStands
      <4> QED
        BY <2>b, <2>0, <2>a, <4>1, <4>2 DEF OwnGuard, DeadBelow
    <3>2. At(p, "slotWrite") /\ chk[p] = 0 /\ chk' = chk
      BY <1>6 DEF WriteSlot, TypeInv, SetUp, GuardStages
    <3>3. DeadBelow(p, 0)'
      BY ConstAssumption DEF DeadBelow, Rungs
    <3> QED
      BY <2>b, <3>1, <3>2, <3>3 DEF LadderStands, StillThere, GuardStages, TypeInv, TypeOK,
         ProcTypes
  <2>7. StealWindow'
    BY <1>6 DEF WriteSlot, StealWindow, StillThere, TypeInv, TypeOK, ProcTypes, StealTypes
  <2>8. GuardWritten'
    <3>1. \A x \in SlotPaths : slots[x] # NoFile /\ slots[x].by = p => slots'[x].full
      BY <1>6, <2>b, GuardRecord DEF WriteSlot, NoGuardLeftBehind, TypeInv, TypeOK, GuardTypes,
         Guard
    <3>2. \A x \in SlotPaths : slots[x] # NoFile /\ slots[x].by # p => slots'[x] = slots[x]
      BY <1>6 DEF WriteSlot, TypeInv, TypeOK, GuardTypes
    <3> QED
      BY <2>0, <2>b, <3>1, <3>2, LockTypes DEF GuardWritten, TypeInv, TypeOK, ProcTypes
  <2> QED
    BY <2>1, <2>2, <2>3, <2>4, <2>5, <2>6, <2>7, <2>8
<1>7. ASSUME NEW p \in Procs, Verify(p) PROVE LockInv'
  <2>1. NoFallback'
    BY <1>7 DEF Verify, NoFallback, CreatorStages, TypeInv, TypeOK, ProcTypes, StealTypes
  <2>2. HeldByOwner'
    BY <1>7, LockTypes, TokenOwner DEF Verify, HeldByOwner, HoldingStages, Token, TypeInv,
       TypeOK, ProcTypes, StealTypes
  <2>3. OldIsDead'
    BY <1>7 DEF Verify, OldIsDead, File, Guard, GuardTypes, TypeInv, TypeOK, ProcTypes, StealTypes
  <2>4. NoGuardLeftBehind'
    BY <1>7, SlotFrame DEF Verify, NoGuardLeftBehind, GuardStages, TypeInv, TypeOK, ProcTypes,
       StealTypes
  <2>5. StealsFromDead'
    BY <1>7 DEF Verify, StealsFromDead, GuardStages, TypeInv, TypeOK, ProcTypes, StealTypes
  <2>6. LadderStands'
    <3>0. /\ At(p, "verify") /\ chk[p] \in 0..Slots /\ rung[p] \in Rungs /\ chk[p] <= rung[p]
          /\ UNCHANGED <<alive, lock, slots, seen, rung>>
      BY <1>7 DEF Verify, TypeInv, TypeOK, SetUp, StealTypes, StealsFromDead, GuardStages
    <3>1. \A q \in Procs, k \in Nat : (OwnGuard(q)' <=> OwnGuard(q)) /\ (DeadBelow(q,
       k)' <=> DeadBelow(q, k))
      BY <3>0, SlotFrame DEF OwnGuard, DeadBelow
    <3>2. CASE chk' = chk
      BY <1>7, <3>0, <3>1, <3>2 DEF Verify, LadderStands, StillThere, GuardStages, TypeInv,
         TypeOK, ProcTypes, StealTypes
    <3>3. CASE /\ chk[p] # rung[p] /\ slots[SlotAt(p, chk[p])] # NoFile
               /\ SlotDead(p, slots[SlotAt(p, chk[p])])
               /\ chk' = [chk EXCEPT ![p] = @ + 1] /\ UNCHANGED pc
      <4>1. chk[p] \in Rungs
        BY <3>0, <3>3, ConstAssumption DEF Rungs
      <4>2. ~alive[slots[SlotAt(p, chk[p])].by]
        BY <3>0, <3>3, <4>1, SlotDomain, DeadSlotIsDead DEF GuardStages
      <4>3. DeadBelow(p, chk[p]) => DeadBelow(p, chk[p] + 1)
        BY <3>3, <4>1, <4>2, ConstAssumption DEF DeadBelow, Rungs
      <4> QED
        BY <3>0, <3>1, <3>3, <4>3 DEF LadderStands, StillThere, GuardStages, TypeInv, TypeOK,
           ProcTypes, StealTypes
    <3> QED
      BY <1>7, <3>2, <3>3 DEF Verify
  <2>7. StealWindow'
    BY <1>7 DEF Verify, StealWindow, StillThere, TypeInv, TypeOK, ProcTypes, StealTypes
  <2>8. GuardWritten'
    BY <1>7, LockTypes DEF Verify, GuardWritten, GuardTypes, TypeInv, TypeOK, ProcTypes, StealTypes
  <2> QED
    BY <2>1, <2>2, <2>3, <2>4, <2>5, <2>6, <2>7, <2>8
<1>8. ASSUME NEW p \in Procs, Reinspect(p) PROVE LockInv'
  <2>1. NoFallback'
    BY <1>8 DEF Reinspect, NoFallback, CreatorStages, TypeInv, TypeOK, ProcTypes, StealTypes
  <2>2. HeldByOwner'
    BY <1>8, LockTypes, TokenOwner DEF Reinspect, HeldByOwner, HoldingStages, Token, TypeInv,
       TypeOK, ProcTypes, StealTypes
  <2>3. OldIsDead'
    BY <1>8 DEF Reinspect, OldIsDead, File, Guard, GuardTypes, TypeInv, TypeOK, ProcTypes,
       StealTypes
  <2>4. NoGuardLeftBehind'
    BY <1>8, SlotFrame DEF Reinspect, NoGuardLeftBehind, GuardStages, TypeInv, TypeOK, ProcTypes,
       StealTypes
  <2>5. StealsFromDead'
    BY <1>8 DEF Reinspect, StealsFromDead, GuardStages, TypeInv, TypeOK, ProcTypes, StealTypes
  <2>6. LadderStands'
    BY <1>8, SlotFrame DEF Reinspect, LadderStands, StillThere, OwnGuard, DeadBelow, GuardStages,
       TypeInv, TypeOK, ProcTypes, StealTypes
  <2>7. StealWindow'
    <3>1. lock # NoFile /\ seen[p] # None
            /\ [key |-> Content(lock), ino |-> lock.ino] = seen[p]
              => StillThere(p) /\ lock.ino = seen[p].ino
      <4> SUFFICES ASSUME lock # NoFile, seen[p] = [key |-> Content(lock), ino |-> lock.ino],
         seen[p] # None
                   PROVE  StillThere(p) /\ lock.ino = seen[p].ino
        OBVIOUS
      <4>1. seen[p].key = Content(lock) /\ seen[p].ino = lock.ino
        OBVIOUS
      <4> QED
        BY <4>1, LockTypes DEF StillThere
    <3>2. seen[p] # None
      BY <1>8 DEF Reinspect, TypeInv, SetUp, GuardStages
    <3> QED
      BY <1>8, <3>1, <3>2 DEF Reinspect, StealWindow, StillThere, TypeInv, TypeOK, ProcTypes
  <2>8. GuardWritten'
    BY <1>8, LockTypes DEF Reinspect, GuardWritten, GuardTypes, TypeInv, TypeOK, ProcTypes,
       StealTypes
  <2> QED
    BY <2>1, <2>2, <2>3, <2>4, <2>5, <2>6, <2>7, <2>8
<1>9. ASSUME NEW p \in Procs, Rename(p) PROVE LockInv'
  <2>0. /\ At(p, "rename") /\ lock # NoFile /\ lock.tok = seen[p].key /\ lock.ino = seen[p].ino
        /\ ~alive[lock.tok[1]] /\ lock.full
    BY <1>9 DEF Rename, StealWindow, StillThere, StealsFromDead, NoFallback, GuardStages
  <2>a. /\ lock' = NoFile /\ claim' = [claim EXCEPT ![p] = lock] /\ pc' = [pc EXCEPT ![p] = "confirm"]
        /\ UNCHANGED <<alive, acq, slots, seen, rung, chk, open>>
    BY <1>9, <2>0 DEF Rename
  <2>1. NoFallback'
    BY <1>9 DEF Rename, NoFallback, CreatorStages, TypeInv, TypeOK, ProcTypes, StealTypes
  <2>2. HeldByOwner'
    BY <2>0, <2>a, LockTypes, TokenOwner DEF HeldByOwner, HoldingStages, TypeInv, TypeOK, ProcTypes
  <2>3. OldIsDead'
    BY <1>9 DEF Rename, OldIsDead, File, Guard, GuardTypes, TypeInv, TypeOK, ProcTypes, StealTypes
  <2>4. NoGuardLeftBehind'
    BY <1>9, SlotFrame DEF Rename, NoGuardLeftBehind, GuardStages, TypeInv, TypeOK, ProcTypes,
       StealTypes
  <2>5. StealsFromDead'
    BY <1>9 DEF Rename, StealsFromDead, GuardStages, TypeInv, TypeOK, ProcTypes, StealTypes
  <2>6. LadderStands'
    BY <1>9, SlotFrame DEF Rename, LadderStands, StillThere, OwnGuard, DeadBelow, GuardStages,
       TypeInv, TypeOK, ProcTypes, StealTypes
  <2>7. StealWindow'
    BY <2>0, <2>a, OneStealer DEF StealWindow, StillThere, TypeInv, TypeOK, ProcTypes, FileTypes
  <2>8. GuardWritten'
    BY <1>9, LockTypes DEF Rename, GuardWritten, GuardTypes, TypeInv, TypeOK, ProcTypes, StealTypes
  <2> QED
    BY <2>1, <2>2, <2>3, <2>4, <2>5, <2>6, <2>7, <2>8
<1>10. ASSUME NEW p \in Procs, Confirm(p) PROVE LockInv'
  <2>0. [key |-> Content(claim[p]), ino |-> claim[p].ino] = seen[p]
    <3>1. /\ claim[p].full /\ claim[p].tok = seen[p].key /\ claim[p].ino = seen[p].ino
          /\ seen[p] \in Judgements
      BY <1>10 DEF Confirm, StealWindow, TypeInv, TypeOK, SetUp, StealTypes, GuardStages
    <3> QED
      BY <3>1 DEF Content, Judgements
  <2>a. /\ At(p, "confirm") /\ claim' = [claim EXCEPT ![p] = NoFile] /\ chk' = [chk EXCEPT ![p] = 0]
        /\ pc' = [pc EXCEPT ![p] = "clear"]
        /\ UNCHANGED <<alive, acq, lock, slots, seen, rung, open>>
    BY <1>10, <2>0 DEF Confirm
  <2>1. NoFallback'
    BY <2>a DEF NoFallback, CreatorStages, TypeInv, TypeOK, ProcTypes
  <2>2. HeldByOwner'
    BY <1>10, LockTypes, TokenOwner DEF Confirm, HeldByOwner, HoldingStages, Token, TypeInv,
       TypeOK, ProcTypes, StealTypes
  <2>3. OldIsDead'
    BY <1>10 DEF Confirm, OldIsDead, File, Guard, GuardTypes, TypeInv, TypeOK, ProcTypes, StealTypes
  <2>4. NoGuardLeftBehind'
    BY <1>10, SlotFrame DEF Confirm, NoGuardLeftBehind, GuardStages, TypeInv, TypeOK, ProcTypes,
       StealTypes
  <2>5. StealsFromDead'
    BY <1>10 DEF Confirm, StealsFromDead, GuardStages, TypeInv, TypeOK, ProcTypes, StealTypes
  <2>6. LadderStands'
    BY <2>a, SlotFrame DEF LadderStands, StealWindow, StillThere, OwnGuard, DeadBelow,
       GuardStages, TypeInv, TypeOK, ProcTypes, StealTypes
  <2>7. StealWindow'
    BY <2>a DEF StealWindow, StillThere, TypeInv, TypeOK, ProcTypes, FileTypes
  <2>8. GuardWritten'
    BY <1>10, LockTypes DEF Confirm, GuardWritten, GuardTypes, TypeInv, TypeOK, ProcTypes,
       StealTypes
  <2> QED
    BY <2>1, <2>2, <2>3, <2>4, <2>5, <2>6, <2>7, <2>8
<1>11. ASSUME NEW p \in Procs, Clear(p) PROVE LockInv'
  <2>0. /\ At(p, "clear") /\ ~StillThere(p) /\ seen[p] # None
        /\ UNCHANGED <<alive, acq, lock, seen, rung, claim, open>>
        /\ \A q \in Procs \ {p} : chk'[q] = chk[q]
        /\ \A q \in Procs : MySlot(q)' = MySlot(q) /\ \A k : SlotAt(q, k)' = SlotAt(q, k)
    BY <1>11, SlotFrame DEF Clear, StealWindow, TypeInv, TypeOK, SetUp, StealTypes, GuardStages
  <2>a. \A x \in SlotPaths : slots'[x] = slots[x] \/ (slots'[x] = NoFile /\ x = SlotAt(p, chk[p]))
    BY <1>11 DEF Clear, TypeInv, TypeOK, GuardTypes
  <2>1. NoFallback'
    BY <1>11 DEF Clear, NoFallback, CreatorStages, TypeInv, TypeOK, ProcTypes, StealTypes
  <2>2. HeldByOwner'
    BY <1>11, LockTypes, TokenOwner DEF Clear, HeldByOwner, HoldingStages, Token, TypeInv,
       TypeOK, ProcTypes, StealTypes
  <2>3. OldIsDead'
    BY <2>0, <2>a DEF OldIsDead
  <2>4. NoGuardLeftBehind'
    BY <1>11, <2>0, <2>a DEF Clear, NoGuardLeftBehind, GuardStages, TypeInv, TypeOK, ProcTypes
  <2>5. StealsFromDead'
    BY <1>11 DEF Clear, StealsFromDead, GuardStages, TypeInv, TypeOK, ProcTypes, StealTypes
  <2>6. LadderStands'
    <3>1. ASSUME NEW q \in Procs, alive[q], StillThere(q), pc[q] \in GuardStages
          PROVE  /\ OwnGuard(q)'
                 /\ pc[q] \in {"verify", "reinspect", "rename"} => DeadBelow(q, chk[q])'
      <4>1. MySlot(q) \in SlotPaths /\ \A k \in Rungs : SlotAt(q, k) \in SlotPaths
        BY <3>1, SlotDomain DEF StealsFromDead
      <4>2. OwnGuard(q) /\ (pc[q] \in {"verify", "reinspect", "rename"} => DeadBelow(q, chk[q]))
        BY <3>1 DEF LadderStands
      <4>3. \A k, m : SlotAt(q, k) # SlotAt(p, m)
        BY <2>0, <3>1 DEF StillThere, SlotAt
      <4>4. slots'[MySlot(q)] = slots[MySlot(q)] /\ \A k \in Rungs : slots'[SlotAt(q,
         k)] = slots[SlotAt(q, k)]
        BY <2>a, <4>1, <4>3 DEF MySlot
      <4> QED
        BY <2>0, <3>1, <4>2, <4>4 DEF OwnGuard, DeadBelow
    <3> QED
      BY <1>11, <2>0, <3>1 DEF Clear, LadderStands, StillThere, GuardStages, TypeInv, TypeOK,
         ProcTypes, StealTypes
  <2>7. StealWindow'
    BY <1>11 DEF Clear, StealWindow, StillThere, TypeInv, TypeOK, ProcTypes, StealTypes
  <2>8. GuardWritten'
    BY <1>11, <2>0, <2>a, LockTypes DEF Clear, GuardWritten, TypeInv, TypeOK, ProcTypes
  <2> QED
    BY <2>1, <2>2, <2>3, <2>4, <2>5, <2>6, <2>7, <2>8
<1>12. ASSUME NEW p \in Procs, Unguard(p) PROVE LockInv'
  <2>1. NoFallback'
    BY <1>12 DEF Unguard, Retreat, NoFallback, CreatorStages, TypeInv, TypeOK, ProcTypes, StealTypes
  <2>2. HeldByOwner'
    BY <1>12, LockTypes, TokenOwner DEF Unguard, Retreat, HeldByOwner, HoldingStages, Token,
       TypeInv, TypeOK, ProcTypes, StealTypes
  <2>3. OldIsDead'
    BY <1>12 DEF Unguard, Retreat, OldIsDead, File, Guard, GuardTypes, TypeInv, TypeOK,
       ProcTypes, StealTypes
  <2>4. NoGuardLeftBehind'
    <3>1. CASE Goto(p, "unguardUnlink") /\ UNCHANGED <<seen, rung, chk>>
      BY <1>12, <3>1, SlotFrame DEF Unguard, NoGuardLeftBehind, GuardStages, TypeInv, TypeOK,
         ProcTypes
    <3>2. CASE Retreat(p) /\ OwnGuard(p) /\ ~slots[MySlot(p)].full
      BY <1>12, <3>2, LockTypes, SlotDomain DEF Unguard, OwnGuard, GuardWritten, StealsFromDead,
         GuardStages
    <3>3. CASE Retreat(p) /\ ~OwnGuard(p)
      BY <1>12, <3>3, SlotFrame DEF Unguard, Retreat, OwnGuard, NoGuardLeftBehind, GuardStages,
         TypeInv, TypeOK, ProcTypes, StealTypes
    <3> QED
      BY <1>12, <3>1, <3>2, <3>3 DEF Unguard, OwnGuard
  <2>5. StealsFromDead'
    BY <1>12 DEF Unguard, Retreat, StealsFromDead, GuardStages, TypeInv, TypeOK, ProcTypes,
       StealTypes
  <2>6. LadderStands'
    BY <1>12, SlotFrame DEF Unguard, Retreat, LadderStands, StillThere, OwnGuard, DeadBelow,
       GuardStages, TypeInv, TypeOK, ProcTypes, StealTypes
  <2>7. StealWindow'
    BY <1>12 DEF Unguard, Retreat, StealWindow, StillThere, TypeInv, TypeOK, ProcTypes, StealTypes
  <2>8. GuardWritten'
    BY <1>12, LockTypes DEF Unguard, Retreat, GuardWritten, GuardTypes, TypeInv, TypeOK,
       ProcTypes, StealTypes
  <2> QED
    BY <2>1, <2>2, <2>3, <2>4, <2>5, <2>6, <2>7, <2>8
<1>13. ASSUME NEW p \in Procs, UnguardUnlink(p) PROVE LockInv'
  <2>0. /\ At(p, "unguardUnlink") /\ Retreat(p) /\ UNCHANGED <<alive, acq, lock, claim, open>>
        /\ \A x \in SlotPaths : x # MySlot(p) => slots'[x] = slots[x]
        /\ MySlot(p) \in SlotPaths => slots'[MySlot(p)] = NoFile
    BY <1>13 DEF UnguardUnlink, TypeInv, TypeOK, GuardTypes
  <2>a. \A q \in Procs \ {p} : MySlot(q)' = MySlot(q) /\ \A k : SlotAt(q, k)' = SlotAt(q, k)
    BY <2>0, SlotFrame DEF Retreat, TypeInv, TypeOK, StealTypes
  <2>1. NoFallback'
    BY <1>13 DEF UnguardUnlink, Retreat, NoFallback, CreatorStages, TypeInv, TypeOK, ProcTypes,
       StealTypes
  <2>2. HeldByOwner'
    BY <1>13, LockTypes, TokenOwner DEF UnguardUnlink, Retreat, HeldByOwner, HoldingStages,
       Token, TypeInv, TypeOK, ProcTypes, StealTypes
  <2>3. OldIsDead'
    BY <1>13 DEF UnguardUnlink, Retreat, OldIsDead, File, Guard, GuardTypes, TypeInv, TypeOK,
       ProcTypes, StealTypes
  <2>4. NoGuardLeftBehind'
    BY <2>0, <2>a DEF Retreat, NoGuardLeftBehind, GuardStages, TypeInv, TypeOK, ProcTypes
  <2>5. StealsFromDead'
    BY <1>13 DEF UnguardUnlink, Retreat, StealsFromDead, GuardStages, TypeInv, TypeOK, ProcTypes,
       StealTypes
  <2>6. LadderStands'
    <3>1. ASSUME NEW q \in Procs \ {p}, alive[q], StillThere(q), pc[q] \in GuardStages
          PROVE  /\ OwnGuard(q)'
                 /\ pc[q] \in {"verify", "reinspect", "rename"} => DeadBelow(q, chk[q])'
      <4>1. MySlot(q) \in SlotPaths /\ \A k \in Rungs : SlotAt(q, k) \in SlotPaths
        BY <3>1, SlotDomain DEF StealsFromDead
      <4>2. OwnGuard(q) /\ (pc[q] \in {"verify", "reinspect", "rename"} => DeadBelow(q, chk[q]))
        BY <3>1 DEF LadderStands
      <4>3. OwnGuard(p) \/ \A k, m : SlotAt(q, k) # SlotAt(p, m)
        BY <2>0, <3>1 DEF LadderStands, StillThere, SlotAt, TypeInv, SetUp, GuardStages
      <4>4. MySlot(q) # MySlot(p)
        BY <4>2, <4>3 DEF OwnGuard, MySlot
      <4>5. pc[q] \in {"verify", "reinspect", "rename"}
              => \A k \in Rungs : k < chk[q] => SlotAt(q, k) # MySlot(p)
        BY <2>0, <4>2, <4>3 DEF OwnGuard, DeadBelow, MySlot
      <4> QED
        BY <2>0, <2>a, <4>1, <4>2, <4>4, <4>5 DEF Retreat, OwnGuard, DeadBelow, TypeInv, TypeOK,
           StealTypes
    <3> QED
      BY <2>0, <3>1 DEF Retreat, LadderStands, StillThere, GuardStages, TypeInv, TypeOK,
         ProcTypes, StealTypes
  <2>7. StealWindow'
    BY <1>13 DEF UnguardUnlink, Retreat, StealWindow, StillThere, TypeInv, TypeOK, ProcTypes,
       StealTypes
  <2>8. GuardWritten'
    BY <2>0, LockTypes DEF Retreat, GuardWritten, TypeInv, TypeOK, ProcTypes
  <2> QED
    BY <2>1, <2>2, <2>3, <2>4, <2>5, <2>6, <2>7, <2>8
<1>14. ASSUME NEW p \in Procs, Heartbeat(p) PROVE LockInv'
  <2>0. /\ lock' # NoFile /\ lock'.tok = lock.tok /\ lock'.ino = lock.ino
        /\ lock'.full /\ ~lock'.old
    BY <1>14, FileRecord, LockTypes DEF Heartbeat, File
  <2>1. NoFallback'
    BY <1>14, <2>0, LockTypes, SlotFrame DEF Heartbeat, NoFallback, StillThere, OwnGuard,
       DeadBelow, Token
  <2>2. HeldByOwner'
    BY <1>14, <2>0, LockTypes, SlotFrame DEF Heartbeat, HeldByOwner, StillThere, OwnGuard,
       DeadBelow, Token
  <2>3. OldIsDead'
    BY <1>14, <2>0, LockTypes, SlotFrame DEF Heartbeat, OldIsDead, StillThere, OwnGuard,
       DeadBelow, Token
  <2>4. NoGuardLeftBehind'
    BY <1>14, <2>0, LockTypes, SlotFrame DEF Heartbeat, NoGuardLeftBehind, StillThere, OwnGuard,
       DeadBelow, Token
  <2>5. StealsFromDead'
    BY <1>14, <2>0, LockTypes, SlotFrame DEF Heartbeat, StealsFromDead, StillThere, OwnGuard,
       DeadBelow, Token
  <2>6. LadderStands'
    BY <1>14, <2>0, LockTypes, SlotFrame DEF Heartbeat, LadderStands, StillThere, OwnGuard,
       DeadBelow, Token
  <2>7. StealWindow'
    BY <1>14, <2>0, LockTypes, SlotFrame DEF Heartbeat, StealWindow, StillThere, OwnGuard,
       DeadBelow, Token
  <2>8. GuardWritten'
    BY <1>14, <2>0, LockTypes, SlotFrame DEF Heartbeat, GuardWritten, StillThere, OwnGuard,
       DeadBelow, Token
  <2> QED
    BY <2>1, <2>2, <2>3, <2>4, <2>5, <2>6, <2>7, <2>8
<1>15. ASSUME NEW p \in Procs, Leave(p) PROVE LockInv'
  <2>1. NoFallback'
    BY <1>15 DEF Leave, NoFallback, CreatorStages, TypeInv, TypeOK, ProcTypes, StealTypes
  <2>2. HeldByOwner'
    BY <1>15, LockTypes, TokenOwner DEF Leave, HeldByOwner, HoldingStages, Token, TypeInv,
       TypeOK, ProcTypes, StealTypes
  <2>3. OldIsDead'
    BY <1>15 DEF Leave, OldIsDead, File, Guard, GuardTypes, TypeInv, TypeOK, ProcTypes, StealTypes
  <2>4. NoGuardLeftBehind'
    BY <1>15, SlotFrame DEF Leave, NoGuardLeftBehind, GuardStages, TypeInv, TypeOK, ProcTypes,
       StealTypes
  <2>5. StealsFromDead'
    BY <1>15 DEF Leave, StealsFromDead, GuardStages, TypeInv, TypeOK, ProcTypes, StealTypes
  <2>6. LadderStands'
    BY <1>15, SlotFrame DEF Leave, LadderStands, StillThere, OwnGuard, DeadBelow, GuardStages,
       TypeInv, TypeOK, ProcTypes, StealTypes
  <2>7. StealWindow'
    BY <1>15 DEF Leave, StealWindow, StillThere, TypeInv, TypeOK, ProcTypes, StealTypes
  <2>8. GuardWritten'
    BY <1>15, LockTypes DEF Leave, GuardWritten, GuardTypes, TypeInv, TypeOK, ProcTypes, StealTypes
  <2> QED
    BY <2>1, <2>2, <2>3, <2>4, <2>5, <2>6, <2>7, <2>8
<1>16. ASSUME NEW p \in Procs, ReleaseRead(p) PROVE LockInv'
  <2>1. NoFallback'
    BY <1>16 DEF ReleaseRead, NoFallback, CreatorStages, TypeInv, TypeOK, ProcTypes, StealTypes
  <2>2. HeldByOwner'
    BY <1>16, LockTypes, TokenOwner DEF ReleaseRead, HeldByOwner, HoldingStages, Token, TypeInv,
       TypeOK, ProcTypes, StealTypes
  <2>3. OldIsDead'
    BY <1>16 DEF ReleaseRead, OldIsDead, File, Guard, GuardTypes, TypeInv, TypeOK, ProcTypes,
       StealTypes
  <2>4. NoGuardLeftBehind'
    BY <1>16, SlotFrame DEF ReleaseRead, NoGuardLeftBehind, GuardStages, TypeInv, TypeOK,
       ProcTypes, StealTypes
  <2>5. StealsFromDead'
    BY <1>16 DEF ReleaseRead, StealsFromDead, GuardStages, TypeInv, TypeOK, ProcTypes, StealTypes
  <2>6. LadderStands'
    BY <1>16, SlotFrame DEF ReleaseRead, LadderStands, StillThere, OwnGuard, DeadBelow,
       GuardStages, TypeInv, TypeOK, ProcTypes, StealTypes
  <2>7. StealWindow'
    BY <1>16 DEF ReleaseRead, StealWindow, StillThere, TypeInv, TypeOK, ProcTypes, StealTypes
  <2>8. GuardWritten'
    BY <1>16, LockTypes DEF ReleaseRead, GuardWritten, GuardTypes, TypeInv, TypeOK, ProcTypes,
       StealTypes
  <2> QED
    BY <2>1, <2>2, <2>3, <2>4, <2>5, <2>6, <2>7, <2>8
<1>17. ASSUME NEW p \in Procs, ReleaseUnlink(p) PROVE LockInv'
  <2>1. NoFallback'
    BY <1>17 DEF ReleaseUnlink, NoFallback, CreatorStages, TypeInv, TypeOK, ProcTypes, StealTypes
  <2>2. HeldByOwner'
    BY <1>17, LockTypes, TokenOwner DEF ReleaseUnlink, HeldByOwner, HoldingStages, Token,
       TypeInv, TypeOK, ProcTypes, StealTypes
  <2>3. OldIsDead'
    BY <1>17 DEF ReleaseUnlink, OldIsDead, File, Guard, GuardTypes, TypeInv, TypeOK, ProcTypes,
       StealTypes
  <2>4. NoGuardLeftBehind'
    BY <1>17, SlotFrame DEF ReleaseUnlink, NoGuardLeftBehind, GuardStages, TypeInv, TypeOK,
       ProcTypes, StealTypes
  <2>5. StealsFromDead'
    BY <1>17 DEF ReleaseUnlink, StealsFromDead, GuardStages, TypeInv, TypeOK, ProcTypes, StealTypes
  <2>6. LadderStands'
    BY <1>17, SlotFrame DEF ReleaseUnlink, LadderStands, StillThere, OwnGuard, DeadBelow,
       GuardStages, TypeInv, TypeOK, ProcTypes, StealTypes
  <2>7. StealWindow'
    <3>1. At(p, "relUnlink") /\ lock.tok = Token(p)
      BY <1>17 DEF ReleaseUnlink, HeldByOwner, HoldingStages
    <3>2. \A q \in Procs : ~At(q, "rename")
      BY <3>1, TokenOwner DEF StealWindow, StillThere, StealsFromDead, GuardStages
    <3> QED
      BY <1>17, <3>2 DEF ReleaseUnlink, StealWindow, StillThere, TypeInv, TypeOK, ProcTypes
  <2>8. GuardWritten'
    BY <1>17, LockTypes DEF ReleaseUnlink, GuardWritten, GuardTypes, TypeInv, TypeOK, ProcTypes,
       StealTypes
  <2> QED
    BY <2>1, <2>2, <2>3, <2>4, <2>5, <2>6, <2>7, <2>8
<1>18. ASSUME NEW p \in Procs, Crash(p) PROVE LockInv'
  <2>1. NoFallback'
    BY <1>18 DEF Crash, NoFallback, CreatorStages, TypeInv, TypeOK, ProcTypes, StealTypes
  <2>2. HeldByOwner'
    BY <1>18, LockTypes, TokenOwner DEF Crash, HeldByOwner, HoldingStages, Token, TypeInv,
       TypeOK, ProcTypes, StealTypes
  <2>3. OldIsDead'
    BY <1>18 DEF Crash, OldIsDead, File, Guard, GuardTypes, TypeInv, TypeOK, ProcTypes, StealTypes
  <2>4. NoGuardLeftBehind'
    BY <1>18, SlotFrame DEF Crash, NoGuardLeftBehind, GuardStages, TypeInv, TypeOK, ProcTypes,
       StealTypes
  <2>5. StealsFromDead'
    BY <1>18 DEF Crash, StealsFromDead, GuardStages, TypeInv, TypeOK, ProcTypes, StealTypes
  <2>6. LadderStands'
    BY <1>18, SlotFrame DEF Crash, LadderStands, StillThere, OwnGuard, DeadBelow, GuardStages,
       TypeInv, TypeOK, ProcTypes, StealTypes
  <2>7. StealWindow'
    BY <1>18 DEF Crash, StealWindow, StillThere, TypeInv, TypeOK, ProcTypes, StealTypes
  <2>8. GuardWritten'
    BY <1>18, LockTypes DEF Crash, GuardWritten, GuardTypes, TypeInv, TypeOK, ProcTypes, StealTypes
  <2> QED
    BY <2>1, <2>2, <2>3, <2>4, <2>5, <2>6, <2>7, <2>8
<1>19. ASSUME NEW p \in Procs,
   CreateEmpty(p) \/ WriteToken(p) \/ CheckInode(p) \/ PutBack(p) \/ PutBackWrite(p)
       PROVE  FALSE
  BY <1>19 DEF CreateEmpty, WriteToken, CheckInode, PutBack, PutBackWrite, NoFallback, CreatorStages
<1>20. CASE LockAges
  <2>0. /\ lock # NoFile /\ lock' # NoFile /\ lock'.tok = lock.tok /\ lock'.ino = lock.ino /\ lock'.full
        /\ UNCHANGED <<alive, pc, acq, slots, seen, rung, chk, claim, open>>
    BY <1>20, FileRecord, LockTypes DEF LockAges, File
  <2>1. ~alive[lock.tok[1]]
    <3>1. CASE "holder" \notin MayStall
      BY <1>20, <3>1, LockTypes DEF LockAges, KeepsLockYoung, HeldByOwner
    <3>2. CASE OneMachine
      BY <1>20, <2>0, <3>2, LockTypes DEF LockAges, AgeMatters, OneMachine, NoFallback
    <3> QED
      BY <3>1, <3>2 DEF KindWorld
  <2>2. NoFallback' /\ HeldByOwner' /\ OldIsDead' /\ GuardWritten'
    BY <2>0, <2>1, LockTypes DEF NoFallback, HeldByOwner, OldIsDead, GuardWritten, Token
  <2>3. NoGuardLeftBehind' /\ StealsFromDead'
    BY <2>0, SlotFrame DEF NoGuardLeftBehind, StealsFromDead
  <2>4. LadderStands' /\ StealWindow'
    BY <2>0, SlotFrame DEF LadderStands, StealWindow, StillThere, OwnGuard, DeadBelow
  <2> QED
    BY <2>2, <2>3, <2>4
<1>21. ASSUME NEW x \in SlotPaths, GuardAges(x) PROVE LockInv'
  <2>0. /\ slots[x] # NoFile /\ \A y \in SlotPaths :
             /\ slots'[y] = NoFile <=> slots[y] = NoFile
             /\ slots[y] # NoFile => slots'[y].by = slots[y].by /\ slots'[y].full = slots[y].full
             /\ y # x => slots'[y] = slots[y]
        /\ UNCHANGED <<alive, pc, acq, lock, seen, rung, chk, claim, open>>
    BY <1>21, GuardRecord, LockTypes DEF GuardAges, Guard, TypeInv, TypeOK, GuardTypes
  <2>1. ~alive[slots[x].by]
    BY <1>21, LockTypes DEF GuardAges, KeepsGuardYoung, NoGuardLeftBehind, KindWorld
  <2>2. NoFallback' /\ HeldByOwner' /\ OldIsDead' /\ GuardWritten'
    BY <2>0, <2>1 DEF NoFallback, HeldByOwner, OldIsDead, GuardWritten, Token
  <2>3. NoGuardLeftBehind' /\ StealsFromDead' /\ StealWindow'
    BY <2>0, SlotFrame DEF NoGuardLeftBehind, StealsFromDead, StealWindow, StillThere
  <2>4. LadderStands'
    <3>1. ASSUME NEW q \in Procs, alive[q], StillThere(q), pc[q] \in GuardStages
          PROVE  /\ OwnGuard(q)'
                 /\ pc[q] \in {"verify", "reinspect", "rename"} => DeadBelow(q, chk[q])'
      <4>1. MySlot(q) \in SlotPaths /\ \A k \in Rungs : SlotAt(q, k) \in SlotPaths
        BY <3>1, SlotDomain DEF StealsFromDead
      <4>2. OwnGuard(q) /\ (pc[q] \in {"verify", "reinspect", "rename"} => DeadBelow(q, chk[q]))
        BY <3>1 DEF LadderStands
      <4> QED
        BY <2>0, <4>1, <4>2, SlotFrame DEF OwnGuard, DeadBelow
    <3> QED
      BY <2>0, <3>1 DEF LadderStands, StillThere, GuardStages
  <2> QED
    BY <2>2, <2>3, <2>4
<1>22. CASE UNCHANGED vars
  BY <1>22, SlotFrame DEF vars, NoFallback, HeldByOwner, OldIsDead, NoGuardLeftBehind, GuardWritten,
     StealsFromDead, LadderStands, StealWindow, StillThere, OwnGuard, DeadBelow, Token
<1> QED
  <2>1. ASSUME NEW p \in Procs, Start(p) \/ Step(p) \/ GiveUp(p) \/ Heartbeat(p) \/ Crash(p)
        PROVE  LockInv'
    BY <2>1, <1>1, <1>2, <1>3, <1>4, <1>5, <1>6, <1>7, <1>8, <1>9, <1>10, <1>11, <1>12, <1>13,
       <1>14, <1>15, <1>16, <1>17, <1>18, <1>19 DEF Step
  <2> QED
    BY <2>1, <1>20, <1>21, <1>22 DEF Next, Ages

\* LockInv holds before anybody has asked for the lock.
LEMMA LockInit ==
  ASSUME HardLinks PROVE Init => LockInv
BY TypeInit, ConstAssumption DEF Init, LockInv, NoFallback, HeldByOwner, OldIsDead,
   NoGuardLeftBehind,
   GuardWritten, StealsFromDead, LadderStands, StealWindow, StillThere, CreatorStages, GuardStages,
   HoldingStages, NoFile

----------------------------------------------------------------------------
\* Every variable keeps its type, on any filesystem and with any stalls.
THEOREM TypeCorrect == Spec => []TypeOK
<1>1. Init => TypeInv
  BY TypeInit
<1>2. TypeInv /\ [Next]_vars => TypeInv'
  BY TypeStep
<1>3. TypeInv => TypeOK
  BY DEF TypeInv
<1> QED
  BY <1>1, <1>2, <1>3, PTL DEF Spec

\* The invariant that the safety of the lock rests on is one: see LockInv.
THEOREM LockInvariant ==
  ASSUME KindWorld
  PROVE  Spec => []LockInv
<1>1. Init => LockInv
  BY LockInit DEF KindWorld
<1>2. LockInv /\ [Next]_vars => LockInv'
  BY LockStep
<1> QED
  BY <1>1, <1>2, PTL DEF Spec

\* withFileLock and withLock never run two critical sections of one store at
\* once, for any number of processes on any number of hosts, whoever crashes
\* where, in a KindWorld.
THEOREM LockExcludes ==
  ASSUME KindWorld
  PROVE  Spec => []MutualExclusion
<1>1. LockInv => MutualExclusion
  BY TokenOwner DEF LockInv, HeldByOwner, MutualExclusion, InCriticalSection, At, HoldingStages
<1> QED
  BY <1>1, LockInvariant, PTL

\* The error message of withFileLock: "A live holder is waited for, never
\* stolen from".
THEOREM LiveHolderNotRobbed ==
  ASSUME KindWorld
  PROVE  Spec => []LiveHolderKeepsLock
<1>1. LockInv => LiveHolderKeepsLock
  BY LockTypes DEF LockInv, HeldByOwner, LiveHolderKeepsLock, InCriticalSection, At, HoldingStages
<1> QED
  BY <1>1, LockInvariant, PTL

\* stealLock never renames aside anything but the file it judged: under these
\* assumptions its put-back branch is dead code.
THEOREM StealIsExact ==
  ASSUME KindWorld
  PROVE  Spec => []ClaimIsJudgedFile
<1>1. LockInv => ClaimIsJudgedFile
  <2> SUFFICES ASSUME LockInv, NEW p \in Procs, At(p, "confirm")
               PROVE  [key |-> Content(claim[p]), ino |-> claim[p].ino] = seen[p]
    BY DEF ClaimIsJudgedFile
  <2>1. /\ claim[p].full /\ claim[p].tok = seen[p].key /\ claim[p].ino = seen[p].ino
        /\ seen[p] \in Judgements
    BY DEF At, LockInv, StealWindow, TypeInv, TypeOK, SetUp, StealTypes, GuardStages
  <2> QED
    BY <2>1 DEF Content, Judgements
<1> QED
  BY <1>1, LockInvariant, PTL

\* releaseIfOurs, though it reads before it unlinks, only unlinks its own lock.
THEOREM ReleaseIsOwn ==
  ASSUME KindWorld
  PROVE  Spec => ReleaseRemovesOwn
<1>1. LockInv /\ [Next]_vars =>
        [\A p \in Procs : ReleaseUnlink(p) /\ lock # NoFile => Content(lock) = Token(p)]_vars
  BY LockTypes DEF LockInv, HeldByOwner, ReleaseUnlink, At, HoldingStages
<1> QED
  BY <1>1, LockInvariant, PTL DEF Spec, ReleaseRemovesOwn

----------------------------------------------------------------------------
(* Part 3: the lock implements StoreMutex. *)

\* What a step of p may do to the stages: only p moves, never from inside back
\* to waiting, and never straight from outside to inside.
StageMove(p) ==
  /\ \A q \in Procs \ {p} : StageOf(q)' = StageOf(q)
  /\ StageOf(p)' = "in" => StageOf(p) \in {"in", "waiting"}
  /\ StageOf(p)' = "waiting" => StageOf(p) \in {"out", "waiting"}

\* Each step of a process moves only its own stage, and only along the
\* requests, entries and exits of StoreMutex.
LEMMA StageSteps ==
  ASSUME HardLinks, LockInv, NEW p \in Procs,
         Start(p) \/ Step(p) \/ GiveUp(p) \/ Heartbeat(p) \/ Crash(p)
  PROVE  StageMove(p)
<1> USE DEF StageMove, StageOf, At, Goto
<1>0. pc \in [Procs -> Stages] /\ alive \in [Procs -> BOOLEAN]
  BY DEF LockInv, TypeInv, TypeOK, ProcTypes
<1>1. CASE Start(p)
  BY <1>0, <1>1 DEF Start
<1>2. CASE Link(p)
  BY <1>0, <1>2 DEF Link
<1>3. CASE GiveUp(p)
  BY <1>0, <1>3 DEF GiveUp
<1>4. CASE Judge(p)
  BY <1>0, <1>4 DEF Judge
<1>5. CASE Climb(p)
  BY <1>0, <1>5 DEF Climb, Retreat
<1>6. CASE WriteSlot(p)
  BY <1>0, <1>6 DEF WriteSlot
<1>7. CASE Verify(p)
  BY <1>0, <1>7 DEF Verify
<1>8. CASE Reinspect(p)
  BY <1>0, <1>8 DEF Reinspect
<1>9. CASE Rename(p)
  BY <1>0, <1>9 DEF Rename
<1>10. CASE Confirm(p)
  BY <1>0, <1>10 DEF Confirm
<1>11. CASE Clear(p)
  BY <1>0, <1>11 DEF Clear
<1>12. CASE Unguard(p)
  BY <1>0, <1>12 DEF Unguard, Retreat
<1>13. CASE UnguardUnlink(p)
  BY <1>0, <1>13 DEF UnguardUnlink, Retreat
<1>14. CASE Heartbeat(p)
  BY <1>0, <1>14 DEF Heartbeat
<1>15. CASE Leave(p)
  BY <1>0, <1>15 DEF Leave
<1>16. CASE ReleaseRead(p)
  BY <1>0, <1>16 DEF ReleaseRead
<1>17. CASE ReleaseUnlink(p)
  BY <1>0, <1>17 DEF ReleaseUnlink
<1>18. CASE Crash(p)
  BY <1>0, <1>18 DEF Crash
<1>19. CASE CreateEmpty(p) \/ WriteToken(p) \/ CheckInode(p) \/ PutBack(p) \/ PutBackWrite(p)
  BY <1>19 DEF CreateEmpty, WriteToken, CheckInode, PutBack, PutBackWrite, LockInv, NoFallback,
     CreatorStages
<1> QED
  BY <1>1, <1>2, <1>3, <1>4, <1>5, <1>6, <1>7, <1>8, <1>9, <1>10, <1>11, <1>12, <1>13, <1>14,
     <1>15, <1>16, <1>17, <1>18, <1>19 DEF Step

\* A step that moves the stages so is a step of StoreMutex, or a stutter.
LEMMA StageNext ==
  ASSUME LockInv', NEW p \in Procs, StageMove(p)
  PROVE  [Abs!AbsNext]_(Abs!AbsVars)
<1> DEFINE stg == [q \in Procs |-> StageOf(q)]
<1>1. \A q \in Procs : stg[q] = StageOf(q) /\ stg'[q] = StageOf(q)'
  OBVIOUS
<1>2. stg' = [stg EXCEPT ![p] = StageOf(p)']
  BY DEF StageMove
<1>3. CASE StageOf(p)' = StageOf(p)
  BY <1>2, <1>3 DEF Abs!AbsVars, StageMove
<1>4. CASE StageOf(p)' = "waiting" /\ StageOf(p) = "out"
  BY <1>1, <1>2, <1>4 DEF Abs!AbsNext, Abs!Ask
<1>5. CASE StageOf(p)' = "in" /\ StageOf(p) = "waiting"
  <2>1. \A q \in Procs : StageOf(q) # "in"
    <3> SUFFICES ASSUME NEW q \in Procs, StageOf(q) = "in" PROVE FALSE
      OBVIOUS
    <3>1. q # p /\ StageOf(q)' = "in"
      BY <1>5 DEF StageMove
    <3>2. At(q, "hold")' /\ At(p, "hold")'
      BY <1>5, <3>1 DEF StageOf, At
    <3> QED
      BY <3>1, <3>2, TokenOwner, TokenOwnerNext DEF LockInv, HeldByOwner, HoldingStages, At
  <2> QED
    BY <1>1, <1>2, <1>5, <2>1 DEF Abs!AbsNext, Abs!Enter
<1>6. CASE StageOf(p)' = "out" /\ StageOf(p) # "out"
  BY <1>1, <1>2, <1>6 DEF Abs!AbsNext, Abs!Exit
<1>7. StageOf(p) \in {"out", "waiting", "in"} /\ StageOf(p)' \in {"out", "waiting", "in"}
  BY DEF StageOf
<1> QED
  BY <1>3, <1>4, <1>5, <1>6, <1>7 DEF StageMove

\* The lock file protocol implements the mutex its callers rely on: requests,
\* entries one at a time, and exits, deaths included.
THEOREM LockImplementsMutex ==
  ASSUME KindWorld
  PROVE  Spec => ImplementsStoreMutex
<1>1. Init => Abs!AbsInit
  BY DEF Init, Abs!AbsInit, StageOf
<1>2. LockInv /\ LockInv' /\ [Next]_vars => [Abs!AbsNext]_(Abs!AbsVars)
  <2> SUFFICES ASSUME LockInv, LockInv', [Next]_vars PROVE [Abs!AbsNext]_(Abs!AbsVars)
    OBVIOUS
  <2>1. ASSUME NEW p \in Procs, Start(p) \/ Step(p) \/ GiveUp(p) \/ Heartbeat(p) \/ Crash(p)
        PROVE  [Abs!AbsNext]_(Abs!AbsVars)
    BY <2>1, StageSteps, StageNext DEF KindWorld
  <2>2. CASE UNCHANGED <<alive, pc>>
    BY <2>2 DEF Abs!AbsVars, StageOf
  <2>3. Ages => UNCHANGED <<alive, pc>>
    BY DEF Ages, LockAges, GuardAges
  <2> QED
    BY <2>1, <2>2, <2>3 DEF Next, vars
<1> QED
  BY <1>1, <1>2, LockInvariant, PTL DEF Spec, ImplementsStoreMutex, Abs!AbsSpec

============================================================================
