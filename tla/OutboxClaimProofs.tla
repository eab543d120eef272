------------------------ MODULE OutboxClaimProofs ------------------------
(***************************************************************************)
(* Proofs about OutboxClaim, where the filesystem has hard links, no live  *)
(* owner's claim lapses and a release's look at the folder is one step:    *)
(* for any number of processes, tokens, deaths, refusals and dead markers  *)
(* in a row.  Part 1 proves TakeoverInv, part 2 what it gives: one claimant*)
(* at a time, claims in force stand, the claim implements StoreMutex.      *)
(***************************************************************************)
EXTENDS OutboxClaim, SequenceTheorems, WellFoundedInduction, TLAPS

(* What is assumed of the world. *)
KindWorld == HardLinks /\ ~MayLapse /\ AtomicSweep

(* The parts of the invariant. *)

\* A process that has taken a token and has not put it on file.
Pending(p) == stage[p] \in {"publish", "mark", "look", "recheck", "rename"}
\* ... and is after a stale claim.
Taking(p) == stage[p] \in {"mark", "look", "recheck", "rename"}
\* ... and has put down its marker.
Marked(p) == stage[p] \in {"recheck", "rename"}
\* The process the claim on file is good for.
Owner(p) == stage[p] \in {"holding", "remove"} \/ (stage[p] = "clear" /\ tok[p] # Nil)

Steps == {"idle", "publish", "mark", "look", "recheck", "rename", "clear", "holding", "remove", "sweep"}

\* Names of markers, of any length.
Chains == Seq(Tokens) \ {<<>>}
\* The name of a marker that guards the claim now on file.
InPlace(n) == claimFile # Nil /\ n[1] = claimFile.tok
\* The claims that takeovers, markers and clearings are about.
IsNamed(t) ==
  \/ \E p \in Flushers : Taking(p) /\ name[p][1] = t
  \/ \E m \in markers : m.name[1] = t
  \/ \E p \in Flushers : \E n \in list[p] : n[1] = t

\* A file is whole, and judged stale just when its owner is dead.
Honest(f) == f \in Files /\ f.full /\ f.lapsed = f.dead

Memory ==
  /\ stage \in [Flushers -> Steps]
  /\ tok \in [Flushers -> Tokens \union {Nil}]
  /\ name \in [Flushers -> Seq(Tokens)]
  /\ cur \in [Flushers -> {Nil}]
  /\ list \in [Flushers -> SUBSET Chains]
FilesHonest ==
  /\ claimFile = Nil \/ Honest(claimFile)
  /\ \A m \in markers : m = [name |-> m.name, file |-> m.file] /\ m.name \in Chains /\ Honest(m.file)
Remembered ==
  \A p \in Flushers :
    /\ Taking(p) => name[p] # <<>>
    /\ stage[p] # "clear" => list[p] = {}
    /\ Pending(p) \/ stage[p] = "holding" => tok[p] # Nil
    /\ stage[p] \in {"idle", "remove", "sweep"} => tok[p] = Nil
Shapes == Memory /\ FilesHonest /\ Remembered

OneMarker == \A m, n \in markers : m.name = n.name => m = n

\* The claim in force is its owner's, and every owner's claim is in force.
Owned ==
  /\ \A p \in Flushers : Owner(p) => /\ claimFile # Nil /\ claimFile.by = p /\ ~claimFile.dead
                                     /\ stage[p] # "remove" => tok[p] = claimFile.tok
  /\ claimFile # Nil /\ ~claimFile.dead => Owner(claimFile.by)

\* A token that is not on file yet is nobody else's, and nothing is named after it.
NewTokens ==
  /\ \A p \in Flushers : Pending(p) => ~IsNamed(tok[p]) /\ (claimFile # Nil => claimFile.tok # tok[p])
  /\ \A p, q \in Flushers : Pending(p) /\ Pending(q) /\ tok[p] = tok[q] => p = q

\* A process after the claim in place has walked past dead markers only, each
\* named after the one before it, and its own marker stands.
DeadAt(n, t) == \E m \in markers : m.name = n /\ m.file.dead /\ m.file.tok = t
LiveAt(n, p) == \E m \in markers : m.name = n /\ m.file.by = p /\ ~m.file.dead
Walk(p) ==
  /\ claimFile.dead
  /\ \A i \in 1..(Len(name[p]) - 1) : DeadAt(SubSeq(name[p], 1, i), name[p][i + 1])
  /\ Marked(p) => LiveAt(name[p], p)
Walked == \A p \in Flushers : Taking(p) /\ InPlace(name[p]) => Walk(p)

\* The stale claim stays in place from the recheck to the rename.
Rechecked == \A p \in Flushers : stage[p] = "rename" => InPlace(name[p])

\* Of the markers that guard the claim in place a process clears only its own.
ClearsOwn == \A p \in Flushers : \A n \in list[p] : InPlace(n) => LiveAt(n, p)

TakeoverInv == Shapes /\ OneMarker /\ Owned /\ NewTokens /\ Walked /\ Rechecked /\ ClearsOwn

----------------------------------------------------------------------------
(* Lemmas about names. *)

\* The names on the way to a marker are names, of claims on the same file.
LEMMA PrefixNames ==
  ASSUME NEW n \in Chains, NEW i \in 1..Len(n)
  PROVE  /\ SubSeq(n, 1, i) \in Chains
         /\ SubSeq(n, 1, i)[1] = n[1]
         /\ Len(SubSeq(n, 1, i)) = i
         /\ \A j \in 1..i : SubSeq(n, 1, i)[j] = n[j]
<1>1. n \in Seq(Tokens) /\ Len(n) \in Nat /\ \A j \in 1..i : n[j] \in Tokens
  BY LenProperties, ElementOfSeq DEF Chains
<1>2. /\ SubSeq(n, 1, i) \in Seq(Tokens)
      /\ Len(SubSeq(n, 1, i)) = IF 1 <= i THEN i - 1 + 1 ELSE 0
      /\ \A j \in 1..(i - 1 + 1) : SubSeq(n, 1, i)[j] = n[1 + j - 1]
  <2>1. \A j \in 1..i : n[j] \in Tokens
    BY <1>1
  <2>2. 1 \in Int /\ i \in Int
    BY <1>1
  <2> QED
    BY <2>1, <2>2, SubSeqProperties
<1>3. Len(SubSeq(n, 1, i)) = i /\ i >= 1
  BY <1>1, <1>2
<1>4. SubSeq(n, 1, i) # <<>>
  BY <1>2, <1>3
<1> QED
  BY <1>1, <1>2, <1>3, <1>4 DEF Chains

\* Prefixes, as a process clears them after a takeover.
LEMMA PrefixesNames ==
  ASSUME NEW n \in Chains, NEW k \in {n} \union Prefixes(n)
  PROVE  k \in Chains /\ k[1] = n[1]
<1>1. ASSUME NEW i \in 1..(Len(n) - 1), k = SubSeq(n, 1, i) PROVE k \in Chains /\ k[1] = n[1]
  <2>1. i \in 1..Len(n)
    BY LenProperties DEF Chains
  <2> QED
    BY <1>1, <2>1, PrefixNames
<1> QED
  BY <1>1 DEF Prefixes

\* Going on past a dead marker makes the name longer by its token.
LEMMA LongerName ==
  ASSUME NEW n \in Chains, NEW t \in Tokens
  PROVE  /\ Append(n, t) \in Chains
         /\ Append(n, t)[1] = n[1]
         /\ Len(Append(n, t)) = Len(n) + 1
         /\ Append(n, t)[Len(n) + 1] = t
         /\ \A i \in 1..Len(n) : Append(n, t)[i] = n[i] /\ SubSeq(Append(n, t), 1, i) = SubSeq(n, 1, i)
         /\ SubSeq(Append(n, t), 1, Len(n)) = n
<1> DEFINE a == Append(n, t)
<1>1. n \in Seq(Tokens) /\ Len(n) \in Nat \ {0}
  BY LenProperties, EmptySeq DEF Chains
<1>2. a \in Chains /\ Len(a) = Len(n) + 1 /\ a[Len(n) + 1] = t /\ \A i \in 1..Len(n) : a[i] = n[i]
  BY <1>1, AppendProperties DEF Chains
<1>3. ASSUME NEW i \in 1..Len(n) PROVE SubSeq(a, 1, i) = SubSeq(n, 1, i)
  <2>1. i \in 1..Len(a)
    BY <1>1, <1>2
  <2>2. /\ SubSeq(a, 1, i) \in Seq(Tokens) /\ SubSeq(n, 1, i) \in Seq(Tokens)
        /\ Len(SubSeq(a, 1, i)) = i /\ Len(SubSeq(n, 1, i)) = i
        /\ \A j \in 1..i : SubSeq(a, 1, i)[j] = a[j] /\ SubSeq(n, 1, i)[j] = n[j]
    <3> HIDE DEF a
    <3> QED
      BY <1>2, <2>1, PrefixNames DEF Chains
  <2>3. \A j \in 1..i : a[j] = n[j]
    BY <1>1, <1>2
  <2> HIDE DEF a
  <2> QED
    BY <2>2, <2>3, SeqEqual
<1>4. SubSeq(n, 1, Len(n)) = n
  BY <1>1, SubSeqFull
<1>5. Len(n) \in 1..Len(n) /\ 1 \in 1..Len(n)
  BY <1>1
<1> QED
  BY <1>2, <1>3, <1>4, <1>5

\* A set of numbers that is not empty has a least member.
LEMMA LeastOf ==
  ASSUME NEW T \in SUBSET Nat, T # {}
  PROVE  \E x \in T : \A y \in T : x <= y
<1> DEFINE R == OpToRel(<, Nat)
<1>1. IsWellFoundedOn(R, Nat)
  BY NatLessThanWellFounded
<1>2. \A x, y \in Nat : <<x, y>> \in R <=> x < y
  BY DEF OpToRel
<1> HIDE DEF R
<1>3. PICK x \in T : \A y \in T : ~(<<y, x>> \in R)
  BY <1>1, WFMin
<1>4. ASSUME NEW y \in T PROVE x <= y
  <2>1. x \in Nat /\ y \in Nat /\ ~(<<y, x>> \in R)
    BY <1>3
  <2>2. ~(y < x)
    BY <1>2, <2>1
  <2> QED
    BY <2>1, <2>2
<1> QED
  BY <1>4

\* A new token is one that nothing refers to.
LEMMA NewTokenIsNew ==
  ASSUME Fresh # {}
  PROVE  NewToken \in Tokens /\ NewToken \notin Used
<1>1. Fresh \in SUBSET Nat
  BY ClaimAssumption DEF Fresh
<1>2. \E t \in Fresh : \A u \in Fresh : t <= u
  BY <1>1, LeastOf
<1> QED
  BY <1>2 DEF NewToken, Fresh

----------------------------------------------------------------------------
(* Part 1: the invariant. *)

Act(p) == Claim(p) \/ Free(p) \/ ClaimerDies(p)

\* With hard links a file is never seen half-written, and a release sweeps in one
\* step: the steps there are.
LEMMA StepsThereAre ==
  ASSUME KindWorld, Shapes, NEW p \in Flushers, Act(p)
  PROVE  \/ Look(p) \/ Publish(p) \/ Refused(p) \/ Mark(p) \/ LookAtMarker(p) \/ Recheck(p)
         \/ Rename(p) \/ RenameFails(p) \/ Clear(p) \/ Release(p) \/ Remove(p) \/ Sweep(p) \/ ClaimerDies(p)
<1>1. stage[p] \in Steps
  BY DEF Shapes, Memory
<1>2. ~WriteClaim(p) /\ ~MarkWrite(p) /\ ~List(p)
  BY <1>1 DEF WriteClaim, MarkWrite, List, Steps
<1> QED
  BY <1>2 DEF Act, Claim, Free

\* No claim lapses while its owner lives, and a dead owner's has lapsed already.
LEMMA NothingLapses ==
  ASSUME KindWorld, Shapes
  PROVE  ~Lapse
<1>1. \A f : Honest(f) => ~CanLapse(f)
  BY DEF KindWorld, Honest, CanLapse, Files
<1> QED
  BY <1>1 DEF Shapes, FilesHonest, Lapse

\* The text of a whole file is its token.
LEMMA TextOfWhole ==
  ASSUME NEW f, f = Nil \/ Honest(f)
  PROVE  /\ f = Nil => TextOf(f) = Nil
         /\ f # Nil => TextOf(f) = f.tok /\ f.tok \in Tokens /\ f.by \in Flushers
BY DEF TextOf, Honest, Files

\* A token is never Nil.
LEMMA TokenNotNull == \A t \in Tokens : t # Nil
BY ClaimAssumption

\* A new file is whole, and its owner alive.
LEMMA NewFileHonest ==
  ASSUME NEW p \in Flushers, tok[p] \in Tokens
  PROVE  /\ Honest(NewFile(p, TRUE)) /\ ~NewFile(p, TRUE).dead
         /\ NewFile(p, TRUE).tok = tok[p] /\ NewFile(p, TRUE).by = p
BY DEF NewFile, Honest, Files

\* A file is a record, never the absence of a file.
LEMMA HonestNotNull ==
  ASSUME NEW f, Honest(f)
  PROVE  f # Nil
BY NilAssumption DEF Honest

\* A step of p leaves what the others remember alone.
LEMMA OthersStand ==
  ASSUME KindWorld, Shapes, NEW p \in Flushers, Act(p)
  PROVE  \A q \in Flushers \ {p} : /\ stage'[q] = stage[q] /\ tok'[q] = tok[q]
                                   /\ name'[q] = name[q] /\ list'[q] = list[q]
<1>0. Memory
  BY DEF Shapes
<1> USE DEF Memory, Move, Busy, Forgotten, memory
<1>1. CASE Look(p)
  BY <1>0, <1>1 DEF Look
<1>2. CASE Publish(p)
  BY <1>0, <1>2 DEF Publish
<1>3. CASE Refused(p)
  BY <1>0, <1>3 DEF Refused
<1>4. CASE Mark(p)
  BY <1>0, <1>4 DEF Mark
<1>5. CASE LookAtMarker(p)
  BY <1>0, <1>5 DEF LookAtMarker
<1>6. CASE Recheck(p)
  BY <1>0, <1>6 DEF Recheck
<1>7. CASE Rename(p)
  BY <1>0, <1>7 DEF Rename
<1>8. CASE RenameFails(p)
  BY <1>0, <1>8 DEF RenameFails
<1>9. CASE Clear(p)
  BY <1>0, <1>9 DEF Clear
<1>10. CASE Release(p)
  BY <1>0, <1>10 DEF Release
<1>11. CASE Remove(p)
  BY <1>0, <1>11 DEF Remove
<1>12. CASE Sweep(p)
  BY <1>0, <1>12 DEF Sweep
<1>13. CASE ClaimerDies(p)
  BY <1>0, <1>13 DEF ClaimerDies
<1> HIDE DEF Memory, Move, Busy, Forgotten, memory
<1> QED
  BY <1>1, <1>2, <1>3, <1>4, <1>5, <1>6, <1>7, <1>8, <1>9, <1>10, <1>11, <1>12, <1>13, StepsThereAre

\* Memory keeps its shape.
LEMMA MemoryStep ==
  ASSUME KindWorld, Shapes, NEW p \in Flushers, Act(p)
  PROVE  Memory'
<1>0. Memory /\ FilesHonest
  BY DEF Shapes
<1> USE DEF Memory, Move, Busy, Forgotten, memory, Steps
<1>f. (claimFile = Nil \/ Honest(claimFile)) /\ \A m \in markers : m.name \in Chains /\ Honest(m.file)
  BY <1>0 DEF FilesHonest
<1>e. {} \in SUBSET Chains /\ <<>> \in Seq(Tokens)
  BY EmptySeq
<1>c. ASSUME Taking(p) PROVE name[p] \in Chains
  BY <1>0, <1>c DEF Shapes, Remembered, Chains
<1>s. ASSUME Taking(p) PROVE {name[p]} \union Prefixes(name[p]) \in SUBSET Chains
  BY <1>c, <1>s, PrefixesNames
<1>1. CASE Look(p)
  <2>1. NewToken \in Tokens
    BY <1>1, NewTokenIsNew DEF Look
  <2>2. claimFile # Nil => <<TextOf(claimFile)>> \in Seq(Tokens)
    <3>1. claimFile # Nil => TextOf(claimFile) \in Tokens
      BY <1>f, TextOfWhole
    <3> QED
      BY <3>1
  <2> QED
    BY <1>0, <1>1, <2>1, <2>2 DEF Look
<1>2. CASE Publish(p)
  <2>1. CASE Busy(p)
    BY <1>0, <2>1, <1>e
  <2>2. CASE ~Busy(p)
    <3>1. stage' = [stage EXCEPT ![p] = "holding"] /\ UNCHANGED <<tok, name, cur, list>>
      BY <1>2, <2>2 DEF Publish, KindWorld
    <3> QED
      BY <1>0, <3>1
  <2> QED
    BY <2>1, <2>2
<1>3. CASE Refused(p)
  BY <1>0, <1>3, <1>e DEF Refused
<1>4. CASE Mark(p)
  BY <1>0, <1>4, <1>e DEF Mark, KindWorld
<1>5. CASE LookAtMarker(p)
  <2>0. name[p] \in Chains
    BY <1>5, <1>c DEF LookAtMarker, Taking
  <2>1. \A m \in markers : Append(name[p], TextOf(m.file)) \in Seq(Tokens)
    <3>1. \A m \in markers : Honest(m.file)
      BY <1>f
    <3> SUFFICES ASSUME NEW m \in markers PROVE Append(name[p], TextOf(m.file)) \in Seq(Tokens)
      OBVIOUS
    <3>2. TextOf(m.file) \in Tokens
      BY <3>1, HonestNotNull, TextOfWhole
    <3> QED
      BY <2>0, <3>2, LongerName DEF Chains
  <2>2. CASE Busy(p)
    BY <1>0, <2>2, <1>e
  <2>3. CASE ~Busy(p)
    <3>1. PICK m \in markers : /\ name' = [name EXCEPT ![p] = Append(@, TextOf(m.file))]
                               /\ Move(p, "mark") /\ UNCHANGED <<tok, cur, list>>
      BY <1>5, <2>3 DEF LookAtMarker, MarkersAt
    <3> QED
      BY <1>0, <2>1, <3>1
  <2> QED
    BY <2>2, <2>3
<1>6. CASE Recheck(p)
  BY <1>0, <1>6, <1>s DEF Recheck, Taking
<1>7. CASE Rename(p)
  BY <1>0, <1>7, <1>s DEF Rename, Taking
<1>8. CASE RenameFails(p)
  <2>1. {name[p]} \in SUBSET Chains
    BY <1>8, <1>c DEF RenameFails, Taking
  <2> QED
    BY <1>0, <1>8, <2>1 DEF RenameFails
<1>9. CASE Clear(p)
  <2>1. CASE Busy(p)
    BY <1>0, <2>1, <1>e
  <2>2. ASSUME NEW n \in list[p], list' = [list EXCEPT ![p] = @ \ {n}], UNCHANGED <<stage, tok, name, cur>>
        PROVE  Memory'
    BY <1>0, <2>2
  <2>3. CASE Move(p, "holding") /\ name' = [name EXCEPT ![p] = <<>>] /\ UNCHANGED <<tok, cur, list>>
    BY <1>0, <2>3, <1>e
  <2> HIDE DEF Memory, Busy, Move
  <2> QED
    BY <1>9, <2>1, <2>2, <2>3 DEF Clear
<1>10. CASE Release(p)
  BY <1>0, <1>10 DEF Release
<1>11. CASE Remove(p)
  BY <1>0, <1>11 DEF Remove
<1>12. CASE Sweep(p)
  <2>1. Swept(TextOf(claimFile)) \in SUBSET Chains
    BY <1>f DEF Swept
  <2> QED
    BY <1>0, <1>12, <2>1 DEF Sweep, KindWorld
<1>13. CASE ClaimerDies(p)
  BY <1>0, <1>13, <1>e DEF ClaimerDies
<1> HIDE DEF Memory, Move, Busy, Forgotten, memory, Steps
<1> QED
  BY <1>1, <1>2, <1>3, <1>4, <1>5, <1>6, <1>7, <1>8, <1>9, <1>10, <1>11, <1>12, <1>13, StepsThereAre

\* What becomes of the claim on file: most steps leave it alone.
LEMMA FileSteps ==
  ASSUME KindWorld, Shapes, NEW p \in Flushers, Act(p)
  PROVE  \/ claimFile' = claimFile
         \/ Publish(p) /\ claimFile = Nil /\ claimFile' = NewFile(p, TRUE)
         \/ Rename(p) /\ claimFile' = NewFile(p, TRUE)
         \/ Remove(p) /\ claimFile' = Nil
         \/ ClaimerDies(p) /\ claimFile # Nil /\ claimFile' = Orphaned(claimFile, p)
<1> USE DEF KindWorld
<1>1. CASE Look(p) \/ Refused(p) \/ Mark(p) \/ LookAtMarker(p) \/ Recheck(p) \/ RenameFails(p)
  BY <1>1 DEF Look, Refused, Mark, LookAtMarker, Recheck, RenameFails
<1>2. CASE Clear(p) \/ Release(p) \/ Sweep(p)
  BY <1>2 DEF Clear, Release, Sweep
<1>3. CASE Publish(p)
  BY <1>3 DEF Publish
<1>4. CASE Rename(p)
  BY <1>4 DEF Rename
<1>5. CASE Remove(p)
  BY <1>5 DEF Remove
<1>6. CASE ClaimerDies(p)
  BY <1>6 DEF ClaimerDies
<1> HIDE DEF KindWorld
<1> QED
  BY <1>1, <1>2, <1>3, <1>4, <1>5, <1>6, StepsThereAre

\* ... and of the markers.
LEMMA MarkerSteps ==
  ASSUME KindWorld, Shapes, NEW p \in Flushers, Act(p)
  PROVE  \/ markers' = markers
         \/ /\ Mark(p) /\ MarkersAt(name[p]) = {} /\ stage[p] = "mark" /\ stage'[p] = "recheck"
            /\ markers' = markers \union {[name |-> name[p], file |-> NewFile(p, TRUE)]}
         \/ /\ Clear(p) /\ stage[p] = "clear" /\ stage'[p] = "clear"
            /\ \E n \in list[p] : markers' = markers \ MarkersAt(n) /\ list'[p] = list[p] \ {n}
         \/ ClaimerDies(p) /\ markers' = {[m EXCEPT !.file = Orphaned(m.file, p)] : m \in markers}
<1>0. stage \in [Flushers -> Steps] /\ list \in [Flushers -> SUBSET Chains]
  BY DEF Shapes, Memory
<1> USE DEF KindWorld
<1>1. CASE Look(p) \/ Refused(p) \/ Publish(p) \/ LookAtMarker(p) \/ Recheck(p) \/ RenameFails(p)
  BY <1>1 DEF Look, Refused, Publish, LookAtMarker, Recheck, RenameFails
<1>2. CASE Rename(p) \/ Release(p) \/ Remove(p) \/ Sweep(p)
  BY <1>2 DEF Rename, Release, Remove, Sweep
<1>3. CASE Mark(p)
  BY <1>0, <1>3 DEF Mark, Move
<1>4. CASE Clear(p)
  BY <1>0, <1>4 DEF Clear
<1>5. CASE ClaimerDies(p)
  BY <1>5 DEF ClaimerDies
<1> HIDE DEF KindWorld
<1> QED
  BY <1>1, <1>2, <1>3, <1>4, <1>5, StepsThereAre

\* A file whose owner dies stays whole, and has lapsed then; the others stand.
LEMMA OrphanHonest ==
  ASSUME NEW f, Honest(f), NEW p \in Flushers
  PROVE  /\ Honest(Orphaned(f, p)) /\ Orphaned(f, p).tok = f.tok /\ Orphaned(f, p).by = f.by
         /\ f.by = p => Orphaned(f, p).dead
         /\ f.by # p => Orphaned(f, p) = f
         /\ f.dead => Orphaned(f, p).dead
BY DEF Orphaned, Honest, Files

\* The markers after a death are those before, some with a dead owner now.
LEMMA Orphans ==
  ASSUME FilesHonest, NEW p \in Flushers,
         markers' = {[m EXCEPT !.file = Orphaned(m.file, p)] : m \in markers}
  PROVE  /\ \A m \in markers : [name |-> m.name, file |-> Orphaned(m.file, p)] \in markers'
         /\ \A k \in markers' : \E m \in markers : k = [name |-> m.name, file |-> Orphaned(m.file, p)]
<1>1. ASSUME NEW m \in markers
      PROVE  [m EXCEPT !.file = Orphaned(m.file, p)] = [name |-> m.name, file |-> Orphaned(m.file, p)]
  <2>1. PICK n, f : m = [name |-> n, file |-> f]
    BY DEF FilesHonest
  <2> QED
    BY <2>1
<1> QED
  BY <1>1

\* Files stay honest.
LEMMA FilesStep ==
  ASSUME KindWorld, Shapes, NEW p \in Flushers, Act(p)
  PROVE  FilesHonest'
<1>0. Memory /\ FilesHonest /\ Remembered
  BY DEF Shapes
<1>1. claimFile' = Nil \/ Honest(claimFile')
  <2>1. Publish(p) \/ Rename(p) => tok[p] \in Tokens
    BY <1>0 DEF Memory, Remembered, Publish, Rename, Pending
  <2>2. claimFile = Nil \/ Honest(claimFile)
    BY <1>0 DEF FilesHonest
  <2>3. (Publish(p) \/ Rename(p)) /\ claimFile' = NewFile(p, TRUE) => Honest(claimFile')
    BY <2>1, NewFileHonest
  <2>4. claimFile # Nil /\ claimFile' = Orphaned(claimFile, p) => Honest(claimFile')
    BY <2>2, OrphanHonest
  <2> QED
    BY <2>2, <2>3, <2>4, FileSteps
<1>2. ASSUME NEW k \in markers'
      PROVE  k = [name |-> k.name, file |-> k.file] /\ k.name \in Chains /\ Honest(k.file)
  <2>0. \A m \in markers : m = [name |-> m.name, file |-> m.file] /\ m.name \in Chains /\ Honest(m.file)
    BY <1>0 DEF FilesHonest
  <2>1. CASE k \in markers
    BY <2>0, <2>1
  <2>2. CASE Mark(p) /\ k = [name |-> name[p], file |-> NewFile(p, TRUE)]
    <3>1. stage[p] = "mark"
      BY <2>2 DEF Mark
    <3>2. name[p] \in Chains /\ tok[p] \in Tokens
      BY <1>0, <3>1 DEF Memory, Remembered, Taking, Pending, Chains
    <3> QED
      BY <2>2, <3>2, NewFileHonest
  <2>3. CASE ClaimerDies(p) /\ markers' = {[m EXCEPT !.file = Orphaned(m.file, p)] : m \in markers}
    <3>1. PICK m \in markers : k = [name |-> m.name, file |-> Orphaned(m.file, p)]
      BY <1>0, <2>3, Orphans
    <3> QED
      BY <2>0, <3>1, OrphanHonest
  <2> QED
    BY <2>1, <2>2, <2>3, MarkerSteps
<1> QED
  BY <1>1, <1>2 DEF FilesHonest, Honest

\* What a process remembers fits where it stands.
LEMMA RememberedStep ==
  ASSUME KindWorld, Shapes, NEW p \in Flushers, Act(p)
  PROVE  Remembered'
<1>0. Memory /\ FilesHonest /\ Remembered /\ Memory'
  BY MemoryStep DEF Shapes
<1> DEFINE Fits(q) == /\ Taking(q) => name[q] # <<>>
                      /\ stage[q] # "clear" => list[q] = {}
                      /\ Pending(q) \/ stage[q] = "holding" => tok[q] # Nil
                      /\ stage[q] \in {"idle", "remove", "sweep"} => tok[q] = Nil
<1>1. ASSUME NEW q \in Flushers \ {p} PROVE Fits(q)'
  <2>1. /\ stage'[q] = stage[q] /\ tok'[q] = tok[q] /\ name'[q] = name[q] /\ list'[q] = list[q]
        /\ Fits(q)
    BY <1>0, OthersStand DEF Remembered
  <2> QED
    BY <2>1 DEF Taking, Pending
<1>2. Fits(p)'
  <2>0. Fits(p)
    BY <1>0 DEF Remembered
  <2> USE DEF Memory, Move, Busy, Forgotten, memory, Taking, Pending
  <2>1. CASE Look(p)
    <3>1. NewToken # Nil
      BY <2>1, NewTokenIsNew, TokenNotNull DEF Look
    <3>2. \A x : <<x>> # <<>>
      OBVIOUS
    <3>3. tok'[p] = NewToken /\ list'[p] = list[p] /\ stage[p] = "idle"
      BY <1>0, <2>1 DEF Look
    <3>4. stage'[p] = "publish" \/ (stage'[p] = "mark" /\ name'[p] = <<TextOf(claimFile)>>)
      BY <1>0, <2>1 DEF Look
    <3> QED
      BY <2>0, <3>1, <3>2, <3>3, <3>4
  <2>2. CASE Publish(p)
    BY <1>0, <2>0, <2>2 DEF Publish, KindWorld
  <2>3. CASE Refused(p)
    BY <1>0, <2>0, <2>3 DEF Refused
  <2>4. CASE Mark(p)
    BY <1>0, <2>0, <2>4 DEF Mark, KindWorld
  <2>5. CASE LookAtMarker(p)
    <3>1. CASE Busy(p)
      BY <1>0, <2>0, <3>1
    <3>2. CASE ~Busy(p)
      <4>1. PICK m \in markers : /\ name' = [name EXCEPT ![p] = Append(@, TextOf(m.file))]
                                 /\ Move(p, "mark") /\ UNCHANGED <<tok, cur, list>>
        BY <2>5, <3>2 DEF LookAtMarker, MarkersAt
      <4>2. TextOf(m.file) \in Tokens /\ name[p] \in Chains
        <5>1. Honest(m.file)
          BY <1>0 DEF FilesHonest
        <5>2. stage[p] = "look"
          BY <2>5 DEF LookAtMarker
        <5> QED
          BY <1>0, <2>0, <5>1, <5>2, HonestNotNull, TextOfWhole DEF Chains
      <4>3. name'[p] # <<>>
        <5>1. name'[p] = Append(name[p], TextOf(m.file))
          BY <1>0, <4>1
        <5> QED
          BY <4>2, <5>1, LongerName DEF Chains
      <4> QED
        BY <1>0, <2>0, <2>5, <4>1, <4>3 DEF LookAtMarker
    <3> QED
      BY <3>1, <3>2
  <2>6. CASE Recheck(p)
    BY <1>0, <2>0, <2>6 DEF Recheck
  <2>7. CASE Rename(p)
    BY <1>0, <2>0, <2>7 DEF Rename
  <2>8. CASE RenameFails(p)
    BY <1>0, <2>0, <2>8 DEF RenameFails
  <2>9. CASE Clear(p)
    BY <1>0, <2>0, <2>9 DEF Clear
  <2>10. CASE Release(p)
    BY <1>0, <2>0, <2>10 DEF Release
  <2>11. CASE Remove(p)
    BY <1>0, <2>0, <2>11 DEF Remove
  <2>12. CASE Sweep(p)
    BY <1>0, <2>0, <2>12 DEF Sweep, KindWorld
  <2>13. CASE ClaimerDies(p)
    BY <1>0, <2>0, <2>13 DEF ClaimerDies
  <2> HIDE DEF Memory, Move, Busy, Forgotten, memory, Taking, Pending
  <2> HIDE DEF Fits
  <2> QED
    BY <2>1, <2>2, <2>3, <2>4, <2>5, <2>6, <2>7, <2>8, <2>9, <2>10, <2>11, <2>12, <2>13, StepsThereAre
<1> QED
  BY <1>1, <1>2 DEF Remembered

\* Two markers never have one name: a marker is published exclusively.
LEMMA OneMarkerStep ==
  ASSUME KindWorld, Shapes, OneMarker, NEW p \in Flushers, Act(p)
  PROVE  OneMarker'
<1>0. FilesHonest
  BY DEF Shapes
<1>1. CASE markers' \subseteq markers
  BY <1>1 DEF OneMarker
<1>2. CASE /\ MarkersAt(name[p]) = {}
           /\ markers' = markers \union {[name |-> name[p], file |-> NewFile(p, TRUE)]}
  <2>1. \A m \in markers : m.name # name[p]
    BY <1>2 DEF MarkersAt
  <2>2. \A k \in markers' : k \in markers \/ k = [name |-> name[p], file |-> NewFile(p, TRUE)]
    BY <1>2
  <2>3. \A f : [name |-> name[p], file |-> f].name = name[p]
    OBVIOUS
  <2> QED
    BY <2>1, <2>2, <2>3 DEF OneMarker
<1>3. CASE markers' = {[m EXCEPT !.file = Orphaned(m.file, p)] : m \in markers}
  <2> SUFFICES ASSUME NEW k \in markers', NEW l \in markers', k.name = l.name PROVE k = l
    BY DEF OneMarker
  <2>1. PICK m \in markers : k = [name |-> m.name, file |-> Orphaned(m.file, p)]
    BY <1>0, <1>3, Orphans
  <2>2. PICK n \in markers : l = [name |-> n.name, file |-> Orphaned(n.file, p)]
    BY <1>0, <1>3, Orphans
  <2>3. m = n
    BY <2>1, <2>2 DEF OneMarker
  <2> QED
    BY <2>1, <2>2, <2>3
<1> QED
  BY <1>1, <1>2, <1>3, MarkerSteps

\* What p is after, and what it clears, after its step.
LEMMA Pursuit ==
  ASSUME KindWorld, Shapes, NEW p \in Flushers, Act(p)
  PROVE  /\ Taking(p)' => \/ Taking(p) /\ name'[p][1] = name[p][1]
                          \/ Look(p) /\ claimFile # Nil /\ name'[p] = <<claimFile.tok>> /\ stage'[p] = "mark"
         /\ \A n \in list'[p] : \/ n \in list[p]
                                \/ Taking(p) /\ n[1] = name[p][1]
                                \/ Sweep(p) /\ n \in Swept(TextOf(claimFile))
<1>0. Memory /\ FilesHonest /\ Remembered /\ Memory'
  BY MemoryStep DEF Shapes
<1>c. Taking(p) => /\ name[p] \in Chains
                   /\ \A n \in {name[p]} \union Prefixes(name[p]) : n[1] = name[p][1]
  BY <1>0, PrefixesNames DEF Memory, Remembered, Chains
<1> USE DEF Memory, Move, Busy, Forgotten, memory, Taking
<1>1. CASE Look(p)
  <2>1. list' = list /\ (stage'[p] = "publish" \/ (stage'[p] = "mark" /\ claimFile # Nil /\ name'[p] = <<TextOf(claimFile)>>))
    BY <1>0, <1>1 DEF Look
  <2>2. claimFile # Nil => TextOf(claimFile) = claimFile.tok
    BY <1>0, TextOfWhole DEF FilesHonest
  <2> QED
    BY <1>1, <2>1, <2>2
<1>2. CASE Publish(p)
  BY <1>0, <1>2 DEF Publish, KindWorld
<1>3. CASE Refused(p)
  BY <1>0, <1>3 DEF Refused
<1>4. CASE Mark(p)
  BY <1>0, <1>4 DEF Mark, KindWorld
<1>5. CASE LookAtMarker(p)
  <2>1. CASE Busy(p)
    BY <1>0, <2>1
  <2>2. CASE ~Busy(p)
    <3>1. PICK m \in markers : /\ name' = [name EXCEPT ![p] = Append(@, TextOf(m.file))]
                               /\ Move(p, "mark") /\ UNCHANGED <<tok, cur, list>>
      BY <1>5, <2>2 DEF LookAtMarker, MarkersAt
    <3>2. TextOf(m.file) \in Tokens /\ Taking(p)
      <4>1. Honest(m.file)
        BY <1>0 DEF FilesHonest
      <4> QED
        BY <1>5, <4>1, HonestNotNull, TextOfWhole DEF LookAtMarker
    <3>3. name'[p] = Append(name[p], TextOf(m.file)) /\ list' = list
      BY <1>0, <3>1
    <3> QED
      BY <1>c, <3>2, <3>3, LongerName
  <2> QED
    BY <2>1, <2>2
<1>6. CASE Recheck(p)
  BY <1>0, <1>6, <1>c DEF Recheck
<1>7. CASE Rename(p)
  BY <1>0, <1>7, <1>c DEF Rename
<1>8. CASE RenameFails(p)
  BY <1>0, <1>8, <1>c DEF RenameFails
<1>9. CASE Clear(p)
  BY <1>0, <1>9 DEF Clear
<1>10. CASE Release(p)
  BY <1>0, <1>10 DEF Release
<1>11. CASE Remove(p)
  BY <1>0, <1>11 DEF Remove
<1>12. CASE Sweep(p)
  BY <1>0, <1>12 DEF Sweep, KindWorld
<1>13. CASE ClaimerDies(p)
  BY <1>0, <1>13 DEF ClaimerDies
<1> HIDE DEF Memory, Move, Busy, Forgotten, memory, Taking
<1> QED
  BY <1>1, <1>2, <1>3, <1>4, <1>5, <1>6, <1>7, <1>8, <1>9, <1>10, <1>11, <1>12, <1>13, StepsThereAre

\* Where the markers of a later state come from.
LEMMA MarkerNames ==
  ASSUME KindWorld, Shapes, NEW p \in Flushers, Act(p), NEW k \in markers'
  PROVE  \/ \E m \in markers : m.name = k.name
         \/ Mark(p) /\ k.name = name[p]
<1>1. CASE markers' \subseteq markers
  BY <1>1
<1>2. CASE Mark(p) /\ markers' = markers \union {[name |-> name[p], file |-> NewFile(p, TRUE)]}
  <2>1. k \in markers \/ k = [name |-> name[p], file |-> NewFile(p, TRUE)]
    BY <1>2
  <2>2. \A n, f : [name |-> n, file |-> f].name = n
    OBVIOUS
  <2> QED
    BY <1>2, <2>1, <2>2
<1>3. CASE markers' = {[m EXCEPT !.file = Orphaned(m.file, p)] : m \in markers}
  BY <1>3, Orphans DEF Shapes
<1> QED
  BY <1>1, <1>2, <1>3, MarkerSteps

\* A step names no claim that was not named before, but for the one on file.
LEMMA NothingNewNamed ==
  ASSUME KindWorld, Shapes, NEW p \in Flushers, Act(p), NEW t, IsNamed(t)'
  PROVE  IsNamed(t) \/ (Look(p) /\ claimFile # Nil /\ t = claimFile.tok)
<1>1. ASSUME NEW q \in Flushers, Taking(q)', name'[q][1] = t
      PROVE  IsNamed(t) \/ (Look(p) /\ claimFile # Nil /\ t = claimFile.tok)
  <2>1. CASE q = p
    <3>1. \A x : <<x>>[1] = x
      OBVIOUS
    <3> QED
      BY <1>1, <2>1, <3>1, Pursuit DEF IsNamed
  <2>2. CASE q # p
    BY <1>1, <2>2, OthersStand DEF IsNamed, Taking
  <2> QED
    BY <2>1, <2>2
<1>2. ASSUME NEW k \in markers', k.name[1] = t PROVE IsNamed(t)
  <2>1. Mark(p) => Taking(p)
    BY DEF Mark, Taking
  <2> QED
    BY <1>2, <2>1, MarkerNames DEF IsNamed
<1>3. ASSUME NEW q \in Flushers, NEW n \in list'[q], n[1] = t PROVE IsNamed(t)
  <2>1. CASE q = p
    <3>1. \A k \in Swept(TextOf(claimFile)) : \E m \in markers : m.name = k
      BY DEF Swept
    <3> QED
      BY <1>3, <2>1, <3>1, Pursuit DEF IsNamed
  <2>2. CASE q # p
    BY <1>3, <2>2, OthersStand DEF IsNamed
  <2> QED
    BY <2>1, <2>2
<1> QED
  BY <1>1, <1>2, <1>3 DEF IsNamed

\* What refers to a token.
LEMMA InUse ==
  /\ claimFile # Nil => claimFile.tok \in Used
  /\ \A m \in markers : SeqToks(m.name) \subseteq Used
  /\ \A p \in Flushers : /\ tok[p] \in Used
                         /\ SeqToks(name[p]) \subseteq Used
                      /\ \A n \in list[p] : SeqToks(n) \subseteq Used
<1> DEFINE OfMarker(m) == SeqToks(m.name) \union {m.file.tok}
           OfList(p) == UNION {SeqToks(n) : n \in list[p]}
           OfProc(p) == {tok[p], cur[p]} \union SeqToks(name[p]) \union OfList(p)
           OfFile == IF claimFile = Nil THEN {} ELSE {claimFile.tok}
           OfMarkers == UNION {OfMarker(m) : m \in markers}
           OfProcs == UNION {OfProc(p) : p \in Flushers}
<1>1. Used = OfFile \union OfMarkers \union OfProcs
  <2>1. OfMarkers = UNION {SeqToks(m.name) \union {m.file.tok} : m \in markers}
    OBVIOUS
  <2>2. OfProcs = UNION {{tok[p], cur[p]} \union SeqToks(name[p])
                           \union UNION {SeqToks(n) : n \in list[p]} : p \in Flushers}
    OBVIOUS
  <2>3. OfFile = IF claimFile = Nil THEN {} ELSE {claimFile.tok}
    OBVIOUS
  <2> HIDE DEF OfMarkers, OfProcs, OfFile
  <2> QED
    BY <2>1, <2>2, <2>3, Zenon DEF Used
<1>2. ASSUME NEW p \in Flushers, NEW n \in list[p] PROVE SeqToks(n) \subseteq OfList(p)
  BY <1>2
<1>3. ASSUME NEW p \in Flushers PROVE /\ tok[p] \in OfProc(p) /\ SeqToks(name[p]) \subseteq OfProc(p)
                                      /\ OfList(p) \subseteq OfProc(p)
  <2> HIDE DEF OfList, OfMarker, OfFile
  <2> QED
    BY Zenon
<1>4. ASSUME NEW m \in markers PROVE SeqToks(m.name) \subseteq OfMarker(m)
  BY <1>4
<1>5. claimFile # Nil => claimFile.tok \in OfFile
  OBVIOUS
<1> HIDE DEF OfMarker, OfList, OfProc, OfFile, OfMarkers, OfProcs
<1>6. ASSUME NEW p \in Flushers PROVE OfProc(p) \subseteq Used
  <2>1. OfProc(p) \in {OfProc(x) : x \in Flushers}
    OBVIOUS
  <2>2. OfProc(p) \subseteq OfProcs
    <3>1. \A S, T : S \in T => S \subseteq UNION T
      OBVIOUS
    <3> QED
      BY <2>1, <3>1 DEF OfProcs
  <2> QED
    BY <1>1, <2>2
<1>7. ASSUME NEW m \in markers PROVE OfMarker(m) \subseteq Used
  <2>1. OfMarker(m) \in {OfMarker(x) : x \in markers}
    OBVIOUS
  <2>2. OfMarker(m) \subseteq OfMarkers
    <3>1. \A S, T : S \in T => S \subseteq UNION T
      OBVIOUS
    <3> QED
      BY <2>1, <3>1 DEF OfMarkers
  <2> QED
    BY <1>1, <2>2
<1>8. claimFile # Nil => claimFile.tok \in Used
  BY <1>1, <1>5
<1>9. \A m \in markers : SeqToks(m.name) \subseteq Used
  BY <1>4, <1>7
<1>10. ASSUME NEW p \in Flushers
       PROVE  /\ tok[p] \in Used /\ SeqToks(name[p]) \subseteq Used
              /\ \A n \in list[p] : SeqToks(n) \subseteq Used
  <2>1. OfProc(p) \subseteq Used
    BY <1>6
  <2>2. tok[p] \in OfProc(p) /\ SeqToks(name[p]) \subseteq OfProc(p) /\ OfList(p) \subseteq OfProc(p)
    BY <1>3
  <2>3. \A n \in list[p] : SeqToks(n) \subseteq OfList(p)
    BY <1>2
  <2> QED
    BY <2>1, <2>2, <2>3
<1> QED
  BY <1>8, <1>9, <1>10

\* What is named refers to the token.
LEMMA NamedIsUsed ==
  ASSUME Shapes, NEW t, IsNamed(t)
  PROVE  t \in Used
<1>1. \A n \in Chains : n[1] \in SeqToks(n)
  <2> SUFFICES ASSUME NEW n \in Chains PROVE n[1] \in SeqToks(n)
    OBVIOUS
  <2>1. 1 \in 1..Len(n)
    BY LenProperties, EmptySeq DEF Chains
  <2> QED
    BY <2>1 DEF SeqToks
<1>2. \A p \in Flushers : Taking(p) => name[p] \in Chains
  BY DEF Shapes, Memory, Remembered, Chains
<1>3. \A p \in Flushers : \A n \in list[p] : n \in Chains
  BY DEF Shapes, Memory
<1>4. \A m \in markers : m.name \in Chains
  BY DEF Shapes, FilesHonest
<1>5. ASSUME NEW p \in Flushers, Taking(p), name[p][1] = t PROVE t \in Used
  BY <1>1, <1>2, <1>5, InUse
<1>6. ASSUME NEW m \in markers, m.name[1] = t PROVE t \in Used
  BY <1>1, <1>4, <1>6, InUse
<1>7. ASSUME NEW p \in Flushers, NEW n \in list[p], n[1] = t PROVE t \in Used
  BY <1>1, <1>3, <1>7, InUse
<1> QED
  BY <1>5, <1>6, <1>7 DEF IsNamed

\* A process that starts to want a token takes a new one; the others keep theirs.
LEMMA PendingToken ==
  ASSUME KindWorld, Shapes, NEW p \in Flushers, Act(p), Pending(p)'
  PROVE  \/ Pending(p) /\ tok'[p] = tok[p]
         \/ Look(p) /\ tok'[p] = NewToken /\ Fresh # {}
<1>0. Memory
  BY DEF Shapes
<1> USE DEF Memory, Move, Busy, Forgotten, memory, Pending
<1>1. CASE Look(p)
  BY <1>0, <1>1 DEF Look
<1>2. CASE Publish(p)
  BY <1>0, <1>2 DEF Publish, KindWorld
<1>3. CASE Refused(p)
  BY <1>0, <1>3 DEF Refused
<1>4. CASE Mark(p)
  BY <1>0, <1>4 DEF Mark, KindWorld
<1>5. CASE LookAtMarker(p)
  BY <1>0, <1>5 DEF LookAtMarker
<1>6. CASE Recheck(p)
  BY <1>0, <1>6 DEF Recheck
<1>7. CASE Rename(p) \/ RenameFails(p)
  BY <1>0, <1>7 DEF Rename, RenameFails
<1>9. CASE Clear(p)
  BY <1>0, <1>9 DEF Clear
<1>10. CASE Release(p) \/ Remove(p) \/ Sweep(p)
  BY <1>0, <1>10 DEF Release, Remove, Sweep, KindWorld
<1>13. CASE ClaimerDies(p)
  BY <1>0, <1>13 DEF ClaimerDies
<1> HIDE DEF Memory, Move, Busy, Forgotten, memory, Pending
<1> QED
  BY <1>1, <1>2, <1>3, <1>4, <1>5, <1>6, <1>7, <1>9, <1>10, <1>13, StepsThereAre

\* A token that is not on file yet stays its taker's alone.
LEMMA NewTokensStep ==
  ASSUME KindWorld, Shapes, NewTokens, NEW p \in Flushers, Act(p)
  PROVE  NewTokens'
<1>1. ASSUME NEW q \in Flushers, Pending(q)'
      PROVE  \/ Pending(q) /\ tok'[q] = tok[q]
             \/ q = p /\ Look(p) /\ tok'[q] \in Tokens /\ tok'[q] \notin Used
  <2>1. CASE q = p
    BY <1>1, <2>1, PendingToken, NewTokenIsNew
  <2>2. CASE q # p
    BY <1>1, <2>2, OthersStand DEF Pending
  <2> QED
    BY <2>1, <2>2
<1>2. \A q \in Flushers : tok[q] \in Used
  BY InUse
<1>3. Look(p) => claimFile' = claimFile /\ (claimFile # Nil => claimFile.tok \in Used)
  BY InUse DEF Look
<1>4. ASSUME NEW q \in Flushers, Pending(q)'
      PROVE  ~IsNamed(tok[q])' /\ (claimFile' # Nil => claimFile'.tok # tok'[q])
  <2>0. PICK t : t = tok'[q]
    OBVIOUS
  <2> SUFFICES ~IsNamed(t)' /\ (claimFile' # Nil => claimFile'.tok # t)
    BY <2>0
  <2>1. CASE Pending(q) /\ tok'[q] = tok[q]
    <3>1. ~IsNamed(tok[q]) /\ (claimFile # Nil => claimFile.tok # tok[q])
      BY <2>1 DEF NewTokens
    <3>2. ~IsNamed(t)'
      <4>1. t = tok[q] /\ ~IsNamed(t)
        BY <2>0, <2>1, <3>1
      <4> QED
        BY <2>1, <3>1, <4>1, NothingNewNamed
    <3>3. claimFile' # Nil => claimFile'.tok # t
      <4>1. CASE claimFile' = claimFile \/ claimFile' = Nil
        BY <2>0, <2>1, <3>1, <4>1
      <4>2. CASE (Publish(p) \/ Rename(p)) /\ claimFile' = NewFile(p, TRUE)
        <5>1. Pending(p) /\ ~Pending(p)' /\ tok[p] \in Tokens
          <6>0. stage \in [Flushers -> Steps] /\ tok \in [Flushers -> Tokens \union {Nil}]
            BY DEF Shapes, Memory
          <6>1. Pending(p)
            BY <4>2 DEF Publish, Rename, Pending
          <6>2. tok[p] \in Tokens
            BY <6>0, <6>1 DEF Shapes, Remembered
          <6>3. ~Pending(p)'
            BY <4>2, <6>0 DEF Publish, Rename, Pending, Move, Busy, Forgotten, KindWorld
          <6> QED
            BY <6>1, <6>2, <6>3
        <5>2. q # p
          BY <1>4, <5>1
        <5>3. tok[q] # tok[p]
          BY <2>1, <5>1, <5>2 DEF NewTokens
        <5> QED
          BY <2>0, <2>1, <4>2, <5>1, <5>3, NewFileHonest
      <4>3. CASE claimFile # Nil /\ claimFile' = Orphaned(claimFile, p)
        <5>1. Honest(claimFile)
          BY <4>3 DEF Shapes, FilesHonest
        <5> QED
          BY <2>0, <2>1, <3>1, <4>3, <5>1, OrphanHonest
      <4> QED
        BY <4>1, <4>2, <4>3, FileSteps
    <3> QED
      BY <3>2, <3>3
  <2>2. CASE q = p /\ Look(p) /\ tok'[q] \notin Used
    <3>1. t \notin Used /\ ~IsNamed(t)
      BY <2>0, <2>2, NamedIsUsed
    <3> QED
      BY <1>3, <2>2, <3>1, NothingNewNamed
  <2> QED
    BY <1>1, <1>4, <2>1, <2>2
<1>5. ASSUME NEW q \in Flushers, NEW r \in Flushers, Pending(q)', Pending(r)', tok'[q] = tok'[r]
      PROVE  q = r
  BY <1>1, <1>2, <1>5 DEF NewTokens
<1> QED
  BY <1>4, <1>5 DEF NewTokens

\* The names that two processes after the claim in place have walked are the same
\* as far as the shorter goes: each dead marker on the way is the only one of its
\* name, and it alone says where to go on.
LEMMA OneWay ==
  ASSUME Shapes, OneMarker, Walked, NEW p \in Flushers, NEW q \in Flushers, Taking(p), Taking(q),
         InPlace(name[p]), InPlace(name[q]), Len(name[p]) <= Len(name[q])
  PROVE  SubSeq(name[q], 1, Len(name[p])) = name[p]
<1> DEFINE a == name[p]
           b == name[q]
           D == {i \in 1..Len(a) : a[i] # b[i]}
<1>1. a \in Chains /\ b \in Chains
  BY DEF Shapes, Memory, Remembered, Chains
<1>2. /\ a \in Seq(Tokens) /\ b \in Seq(Tokens) /\ Len(a) \in Nat \ {0} /\ Len(b) \in Nat /\ Len(a) <= Len(b)
      /\ a[1] = b[1]
      /\ \A i \in 1..(Len(a) - 1) : DeadAt(SubSeq(a, 1, i), a[i + 1])
      /\ \A i \in 1..(Len(b) - 1) : DeadAt(SubSeq(b, 1, i), b[i + 1])
  <2>1. a \in Seq(Tokens) /\ b \in Seq(Tokens) /\ Len(a) \in Nat \ {0} /\ Len(b) \in Nat
    BY <1>1, LenProperties, EmptySeq DEF Chains
  <2>2. Walk(p) /\ Walk(q)
    BY DEF Walked
  <2> QED
    BY <2>1, <2>2 DEF Walk, InPlace
<1> HIDE DEF a, b
<1>3. ASSUME NEW i \in 1..Len(a), \A j \in 1..i : a[j] = b[j] PROVE SubSeq(a, 1, i) = SubSeq(b, 1, i)
  <2>1. i \in 1..Len(b)
    BY <1>2
  <2>2. /\ SubSeq(a, 1, i) \in Seq(Tokens) /\ Len(SubSeq(a, 1, i)) = i
        /\ SubSeq(b, 1, i) \in Seq(Tokens) /\ Len(SubSeq(b, 1, i)) = i
        /\ \A j \in 1..i : SubSeq(a, 1, i)[j] = a[j] /\ SubSeq(b, 1, i)[j] = b[j]
    BY <1>1, <2>1, PrefixNames DEF Chains
  <2> QED
    BY <1>3, <2>2, SeqEqual
<1>4. D = {}
  <2> SUFFICES ASSUME D # {} PROVE FALSE
    OBVIOUS
  <2>1. PICK i \in D : \A j \in D : i <= j
    <3>1. D \in SUBSET Nat
      BY <1>2
    <3> HIDE DEF D
    <3> QED
      BY <3>1, LeastOf
  <2>2. i \in 1..Len(a) /\ a[i] # b[i] /\ i # 1
    BY <1>2, <2>1
  <2>3. /\ i - 1 \in 1..Len(a) /\ i - 1 \in 1..(Len(a) - 1) /\ i - 1 \in 1..(Len(b) - 1)
        /\ i - 1 + 1 = i
    BY <1>2, <2>2
  <2>4. ASSUME NEW j \in 1..(i - 1) PROVE a[j] = b[j]
    <3>1. j \in 1..Len(a) /\ ~(i <= j)
      BY <1>2, <2>2
    <3> QED
      BY <2>1, <3>1
  <2>5. SubSeq(a, 1, i - 1) = SubSeq(b, 1, i - 1)
    BY <1>3, <2>3, <2>4
  <2>6. DeadAt(SubSeq(a, 1, i - 1), a[i]) /\ DeadAt(SubSeq(b, 1, i - 1), b[i])
    BY <1>2, <2>3
  <2> QED
    BY <2>2, <2>5, <2>6 DEF DeadAt, OneMarker
<1>5. SubSeq(b, 1, Len(a)) = SubSeq(a, 1, Len(a))
  <2>1. Len(a) \in 1..Len(a) /\ \A j \in 1..Len(a) : a[j] = b[j]
    BY <1>2, <1>4
  <2> QED
    BY <1>3, <2>1
<1>6. SubSeq(a, 1, Len(a)) = a
  BY <1>2, SubSeqFull
<1> QED
  BY <1>5, <1>6 DEF a, b

\* So only one process at a time has its marker down for the claim in place.
LEMMA AloneUnderMarker ==
  ASSUME Shapes, OneMarker, Walked, NEW p \in Flushers, NEW q \in Flushers, Marked(p), Marked(q),
         InPlace(name[p]), InPlace(name[q])
  PROVE  p = q
<1>1. Taking(p) /\ Taking(q)
  BY DEF Marked, Taking
<1>2. LiveAt(name[p], p) /\ LiveAt(name[q], q)
  BY <1>1 DEF Walked, Walk
<1>3. Len(name[p]) \in Nat /\ Len(name[q]) \in Nat /\ Len(name[p]) # 0 /\ Len(name[q]) # 0
  <2>1. name[p] \in Seq(Tokens) /\ name[q] \in Seq(Tokens) /\ name[p] # <<>> /\ name[q] # <<>>
    BY <1>1 DEF Shapes, Memory, Remembered
  <2> QED
    BY <2>1, EmptySeq
<1>4. ASSUME NEW r \in Flushers, NEW s \in Flushers, Taking(r), Taking(s), InPlace(name[r]), InPlace(name[s]),
             LiveAt(name[r], r), Len(name[r]) < Len(name[s]), Len(name[r]) \in Nat \ {0}, Len(name[s]) \in Nat
      PROVE  FALSE
  <2>1. SubSeq(name[s], 1, Len(name[r])) = name[r]
    BY <1>4, OneWay
  <2>2. Len(name[r]) \in 1..(Len(name[s]) - 1)
    BY <1>4
  <2>3. DeadAt(SubSeq(name[s], 1, Len(name[r])), name[s][Len(name[r]) + 1])
    BY <1>4, <2>2 DEF Walked, Walk
  <2> QED
    BY <1>4, <2>1, <2>3 DEF DeadAt, LiveAt, OneMarker
<1>5. Len(name[p]) = Len(name[q])
  BY <1>1, <1>2, <1>3, <1>4
<1>6. name[p] = name[q]
  <2>1. SubSeq(name[q], 1, Len(name[p])) = name[p]
    BY <1>1, <1>3, <1>5, OneWay
  <2>2. SubSeq(name[q], 1, Len(name[q])) = name[q]
    BY SubSeqFull DEF Shapes, Memory
  <2> QED
    BY <1>5, <2>1, <2>2
<1> QED
  BY <1>2, <1>6 DEF LiveAt, OneMarker

\* A process that puts a token on file replaces nothing, or a dead owner's claim.
LEMMA Replaces ==
  ASSUME KindWorld, TakeoverInv, NEW p \in Flushers, (Publish(p) /\ claimFile = Nil) \/ Rename(p)
  PROVE  /\ claimFile # Nil => claimFile.dead
         /\ \A q \in Flushers : ~Owner(q)
         /\ tok[p] \in Tokens /\ Pending(p)
         /\ ~IsNamed(tok[p]) /\ (claimFile # Nil => claimFile.tok # tok[p])
<1>1. Pending(p)
  BY DEF Publish, Rename, Pending
<1>2. Rename(p) => stage[p] = "rename" /\ Taking(p)
  BY DEF Rename, Taking
<1>3. claimFile # Nil => claimFile.dead
  BY <1>2 DEF TakeoverInv, Rechecked, Walked, Walk
<1>4. \A q \in Flushers : ~Owner(q)
  BY <1>3 DEF TakeoverInv, Owned
<1>5. tok[p] \in Tokens /\ ~IsNamed(tok[p]) /\ (claimFile # Nil => claimFile.tok # tok[p])
  BY <1>1 DEF TakeoverInv, Shapes, Memory, Remembered, NewTokens
<1> QED
  BY <1>1, <1>3, <1>4, <1>5

\* A process owns the claim from the step that puts its token on file to the one
\* that takes it away, and only that one moves it.
LEMMA OwnerStep ==
  ASSUME KindWorld, TakeoverInv, NEW p \in Flushers, Act(p), claimFile' = claimFile
  PROVE  /\ Owner(p)' => Owner(p)
         /\ Owner(p) => Owner(p)'
         /\ Owner(p)' /\ stage'[p] # "remove" => stage[p] # "remove" /\ tok'[p] = tok[p]
<1>0. Memory /\ Remembered
  BY DEF TakeoverInv, Shapes
<1>h. stage[p] = "holding" => TextOf(claimFile) = tok[p]
  <2>1. stage[p] = "holding" => claimFile # Nil /\ tok[p] = claimFile.tok
    BY DEF TakeoverInv, Owned, Owner
  <2>2. claimFile # Nil => TextOf(claimFile) = claimFile.tok
    BY TextOfWhole DEF TakeoverInv, Shapes, FilesHonest
  <2> QED
    BY <2>1, <2>2
<1>n. \A q \in Flushers : tok[q] # Nil => tok[q] \in Tokens
  BY <1>0 DEF Memory
<1> USE DEF Memory, Move, Busy, Forgotten, memory, Owner
<1>1. CASE Look(p)
  BY <1>0, <1>1 DEF Look
<1>2. CASE Publish(p)
  <2>1. claimFile # Nil
    <3>1. claimFile = Nil => claimFile' # Nil
      <4>1. tok[p] \in Tokens
        BY <1>0, <1>2 DEF Remembered, Pending, Publish
      <4>2. NewFile(p, TRUE) # Nil
        BY <4>1, NewFileHonest, HonestNotNull
      <4>3. (Busy(p) /\ claimFile # Nil) \/ claimFile' = NewFile(p, TRUE)
        BY <1>2 DEF Publish, KindWorld
      <4> QED
        BY <4>2, <4>3
    <3> QED
      BY <3>1
  <2> QED
    BY <1>0, <1>2, <2>1 DEF Publish
<1>3. CASE Refused(p)
  BY <1>0, <1>3 DEF Refused
<1>4. CASE Mark(p)
  BY <1>0, <1>4 DEF Mark, KindWorld
<1>5. CASE LookAtMarker(p)
  BY <1>0, <1>5 DEF LookAtMarker
<1>6. CASE Recheck(p)
  BY <1>0, <1>6 DEF Recheck
<1>7. CASE Rename(p)
  <2>1. claimFile # Nil => claimFile.tok # tok[p]
    BY <1>7, Replaces
  <2>2. NewFile(p, TRUE).tok = tok[p] /\ NewFile(p, TRUE) # Nil
    <3>1. tok[p] \in Tokens
      BY <1>7, Replaces
    <3> QED
      BY <3>1, NewFileHonest, HonestNotNull
  <2> QED
    BY <1>7, <2>1, <2>2 DEF Rename
<1>8. CASE RenameFails(p)
  BY <1>0, <1>8 DEF RenameFails
<1>9. CASE Clear(p)
  BY <1>0, <1>9 DEF Clear
<1>10. CASE Release(p)
  BY <1>0, <1>h, <1>10 DEF Release
<1>11. CASE Remove(p)
  <2>1. claimFile # Nil
    BY <1>11 DEF TakeoverInv, Owned, Remove
  <2> QED
    BY <1>11, <2>1 DEF Remove
<1>12. CASE Sweep(p)
  BY <1>0, <1>12 DEF Sweep, KindWorld, Remembered
<1>13. CASE ClaimerDies(p)
  <2>1. Owner(p) => FALSE
    <3>1. Owner(p) => claimFile # Nil /\ claimFile.by = p /\ ~claimFile.dead
      BY DEF TakeoverInv, Owned
    <3>2. claimFile # Nil => Honest(claimFile)
      BY DEF TakeoverInv, Shapes, FilesHonest
    <3> QED
      BY <1>13, <3>1, <3>2, OrphanHonest DEF ClaimerDies
  <2> QED
    BY <1>0, <1>13, <2>1 DEF ClaimerDies
<1> HIDE DEF Memory, Move, Busy, Forgotten, memory, Owner
<1> QED
  BY <1>1, <1>2, <1>3, <1>4, <1>5, <1>6, <1>7, <1>8, <1>9, <1>10, <1>11, <1>12, <1>13, StepsThereAre DEF TakeoverInv

\* What puts a token on file makes its process the owner, and what takes the claim
\* away is its owner's step.
LEMMA OwnerMoves ==
  ASSUME KindWorld, TakeoverInv, NEW p \in Flushers, Act(p), claimFile' # claimFile
  PROVE  \/ /\ Owner(p)' /\ stage'[p] # "remove" /\ tok'[p] = tok[p]
            /\ claimFile' = NewFile(p, TRUE) /\ ((Publish(p) /\ claimFile = Nil) \/ Rename(p))
         \/ stage[p] = "remove" /\ ~Owner(p)' /\ Remove(p) /\ claimFile' = Nil
         \/ stage'[p] = "idle" /\ ~Owner(p)' /\ ClaimerDies(p) /\ claimFile # Nil /\ claimFile' = Orphaned(claimFile, p)
<1>0. Memory /\ Shapes
  BY DEF TakeoverInv, Shapes
<1>1. CASE Publish(p) /\ claimFile = Nil /\ claimFile' = NewFile(p, TRUE)
  <2>1. NewFile(p, TRUE) # Nil
    BY <1>1, Replaces, NewFileHonest, HonestNotNull
  <2>2. Move(p, "holding") /\ UNCHANGED tok
    BY <1>1, <2>1 DEF Publish, KindWorld, memory
  <2> QED
    BY <1>0, <1>1, <2>2 DEF Memory, Move, Owner
<1>2. CASE Rename(p) /\ claimFile' = NewFile(p, TRUE)
  <2>1. Move(p, "clear") /\ UNCHANGED tok /\ tok[p] # Nil
    BY <1>0, <1>2 DEF Rename, Shapes, Remembered, Pending
  <2> QED
    BY <1>0, <1>2, <2>1 DEF Memory, Move, Owner
<1>3. CASE Remove(p) /\ claimFile' = Nil
  BY <1>0, <1>3 DEF Remove, Memory, Move, Owner
<1>4. CASE ClaimerDies(p) /\ claimFile # Nil /\ claimFile' = Orphaned(claimFile, p)
  BY <1>0, <1>4 DEF ClaimerDies, Memory, Busy, Forgotten, Move, Owner
<1> QED
  BY <1>0, <1>1, <1>2, <1>3, <1>4, FileSteps

\* The claim in force stays its owner's.
LEMMA OwnedStep ==
  ASSUME KindWorld, TakeoverInv, NEW p \in Flushers, Act(p)
  PROVE  Owned'
<1>0. Shapes /\ Owned /\ \A q \in Flushers \ {p} : (Owner(q)' <=> Owner(q)) /\ stage'[q] = stage[q] /\ tok'[q] = tok[q]
  BY OthersStand DEF TakeoverInv, Owner
<1>1. CASE claimFile' = claimFile
  <2>1. ASSUME NEW q \in Flushers, Owner(q)'
        PROVE  claimFile' # Nil /\ claimFile'.by = q /\ ~claimFile'.dead /\ (stage'[q] # "remove" => tok'[q] = claimFile'.tok)
    BY <1>0, <1>1, <2>1, OwnerStep DEF Owned
  <2>2. claimFile' # Nil /\ ~claimFile'.dead => Owner(claimFile.by)'
    <3>1. claimFile # Nil => claimFile.by \in Flushers
      BY <1>0, TextOfWhole DEF Shapes, FilesHonest
    <3>2. \A q \in Flushers : Owner(q) => Owner(q)'
      BY <1>0, <1>1, OwnerStep
    <3>3. claimFile # Nil /\ ~claimFile.dead => Owner(claimFile.by) /\ claimFile.by \in Flushers
      BY <1>0, <3>1 DEF Owned
    <3>4. PICK q : q = claimFile.by
      OBVIOUS
    <3>5. claimFile'.by = q
      BY <1>1, <3>4
    <3>6. claimFile' # Nil /\ ~claimFile'.dead => Owner(q)'
      BY <1>1, <3>2, <3>3, <3>4
    <3> QED
      BY <3>5, <3>6 DEF Owner
  <2> QED
    BY <2>1, <2>2 DEF Owned
<1>2. CASE /\ claimFile' # claimFile
           /\ Owner(p)' /\ stage'[p] # "remove" /\ tok'[p] = tok[p]
           /\ claimFile' = NewFile(p, TRUE) /\ ((Publish(p) /\ claimFile = Nil) \/ Rename(p))
  <2>1. (\A q \in Flushers : ~Owner(q)) /\ tok[p] \in Tokens
    BY <1>2, Replaces
  <2>2. claimFile' # Nil /\ claimFile'.by = p /\ ~claimFile'.dead /\ claimFile'.tok = tok[p]
    BY <1>2, <2>1, NewFileHonest, HonestNotNull
  <2>3. \A q \in Flushers : Owner(q)' => q = p
    BY <1>0, <2>1
  <2>4. Owner(claimFile.by)'
    BY <1>2, <2>2 DEF Owner
  <2> QED
    BY <1>2, <2>2, <2>3, <2>4 DEF Owned
<1>3. CASE claimFile' # claimFile /\ stage[p] = "remove" /\ ~Owner(p)' /\ Remove(p) /\ claimFile' = Nil
  <2>1. \A q \in Flushers : Owner(q) => q = p
    BY <1>0, <1>3 DEF Owned, Owner
  <2>2. \A q \in Flushers : ~Owner(q)'
    BY <1>0, <1>3, <2>1
  <2> QED
    BY <1>3, <2>2 DEF Owned
<1>4. CASE claimFile' # claimFile /\ ~Owner(p)' /\ ClaimerDies(p) /\ claimFile # Nil /\ claimFile' = Orphaned(claimFile, p)
  <2>1. Honest(claimFile)
    BY <1>0, <1>4 DEF Shapes, FilesHonest
  <2>2. claimFile.by = p /\ claimFile'.dead /\ claimFile'.by = p /\ claimFile' # Nil
    BY <1>4, <2>1, OrphanHonest, HonestNotNull
  <2>3. \A q \in Flushers : ~Owner(q)'
    BY <1>0, <1>4, <2>2 DEF Owned
  <2> QED
    BY <2>2, <2>3 DEF Owned
<1> QED
  BY <1>1, <1>2, <1>3, <1>4, OwnerMoves

\* The dead markers and another's live one stand unless somebody clears.
LEMMA MarkersStand ==
  ASSUME KindWorld, Shapes, NEW p \in Flushers, Act(p), ~(Clear(p) /\ stage'[p] = "clear")
  PROVE  /\ \A n, t : DeadAt(n, t) => DeadAt(n, t)'
         /\ \A n : \A q \in Flushers \ {p} : LiveAt(n, q) => LiveAt(n, q)'
         /\ ~ClaimerDies(p) => \A n : LiveAt(n, p) => LiveAt(n, p)'
<1>1. CASE markers \subseteq markers'
  BY <1>1 DEF DeadAt, LiveAt
<1>2. CASE ClaimerDies(p) /\ markers' = {[m EXCEPT !.file = Orphaned(m.file, p)] : m \in markers}
  <2>1. \A m \in markers : [name |-> m.name, file |-> Orphaned(m.file, p)] \in markers' /\ Honest(m.file)
    BY <1>2, Orphans DEF Shapes, FilesHonest
  <2>2. ASSUME NEW n, NEW t, DeadAt(n, t) PROVE DeadAt(n, t)'
    <3>1. PICK m \in markers : m.name = n /\ m.file.dead /\ m.file.tok = t
      BY <2>2 DEF DeadAt
    <3>2. Orphaned(m.file, p).dead /\ Orphaned(m.file, p).tok = t
      BY <2>1, <3>1, OrphanHonest
    <3>3. PICK k \in markers' : k = [name |-> m.name, file |-> Orphaned(m.file, p)]
      BY <2>1
    <3> QED
      BY <3>1, <3>2, <3>3 DEF DeadAt
  <2>3. ASSUME NEW n, NEW q \in Flushers \ {p}, LiveAt(n, q) PROVE LiveAt(n, q)'
    <3>1. PICK m \in markers : m.name = n /\ m.file.by = q /\ ~m.file.dead
      BY <2>3 DEF LiveAt
    <3>2. Orphaned(m.file, p) = m.file
      BY <2>1, <3>1, OrphanHonest
    <3>3. PICK k \in markers' : k = [name |-> m.name, file |-> Orphaned(m.file, p)]
      BY <2>1
    <3> QED
      BY <3>1, <3>2, <3>3 DEF LiveAt
  <2> QED
    BY <1>2, <2>2, <2>3
<1> QED
  BY <1>1, <1>2, MarkerSteps

\* A name that is in place after a step, of another claim than p's new one, was in
\* place before, and stays behind the same file.
LEMMA StaysInPlace ==
  ASSUME KindWorld, TakeoverInv, NEW p \in Flushers, Act(p), NEW n, InPlace(n)', IsNamed(n[1])
  PROVE  InPlace(n) /\ (claimFile.dead => claimFile'.dead) /\ claimFile' # Nil
<1>1. CASE claimFile' = claimFile
  BY <1>1 DEF InPlace
<1>2. CASE claimFile' = NewFile(p, TRUE) /\ ((Publish(p) /\ claimFile = Nil) \/ Rename(p))
  <2>1. tok[p] \in Tokens /\ ~IsNamed(tok[p])
    BY <1>2, Replaces
  <2>2. claimFile'.tok = tok[p]
    BY <1>2, <2>1, NewFileHonest
  <2> QED
    BY <2>1, <2>2 DEF InPlace
<1>3. CASE claimFile' = Nil
  BY <1>3 DEF InPlace
<1>4. CASE claimFile # Nil /\ claimFile' = Orphaned(claimFile, p)
  <2>1. Honest(claimFile)
    BY <1>4 DEF TakeoverInv, Shapes, FilesHonest
  <2> QED
    BY <1>4, <2>1, OrphanHonest DEF InPlace
<1> QED
  BY <1>1, <1>2, <1>3, <1>4, FileSteps DEF TakeoverInv

\* What p clears is no marker on the way of another process after the claim in
\* place, nor the one that process has put down itself.
LEMMA ClearSpares ==
  ASSUME KindWorld, TakeoverInv, NEW p \in Flushers, Act(p), NEW n, InPlace(n)
  PROVE  /\ \A t : DeadAt(n, t) => DeadAt(n, t)'
         /\ \A q \in Flushers \ {p} : LiveAt(n, q) => LiveAt(n, q)'
<1>1. CASE ~(Clear(p) /\ stage'[p] = "clear")
  BY <1>1, MarkersStand DEF TakeoverInv
<1>2. CASE Clear(p) /\ stage'[p] = "clear"
  <2>1. CASE markers' = markers
    BY <2>1 DEF DeadAt, LiveAt
  <2>2. CASE \E k \in list[p] : markers' = markers \ MarkersAt(k)
    <3>1. PICK k \in list[p] : markers' = markers \ MarkersAt(k)
      BY <2>2
    <3>2. CASE k # n
      BY <3>1, <3>2 DEF DeadAt, LiveAt, MarkersAt
    <3>3. CASE k = n
      <4>1. LiveAt(n, p)
        BY <3>3 DEF TakeoverInv, ClearsOwn
      <4> QED
        BY <4>1 DEF DeadAt, LiveAt, TakeoverInv, OneMarker
    <3> QED
      BY <3>2, <3>3
  <2>3. ~Mark(p) /\ ~ClaimerDies(p)
    <3>1. stage \in [Flushers -> Steps]
      BY DEF TakeoverInv, Shapes, Memory
    <3> QED
      BY <1>2, <3>1 DEF Mark, ClaimerDies, Clear, Busy, Forgotten, Move
  <2> QED
    BY <2>1, <2>2, <2>3, MarkerSteps DEF TakeoverInv
<1> QED
  BY <1>1, <1>2

\* The names on the way are in place when the name is.
LEMMA WayInPlace ==
  ASSUME NEW n \in Chains, NEW i \in 1..(Len(n) - 1), InPlace(n)
  PROVE  InPlace(SubSeq(n, 1, i))
<1>1. i \in 1..Len(n)
  BY LenProperties DEF Chains
<1> QED
  BY <1>1, PrefixNames DEF InPlace

\* The way of a process that does not move stands.
LEMMA OthersWalkStands ==
  ASSUME KindWorld, TakeoverInv, NEW p \in Flushers, Act(p), NEW q \in Flushers \ {p},
         Taking(q)', InPlace(name[q])'
  PROVE  Walk(q)'
<1>1. stage'[q] = stage[q] /\ name'[q] = name[q]
  BY OthersStand DEF TakeoverInv
<1>2. PICK n : n = name[q]
  OBVIOUS
<1>3. Taking(q) /\ InPlace(n)' /\ IsNamed(n[1])
  BY <1>1, <1>2 DEF Taking, InPlace, IsNamed
<1>4. InPlace(n) /\ (claimFile.dead => claimFile'.dead)
  BY <1>3, StaysInPlace
<1>5. claimFile.dead /\ (\A i \in 1..(Len(n) - 1) : DeadAt(SubSeq(n, 1, i), n[i + 1])) /\ (Marked(q) => LiveAt(n, q))
  BY <1>2, <1>3, <1>4 DEF TakeoverInv, Walked, Walk
<1>6. n \in Chains
  BY <1>2, <1>3 DEF TakeoverInv, Shapes, Memory, Remembered, Chains
<1>7. ASSUME NEW i \in 1..(Len(n) - 1) PROVE DeadAt(SubSeq(n, 1, i), n[i + 1])'
  <2>1. InPlace(SubSeq(n, 1, i)) /\ DeadAt(SubSeq(n, 1, i), n[i + 1])
    BY <1>4, <1>5, <1>6, WayInPlace
  <2> QED
    BY <2>1, ClearSpares
<1>8. Marked(q)' => LiveAt(n, q)'
  BY <1>1, <1>4, <1>5, ClearSpares DEF Marked
<1> QED
  BY <1>1, <1>2, <1>4, <1>5, <1>7, <1>8 DEF Walk

\* A process that starts a takeover has a dead claim before it, and one that goes
\* on walks past dead markers and puts down its own.
LEMMA OwnWalk ==
  ASSUME KindWorld, TakeoverInv, NEW p \in Flushers, Act(p), Taking(p)', InPlace(name[p])'
  PROVE  Walk(p)'
<1>0. Memory /\ Shapes
  BY DEF TakeoverInv, Shapes
<1>1. CASE Look(p) /\ claimFile # Nil /\ name'[p] = <<claimFile.tok>> /\ stage'[p] = "mark"
  <2>1. claimFile' = claimFile /\ claimFile.lapsed
    BY <1>0, <1>1 DEF Look, Memory, Move
  <2>2. claimFile.dead
    BY <1>0, <1>1, <2>1 DEF Shapes, FilesHonest, Honest
  <2>3. \A x : Len(<<x>>) = 1
    OBVIOUS
  <2>4. Len(name'[p]) = 1
    BY <1>1, <2>3
  <2>5. 1..(Len(name'[p]) - 1) = {}
    BY <2>4
  <2> QED
    BY <1>1, <2>1, <2>2, <2>5 DEF Walk, Marked
<1>2. CASE Taking(p) /\ name'[p][1] = name[p][1]
  <2>0. stage' \in [Flushers -> Steps]
    BY <1>0, MemoryStep DEF Memory
  <2>1. Mark(p) \/ (LookAtMarker(p) /\ ~Busy(p)) \/ (Recheck(p) /\ Move(p, "rename") /\ UNCHANGED memory)
    <3> USE DEF Memory, Move, Busy, Forgotten, Taking
    <3>1. ~Look(p) /\ ~Publish(p) /\ ~Clear(p) /\ ~Release(p) /\ ~Remove(p) /\ ~Sweep(p)
      BY <1>2 DEF Look, Publish, Clear, Release, Remove, Sweep
    <3>2. ~Refused(p) /\ ~Rename(p) /\ ~RenameFails(p) /\ ~ClaimerDies(p) /\ ~Busy(p)
      BY <1>0 DEF Refused, Rename, RenameFails, ClaimerDies
    <3>3. Recheck(p) => Move(p, "rename") /\ UNCHANGED memory
      BY <1>0 DEF Recheck
    <3> HIDE DEF Memory, Move, Busy, Forgotten, Taking
    <3> QED
      BY <1>0, <3>1, <3>2, <3>3, StepsThereAre
  <2>2. claimFile' = claimFile
    BY <2>1 DEF Mark, LookAtMarker, Recheck
  <2>3. InPlace(name[p]) /\ Walk(p)
    <3>1. InPlace(name[p])
      BY <1>2, <2>2 DEF InPlace
    <3> QED
      BY <1>2, <3>1 DEF TakeoverInv, Walked
  <2>4. ~(Clear(p) /\ stage'[p] = "clear") /\ ~ClaimerDies(p)
    BY <1>0, <1>2 DEF Clear, ClaimerDies, Taking, Busy, Forgotten, Move, Memory
  <2>5. /\ \A n, t : DeadAt(n, t) => DeadAt(n, t)'
        /\ \A n : LiveAt(n, p) => LiveAt(n, p)'
    BY <1>0, <2>4, MarkersStand
  <2>6. CASE Mark(p) \/ (Recheck(p) /\ Move(p, "rename") /\ UNCHANGED memory)
    <3>1. name' = name
      BY <2>6 DEF Mark, memory
    <3>2. Marked(p)' => LiveAt(name[p], p)'
      <4>1. CASE stage[p] = "recheck"
        <5>1. PICK n : n = name[p] /\ n = name'[p]
          BY <3>1
        <5>2. LiveAt(n, p)'
          BY <2>3, <2>5, <4>1, <5>1 DEF Walk, Marked
        <5> QED
          BY <5>1, <5>2 DEF LiveAt
      <4>2. CASE stage[p] # "recheck"
        <5>1. Mark(p)
          BY <2>6, <4>2 DEF Recheck
        <5>2. Marked(p)' => markers' = markers \union {[name |-> name[p], file |-> NewFile(p, TRUE)]}
          BY <1>0, <5>1 DEF Mark, KindWorld, Memory, Move, Marked
        <5>3. tok[p] \in Tokens
          BY <1>0, <1>2 DEF Shapes, Remembered, Memory, Pending, Taking
        <5>4. ~NewFile(p, TRUE).dead /\ NewFile(p, TRUE).by = p
          BY <5>3, NewFileHonest
        <5>5. ASSUME Marked(p)' PROVE LiveAt(name[p], p)'
          <6>1. PICK m \in markers' : m = [name |-> name[p], file |-> NewFile(p, TRUE)]
            BY <5>2, <5>5
          <6>2. m.name = name[p] /\ m.file.by = p /\ ~m.file.dead
            BY <5>4, <6>1
          <6> QED
            BY <3>1, <6>2 DEF LiveAt
        <5> QED
          BY <5>5
      <4> QED
        BY <4>1, <4>2
    <3>3. \A i \in 1..(Len(name[p]) - 1) : DeadAt(SubSeq(name[p], 1, i), name[p][i + 1])'
      BY <2>3, <2>5, <3>1 DEF Walk
    <3> QED
      BY <2>2, <2>3, <3>1, <3>2, <3>3 DEF Walk
  <2>7. CASE LookAtMarker(p) /\ ~Busy(p)
    <3>1. PICK m \in markers : /\ m.name = name[p] /\ m.file.lapsed
                               /\ name' = [name EXCEPT ![p] = Append(@, TextOf(m.file))]
                               /\ Move(p, "mark")
      BY <2>7 DEF LookAtMarker, MarkersAt
    <3>2. m.file.dead /\ TextOf(m.file) = m.file.tok /\ m.file.tok \in Tokens
      <4>1. Honest(m.file)
        BY <1>0 DEF Shapes, FilesHonest
      <4> QED
        BY <3>1, <4>1, HonestNotNull, TextOfWhole DEF Honest
    <3>3. PICK n, t : n = name[p] /\ t = m.file.tok
      OBVIOUS
    <3>4. n \in Chains /\ t \in Tokens
      BY <1>0, <1>2, <3>2, <3>3 DEF Shapes, Memory, Remembered, Chains
    <3>5. name'[p] = Append(n, t) /\ ~Marked(p)'
      BY <1>0, <3>1, <3>2, <3>3 DEF Memory, Move, Marked
    <3>6. ASSUME NEW i \in 1..(Len(Append(n, t)) - 1)
          PROVE  DeadAt(SubSeq(Append(n, t), 1, i), Append(n, t)[i + 1])'
      <4>0. Len(n) \in Nat \ {0} /\ Len(Append(n, t)) = Len(n) + 1
        BY <3>4, LongerName, LenProperties, EmptySeq DEF Chains
      <4>1. CASE i = Len(n)
        <5>1. SubSeq(Append(n, t), 1, i) = n /\ Append(n, t)[i + 1] = t
          BY <3>4, <4>1, LongerName
        <5>2. DeadAt(n, t)
          BY <3>1, <3>2, <3>3 DEF DeadAt
        <5> QED
          BY <2>5, <5>1, <5>2
      <4>2. CASE i # Len(n)
        <5>1. i \in 1..Len(n) /\ i + 1 \in 1..Len(n) /\ i \in 1..(Len(n) - 1)
          BY <4>0, <4>2
        <5>2. SubSeq(Append(n, t), 1, i) = SubSeq(n, 1, i) /\ Append(n, t)[i + 1] = n[i + 1]
          BY <3>4, <5>1, LongerName
        <5>3. DeadAt(SubSeq(n, 1, i), n[i + 1])
          BY <2>3, <3>3, <5>1 DEF Walk
        <5> QED
          BY <2>5, <5>2, <5>3
      <4> QED
        BY <4>1, <4>2
    <3> QED
      BY <2>2, <2>3, <3>5, <3>6 DEF Walk
  <2> QED
    BY <2>1, <2>6, <2>7
<1> QED
  BY <1>0, <1>1, <1>2, Pursuit

\* Both together: whoever is after the claim in place has the way behind it.
LEMMA WalkedStep ==
  ASSUME KindWorld, TakeoverInv, NEW p \in Flushers, Act(p)
  PROVE  Walked'
BY OthersWalkStands, OwnWalk DEF Walked

\* A stale claim that was found in place again is in place until the rename: it is
\* its taker's alone by then.
LEMMA RecheckedStep ==
  ASSUME KindWorld, TakeoverInv, NEW p \in Flushers, Act(p)
  PROVE  Rechecked'
<1>0. Memory /\ Shapes
  BY DEF TakeoverInv, Shapes
<1>1. ASSUME stage'[p] = "rename" PROVE InPlace(name[p])'
  <2> USE DEF Memory, Move, Busy, Forgotten, memory
  <2>1. Recheck(p)
    <3>1. ~Look(p) /\ ~Publish(p) /\ ~Clear(p) /\ ~Release(p) /\ ~Remove(p) /\ ~Sweep(p)
      BY <1>0, <1>1 DEF Look, Publish, Clear, Release, Remove, Sweep, KindWorld
    <3>2. ~Refused(p) /\ ~Mark(p) /\ ~LookAtMarker(p) /\ ~Rename(p) /\ ~RenameFails(p) /\ ~ClaimerDies(p)
      BY <1>0, <1>1 DEF Refused, Mark, LookAtMarker, Rename, RenameFails, ClaimerDies, KindWorld
    <3> HIDE DEF Memory, Move, Busy, Forgotten, memory
    <3> QED
      BY <1>0, <3>1, <3>2, StepsThereAre
  <2>2. TextOf(claimFile) = name[p][1] /\ name' = name /\ claimFile' = claimFile /\ stage[p] = "recheck"
    BY <1>0, <1>1, <2>1 DEF Recheck
  <2>3. name[p] \in Chains
    BY <1>0, <2>2 DEF Shapes, Remembered, Taking, Chains
  <2>4. name[p][1] \in Tokens
    <3>1. 1 \in 1..Len(name[p]) /\ name[p] \in Seq(Tokens)
      BY <2>3, LenProperties, EmptySeq DEF Chains
    <3> QED
      BY <3>1, ElementOfSeq
  <2>5. claimFile # Nil /\ TextOf(claimFile) = claimFile.tok
    BY <1>0, <2>2, <2>4, TextOfWhole, TokenNotNull DEF Shapes, FilesHonest
  <2> QED
    BY <2>2, <2>5 DEF InPlace
<1>2. ASSUME NEW q \in Flushers \ {p}, stage'[q] = "rename" PROVE InPlace(name[q])'
  <2>1. stage[q] = "rename" /\ name'[q] = name[q]
    BY <1>0, <1>2, OthersStand
  <2>2. InPlace(name[q]) /\ claimFile # Nil /\ claimFile.dead /\ Marked(q)
    BY <2>1 DEF TakeoverInv, Rechecked, Walked, Walk, Taking, Marked, InPlace
  <2>3. ~Rename(p)
    <3>1. Rename(p) => stage[p] = "rename" /\ Marked(p) /\ InPlace(name[p])
      BY DEF Rename, Marked, TakeoverInv, Rechecked
    <3> QED
      BY <2>2, <3>1, AloneUnderMarker DEF TakeoverInv
  <2>4. ~Remove(p)
    BY <2>2 DEF Remove, TakeoverInv, Owned, Owner
  <2>5. claimFile' # Nil /\ claimFile'.tok = claimFile.tok
    <3>1. claimFile' = claimFile \/ claimFile' = Orphaned(claimFile, p)
      BY <1>0, <2>2, <2>3, <2>4, FileSteps
    <3>2. Honest(claimFile)
      BY <1>0, <2>2 DEF Shapes, FilesHonest
    <3> QED
      BY <2>2, <3>1, <3>2, OrphanHonest, HonestNotNull
  <2> QED
    BY <2>1, <2>2, <2>5 DEF InPlace
<1> QED
  BY <1>1, <1>2 DEF Rechecked

\* A process clears no marker on another's way.
LEMMA ClearsOwnStep ==
  ASSUME KindWorld, TakeoverInv, NEW p \in Flushers, Act(p)
  PROVE  ClearsOwn'
<1>0. Memory /\ Shapes /\ Memory'
  BY MemoryStep DEF TakeoverInv, Shapes
<1>1. ASSUME NEW q \in Flushers \ {p}, NEW n \in list'[q], InPlace(n)' PROVE LiveAt(n, q)'
  <2>1. n \in list[q]
    BY <1>0, <1>1, OthersStand
  <2>2. InPlace(n)
    BY <1>1, <2>1, StaysInPlace DEF IsNamed
  <2> QED
    BY <2>1, <2>2, ClearSpares DEF TakeoverInv, ClearsOwn
<1>2. ASSUME NEW n \in list'[p], InPlace(n)' PROVE LiveAt(n, p)'
  <2>1. CASE n \in list[p]
    <3>1. stage[p] = "clear" /\ InPlace(n) /\ LiveAt(n, p)
      <4>1. stage[p] = "clear"
        BY <1>0, <2>1 DEF Shapes, Remembered
      <4>2. InPlace(n)
        BY <1>2, <2>1, StaysInPlace DEF IsNamed
      <4> QED
        BY <2>1, <4>1, <4>2 DEF TakeoverInv, ClearsOwn
    <3>2. ~ClaimerDies(p) /\ ~Mark(p)
      BY <1>0, <1>2, <3>1 DEF ClaimerDies, Mark, Busy, Forgotten, Memory
    <3>3. CASE markers' = markers
      BY <3>1, <3>3 DEF LiveAt
    <3>4. CASE \E k \in list[p] : markers' = markers \ MarkersAt(k) /\ list'[p] = list[p] \ {k}
      BY <1>2, <3>1, <3>4 DEF LiveAt, MarkersAt
    <3> QED
      BY <1>0, <3>2, <3>3, <3>4, MarkerSteps
  <2>2. CASE n \notin list[p] /\ Taking(p) /\ n[1] = name[p][1]
    <3>1. InPlace(n) /\ IsNamed(n[1])
      BY <1>2, <2>2, StaysInPlace DEF IsNamed
    <3>2. InPlace(name[p])
      BY <2>2, <3>1 DEF InPlace
    <3>3. stage'[p] = "clear"
      BY <1>0, <1>2, RememberedStep DEF Remembered
    <3>4. RenameFails(p)
      <4> USE DEF Memory, Move, Busy, Forgotten, memory, Taking
      <4>1. ~Look(p) /\ ~Publish(p) /\ ~Clear(p) /\ ~Release(p) /\ ~Remove(p) /\ ~Sweep(p)
        BY <2>2 DEF Look, Publish, Clear, Release, Remove, Sweep
      <4>2. ~Refused(p) /\ ~Mark(p) /\ ~LookAtMarker(p) /\ ~ClaimerDies(p)
        BY <1>0, <3>3 DEF Refused, Mark, LookAtMarker, ClaimerDies, KindWorld
      <4>3. ~Recheck(p)
        <5>1. TextOf(claimFile) = claimFile.tok /\ claimFile # Nil
          BY <1>0, <3>1, TextOfWhole DEF Shapes, FilesHonest, InPlace
        <5>2. TextOf(claimFile) = name[p][1]
          BY <3>2, <5>1 DEF InPlace
        <5> QED
          BY <1>0, <3>3, <5>2 DEF Recheck
      <4>4. ~Rename(p)
        <5>1. Rename(p) => tok[p] \in Tokens /\ ~IsNamed(tok[p]) /\ claimFile' = NewFile(p, TRUE)
          BY Replaces DEF Rename
        <5>2. Rename(p) => claimFile'.tok = tok[p]
          BY <5>1, NewFileHonest
        <5> QED
          BY <1>2, <3>1, <5>1, <5>2 DEF InPlace
      <4> HIDE DEF Memory, Move, Busy, Forgotten, memory, Taking
      <4> QED
        BY <1>0, <4>1, <4>2, <4>3, <4>4, StepsThereAre
    <3>5. n = name[p] /\ markers' = markers
      BY <1>0, <1>2, <3>4 DEF RenameFails, Memory
    <3>6. LiveAt(n, p)
      BY <3>2, <3>4, <3>5 DEF RenameFails, TakeoverInv, Walked, Walk, Taking, Marked
    <3> QED
      BY <3>5, <3>6 DEF LiveAt
  <2>3. CASE Sweep(p) /\ n \in Swept(TextOf(claimFile))
    <3>1. claimFile' = claimFile
      BY <2>3 DEF Sweep
    <3>2. claimFile # Nil /\ n[1] = claimFile.tok /\ TextOf(claimFile) = claimFile.tok
      BY <1>0, <1>2, <3>1, TextOfWhole DEF InPlace, Shapes, FilesHonest
    <3> QED
      BY <2>3, <3>2 DEF Swept, Guarding
  <2> QED
    BY <1>0, <1>2, <2>1, <2>2, <2>3, Pursuit
<1> QED
  BY <1>1, <1>2 DEF ClearsOwn

\* Before the first attempt there is no claim, no marker and no memory.
LEMMA TakeoverStarts == ClaimInit => TakeoverInv
<1> SUFFICES ASSUME ClaimInit PROVE TakeoverInv
  OBVIOUS
<1> USE DEF ClaimInit
<1>1. Shapes
  <2>1. <<>> \in Seq(Tokens) /\ {} \in SUBSET Chains
    BY EmptySeq
  <2>2. Memory
    BY <2>1 DEF Memory, Steps
  <2>3. FilesHonest
    BY DEF FilesHonest
  <2>4. Remembered
    BY DEF Remembered, Taking, Pending
  <2> QED
    BY <2>2, <2>3, <2>4 DEF Shapes
<1>2. OneMarker /\ Owned
  BY DEF OneMarker, Owned, Owner
<1>3. NewTokens /\ Walked /\ Rechecked /\ ClearsOwn
  BY DEF NewTokens, Walked, Rechecked, ClearsOwn, Pending, Taking
<1> QED
  BY <1>1, <1>2, <1>3 DEF TakeoverInv

\* Every step keeps the invariant.
LEMMA TakeoverStep ==
  ASSUME KindWorld, TakeoverInv, [ClaimNext]_claimVars
  PROVE  TakeoverInv'
<1>1. ASSUME NEW p \in Flushers, Act(p) PROVE TakeoverInv'
  <2>1. Shapes'
    BY <1>1, MemoryStep, FilesStep, RememberedStep DEF TakeoverInv, Shapes
  <2>2. OneMarker' /\ NewTokens'
    BY <1>1, OneMarkerStep, NewTokensStep DEF TakeoverInv
  <2>3. Owned' /\ Walked' /\ Rechecked' /\ ClearsOwn'
    BY <1>1, OwnedStep, WalkedStep, RecheckedStep, ClearsOwnStep
  <2> QED
    BY <2>1, <2>2, <2>3 DEF TakeoverInv
<1>2. CASE UNCHANGED claimVars
  BY <1>2 DEF claimVars, TakeoverInv, Shapes, Memory, FilesHonest, Remembered, OneMarker, Owned, NewTokens,
     Walked, Walk, Rechecked, ClearsOwn, DeadAt, LiveAt, InPlace, IsNamed, Pending, Taking, Marked, Owner
<1>3. ~Lapse
  BY NothingLapses DEF TakeoverInv
<1> QED
  BY <1>1, <1>2, <1>3 DEF ClaimNext, Act

\* The invariant of the takeover holds for any number of processes, dead markers
\* and deaths.
THEOREM TakeoverInvariant ==
  ASSUME KindWorld
  PROVE  ClaimSpec => []TakeoverInv
<1>1. TakeoverInv /\ [ClaimNext]_claimVars => TakeoverInv'
  BY TakeoverStep
<1> QED
  BY <1>1, TakeoverStarts, PTL DEF ClaimSpec

----------------------------------------------------------------------------
(* Part 2: what the claim promises. *)

\* Decision C3: two writers never hold the claim at once, whatever dies on the way.
THEOREM OneClaimantAtATime ==
  ASSUME KindWorld
  PROVE  ClaimSpec => []OneClaimant
<1>1. TakeoverInv => OneClaimant
  BY DEF TakeoverInv, Owned, Owner, OneClaimant
<1> QED
  BY <1>1, TakeoverInvariant, PTL

\* A claim in force is never replaced, and only its owner removes it.
THEOREM LiveClaimsStand ==
  ASSUME KindWorld
  PROVE  ClaimSpec => LiveClaimStands
<1> DEFINE Stands == claimFile # Nil /\ ~claimFile.lapsed /\ (claimFile' = Nil \/ claimFile'.tok # claimFile.tok)
                       => Remove(claimFile.by)
<1>1. TakeoverInv /\ [ClaimNext]_claimVars => [Stands]_claimVars
  <2> SUFFICES ASSUME KindWorld, TakeoverInv, ClaimNext, claimFile # Nil, ~claimFile.lapsed,
                      claimFile' = Nil \/ claimFile'.tok # claimFile.tok
               PROVE  Remove(claimFile.by)
    BY DEF KindWorld
  <2>1. Honest(claimFile) /\ ~claimFile.dead
    BY DEF TakeoverInv, Shapes, FilesHonest, Honest
  <2>2. PICK p \in Flushers : Act(p)
    BY NothingLapses DEF ClaimNext, Act, TakeoverInv
  <2>3. claimFile' # claimFile
    BY DEF TakeoverInv
  <2>4. ~(Publish(p) /\ claimFile = Nil) /\ ~Rename(p)
    BY <2>1, Replaces
  <2>5. ~(claimFile' = Orphaned(claimFile, p))
    BY <2>1, OrphanHonest, HonestNotNull
  <2>6. Remove(p) /\ stage[p] = "remove"
    BY <2>2, <2>3, <2>4, <2>5, OwnerMoves
  <2>7. claimFile.by = p
    BY <2>6 DEF TakeoverInv, Owned, Owner
  <2> QED
    BY <2>6, <2>7
<1> QED
  BY <1>1, TakeoverInvariant, PTL DEF ClaimSpec, LiveClaimStands

\* What a step of p does to the stages: only p moves, never from inside back to
\* waiting, and never straight from outside to inside.
StageMove(p) ==
  /\ \A q \in Flushers \ {p} : StageOf(q)' = StageOf(q)
  /\ StageOf(p)' = "in" => StageOf(p) \in {"in", "waiting"}
  /\ StageOf(p)' = "waiting" => StageOf(p) \in {"out", "waiting"}

\* Every step of the claim moves so.
LEMMA StageSteps ==
  ASSUME KindWorld, Shapes, NEW p \in Flushers, Act(p)
  PROVE  StageMove(p)
<1>0. Memory /\ Remembered /\ Memory' /\ Remembered'
  BY MemoryStep, RememberedStep DEF Shapes
<1>1. \A q \in Flushers \ {p} : StageOf(q)' = StageOf(q)
  BY OthersStand DEF StageOf
<1>2. StageOf(p)' = "in" => StageOf(p) \in {"in", "waiting"}
  <2> SUFFICES ASSUME stage'[p] = "holding" PROVE stage[p] = "holding" \/ tok[p] # Nil
    BY DEF StageOf
  <2> USE DEF Memory, Move, Busy, Forgotten, memory
  <2>1. ~Look(p) /\ ~Release(p) /\ ~Remove(p) /\ ~Sweep(p)
    BY <1>0 DEF Look, Release, Remove, Sweep, KindWorld
  <2>2. ~Refused(p) /\ ~Mark(p) /\ ~LookAtMarker(p) /\ ~ClaimerDies(p)
    BY <1>0 DEF Refused, Mark, LookAtMarker, ClaimerDies, KindWorld
  <2>3. ~Recheck(p) /\ ~Rename(p) /\ ~RenameFails(p)
    BY <1>0 DEF Recheck, Rename, RenameFails
  <2>4. Publish(p) => tok[p] # Nil
    BY <1>0 DEF Publish, Remembered, Pending
  <2>5. Clear(p) => tok[p] # Nil
    BY <1>0 DEF Clear
  <2> HIDE DEF Memory, Move, Busy, Forgotten, memory
  <2> QED
    BY <2>1, <2>2, <2>3, <2>4, <2>5, StepsThereAre
<1>3. StageOf(p)' = "waiting" => StageOf(p) \in {"out", "waiting"}
  <2> SUFFICES ASSUME stage[p] = "holding", stage'[p] # "holding" PROVE tok'[p] = Nil
    BY DEF StageOf
  <2> USE DEF Memory, Move, Busy, Forgotten, memory
  <2>1. ~Look(p) /\ ~Publish(p) /\ ~Refused(p) /\ ~Mark(p) /\ ~LookAtMarker(p) /\ ~Recheck(p)
    BY DEF Look, Publish, Refused, Mark, LookAtMarker, Recheck
  <2>2. ~Rename(p) /\ ~RenameFails(p) /\ ~Clear(p) /\ ~Remove(p) /\ ~Sweep(p)
    BY DEF Rename, RenameFails, Clear, Remove, Sweep
  <2>3. Release(p) \/ ClaimerDies(p) => tok'[p] = Nil
    BY <1>0 DEF Release, ClaimerDies
  <2> HIDE DEF Memory, Move, Busy, Forgotten, memory
  <2> QED
    BY <2>1, <2>2, <2>3, StepsThereAre
<1> QED
  BY <1>1, <1>2, <1>3 DEF StageMove

\* A step that moves the stages so is a step of StoreMutex, or a stutter.
LEMMA StageNext ==
  ASSUME TakeoverInv', NEW p \in Flushers, StageMove(p)
  PROVE  [Abs!AbsNext]_(Abs!AbsVars)
<1> DEFINE stg == [q \in Flushers |-> StageOf(q)]
<1>1. \A q \in Flushers : stg[q] = StageOf(q) /\ stg'[q] = StageOf(q)'
  OBVIOUS
<1>2. stg' = [stg EXCEPT ![p] = StageOf(p)']
  BY DEF StageMove
<1>3. CASE StageOf(p)' = StageOf(p)
  BY <1>2, <1>3 DEF Abs!AbsVars, StageMove
<1>4. CASE StageOf(p)' = "waiting" /\ StageOf(p) = "out"
  BY <1>1, <1>2, <1>4 DEF Abs!AbsNext, Abs!Ask
<1>5. CASE StageOf(p)' = "in" /\ StageOf(p) = "waiting"
  <2>1. \A q \in Flushers : StageOf(q) # "in"
    <3> SUFFICES ASSUME NEW q \in Flushers, StageOf(q) = "in" PROVE FALSE
      OBVIOUS
    <3>1. q # p /\ StageOf(q)' = "in"
      BY <1>5 DEF StageMove
    <3>2. stage'[q] = "holding" /\ stage'[p] = "holding"
      BY <1>5, <3>1 DEF StageOf
    <3> QED
      BY <3>1, <3>2 DEF TakeoverInv, Owned, Owner
  <2> QED
    BY <1>1, <1>2, <1>5, <2>1 DEF Abs!AbsNext, Abs!Enter
<1>6. CASE StageOf(p)' = "out" /\ StageOf(p) # "out"
  BY <1>1, <1>2, <1>6 DEF Abs!AbsNext, Abs!Exit
<1>7. StageOf(p) \in {"out", "waiting", "in"} /\ StageOf(p)' \in {"out", "waiting", "in"}
  BY DEF StageOf
<1> QED
  BY <1>3, <1>4, <1>5, <1>6, <1>7 DEF StageMove

\* The claim implements the mutex a flush relies on: attempts, claims one at a
\* time, and releases, refusals and deaths.
THEOREM ClaimImplementsMutex ==
  ASSUME KindWorld
  PROVE  ClaimSpec => ImplementsMutex
<1>1. ClaimInit => Abs!AbsInit
  BY DEF ClaimInit, Abs!AbsInit, StageOf
<1>2. TakeoverInv /\ TakeoverInv' /\ [ClaimNext]_claimVars => [Abs!AbsNext]_(Abs!AbsVars)
  <2> SUFFICES ASSUME KindWorld, TakeoverInv, TakeoverInv', [ClaimNext]_claimVars
               PROVE  [Abs!AbsNext]_(Abs!AbsVars)
    BY DEF KindWorld
  <2>1. ASSUME NEW p \in Flushers, Act(p) PROVE [Abs!AbsNext]_(Abs!AbsVars)
    BY <2>1, StageSteps, StageNext DEF TakeoverInv
  <2>2. CASE UNCHANGED claimVars
    BY <2>2 DEF Abs!AbsVars, StageOf, claimVars
  <2> QED
    BY <2>1, <2>2, NothingLapses DEF ClaimNext, Act, TakeoverInv
<1> QED
  BY <1>1, <1>2, TakeoverInvariant, PTL DEF ClaimSpec, ImplementsMutex, Abs!AbsSpec
=============================================================================
