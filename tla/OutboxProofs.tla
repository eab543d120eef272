---------------------------- MODULE OutboxProofs ----------------------------
(***************************************************************************)
(* What is proved of Outbox, for any writers, targets, servers and bounds: *)
(* its type invariant; that a save from a remote-only folder never becomes *)
(* a local row; where claims do not lapse under a live owner, that two     *)
(* writers never push the entry at once; and, under the condition each     *)
(* theorem names, that no queued write is lost, that no known copy is left *)
(* astray, that a push leaves alone a row that has been retargeted, and    *)
(* that writers who race for an entry make no copy of it.                  *)
(***************************************************************************)
EXTENDS Outbox, TLAPS, FiniteSetTheorems

\* The fields of a row; no row is the null row.
LEMMA RowRecord ==
  /\ \A r \in Rows : /\ r.st \in {"active", "retired"} /\ r.at \in Scopes
                     /\ r.ob \in Targets \union {None} /\ r.key \in Keys \union {NoKey}
                     /\ r.owe \in Ids \union {None} /\ r.ver \in Edits /\ r # NoRow
BY NoneAssumption DEF Rows, NoRow

\* A copy stays one when it is retired or its answer is forgotten.
LEMMA CopyRecord ==
  /\ \A c \in Copies : c # None
  /\ \A c \in Copies, b \in BOOLEAN : [c EXCEPT !.live = b] \in Copies /\ [c EXCEPT !.known = b] \in Copies
BY NoneAssumption DEF Copies

\* Retiring a copy, or what a client knows of it, loses no copy.
LEMMA CopyTouched ==
  ASSUME copies \in [Ids -> Copies \union {None}], NEW i \in Ids, Stored(i), NEW b \in BOOLEAN,
         copies' = [copies EXCEPT ![i].live = b] \/ copies' = [copies EXCEPT ![i].known = b]
  PROVE  copies' \in [Ids -> Copies \union {None}] /\ \A j \in Ids : Stored(j) => Stored(j)'
<1>1. copies[i] \in Copies
  BY DEF Stored
<1>2. /\ [copies[i] EXCEPT !.live = b] \in Copies
      /\ [copies[i] EXCEPT !.known = b] \in Copies
  BY <1>1, CopyRecord
<1>3. \E c \in Copies : copies' = [copies EXCEPT ![i] = c]
  BY <1>2
<1> QED
  BY <1>3, CopyRecord DEF Stored

\* A POST loses no copy, and is answered with the id of one (Store: the contract
\* of docs/remote-store-contract.md).
LEMMA StoreKeeps ==
  ASSUME copies \in [Ids -> Copies \union {None}], NEW q \in Requests, Store(q)
  PROVE  /\ copies' \in [Ids -> Copies \union {None}]
         /\ \A j \in Ids : Stored(j) => Stored(j)'
         /\ IdFor(q) \in Ids /\ copies'[IdFor(q)] # None
<1>0. IdFor(q) \in Ids
  BY DEF Store
<1>1. CASE Known(q)
  <2> DEFINE there == CopiesOf(ServerOf[q.t], q.key)
  <2>1. IdFor(q) = CHOOSE i \in there : TRUE
    BY <1>1 DEF IdFor
  <2>2. (CHOOSE i \in there : TRUE) \in there
    BY <1>1 DEF Known
  <2>3. Stored(IdFor(q))
    BY <2>1, <2>2 DEF CopiesOf
  <2>4. copies' = copies
    BY <1>1 DEF Store
  <2> QED
    BY <1>0, <2>3, <2>4 DEF Stored
<1>2. CASE ~Known(q)
  <2> DEFINE c == [t |-> q.t, ver |-> q.ver, live |-> TRUE, known |-> FALSE]
  <2>1. c \in Copies
    BY DEF Copies, Requests
  <2>2. copies' = [copies EXCEPT ![IdFor(q)] = c]
    BY <1>2 DEF Store
  <2> HIDE DEF c
  <2> QED
    BY <1>0, <2>1, <2>2, CopyRecord DEF Stored
<1> QED
  BY <1>1, <1>2

\* What a writer posts is a request: it has a target and a key.
LEMMA RequestType ==
  ASSUME WriterTypes, SetUp, NEW w \in Writers, pc[w] \in Waiting
  PROVE  Request(w) \in Requests
<1>1. snap[w] \in Rows /\ Queued(snap[w]) /\ snap[w].key # NoKey
  BY DEF WriterTypes, SetUp, ToBePushed, Queued
<1> QED
  BY <1>1, RowRecord DEF Request, Requests, Queued

\* A fresh claim is a claim.
LEMMA ClaimType == \A w \in Writers : [by |-> w, dead |-> FALSE, lapsed |-> FALSE] \in Claims
BY DEF Claims

\* What the handlers make of a row is a row, owing what they say it owes.
LEMMA RowUpdates ==
  \A r \in Rows :
    /\ Unqueued(r) \in Rows /\ Unqueued(r).owe = r.owe
    /\ \A i \in Ids \union {None} :
         /\ QueueRetire(r, i) \in Rows /\ QueueRetire(r, i).owe = i
         /\ [r EXCEPT !.owe = i] \in Rows /\ [r EXCEPT !.owe = i].owe = i
    /\ \A s \in Scopes : [r EXCEPT !.at = s] \in Rows /\ [r EXCEPT !.at = s].owe = r.owe
    /\ \A t \in Targets, k \in Keys :
         [r EXCEPT !.ob = t, !.key = k] \in Rows /\ [r EXCEPT !.ob = t, !.key = k].owe = r.owe
    /\ \A k \in Keys : [r EXCEPT !.key = k] \in Rows /\ [r EXCEPT !.key = k].owe = r.owe
<1> TAKE r \in Rows
<1>1. Unqueued(r) \in Rows /\ Unqueued(r).owe = r.owe
  BY DEF Rows, Unqueued
<1>2. ASSUME NEW i \in Ids \union {None}
      PROVE  [r EXCEPT !.owe = i] \in Rows /\ [r EXCEPT !.owe = i].owe = i
  BY DEF Rows
<1>3. ASSUME NEW s \in Scopes
      PROVE  [r EXCEPT !.at = s] \in Rows /\ [r EXCEPT !.at = s].owe = r.owe
  BY DEF Rows
<1>4. ASSUME NEW t \in Targets, NEW k \in Keys
      PROVE  [r EXCEPT !.ob = t, !.key = k] \in Rows /\ [r EXCEPT !.ob = t, !.key = k].owe = r.owe
  BY DEF Rows
<1>5. ASSUME NEW k \in Keys
      PROVE  [r EXCEPT !.key = k] \in Rows /\ [r EXCEPT !.key = k].owe = r.owe
  BY DEF Rows
<1> QED
  BY <1>1, <1>2, <1>3, <1>4, <1>5 DEF QueueRetire

\* The local scope and the targets are scopes.
LEMMA LocalScope == Local \in Scopes /\ Targets \subseteq Scopes
BY DEF Scopes

\* A new row is a row, queued for its target.
LEMMA NewRowType ==
  \A t \in Targets, k \in Keys \union {NoKey} :
    NewRow(t, k) \in Rows /\ NewRow(t, k).at = t /\ NewRow(t, k).owe = None /\ Queued(NewRow(t, k))
<1> TAKE t \in Targets, k \in Keys \union {NoKey}
<1>1. NewRow(t, k) \in Rows
  BY OutboxAssumption DEF NewRow, Rows, Scopes, Edits
<1> QED
  BY <1>1, OutboxAssumption, RowRecord DEF NewRow, Queued

\* The type invariant holds in the initial states.
LEMMA TypeInit == Init => TypeOK
<1> SUFFICES ASSUME Init PROVE TypeOK
  OBVIOUS
<1>0. \A t \in Targets : /\ NewRow(t, NoKey) \in Rows /\ NewRow(t, NoKey).owe = None
                        /\ Unqueued(NewRow(t, NoKey)) \in Rows /\ Unqueued(NewRow(t, NoKey)).owe = None
  <2> TAKE t \in Targets
  <2>1. NewRow(t, NoKey) \in Rows /\ NewRow(t, NoKey).owe = None
    BY NewRowType
  <2> QED
    BY <2>1, RowUpdates
<1>1. RowTypes
  BY <1>0, OutboxAssumption DEF Init, RowTypes
<1>2. WriterTypes
  BY DEF Init, WriterTypes, Stages
<1>3. ServerTypes
  BY DEF Init, ServerTypes
<1>4. UserTypes
  BY OutboxAssumption DEF Init, UserTypes, Scopes, Edits
<1>5. SetUp
  BY DEF Init, SetUp, ToBePushed, Waiting
<1>6. Answered
  BY <1>0 DEF Init, Answered, Owes
<1> QED
  BY <1>1, <1>2, <1>3, <1>4, <1>5, <1>6 DEF TypeOK

\* Every step keeps the type invariant.
LEMMA TypeStep == TypeOK /\ [Next]_vars => TypeOK'
<1> SUFFICES ASSUME TypeOK, [Next]_vars PROVE TypeOK'
  OBVIOUS
<1> USE OutboxAssumption DEF TypeOK, Goto
<1>0. CASE UNCHANGED vars
  BY <1>0 DEF vars, RowTypes, WriterTypes, ServerTypes, UserTypes, SetUp, Answered,
     Stored
<1>1. ASSUME NEW w \in Writers, NEW t \in Targets, Learn(w, t) PROVE TypeOK'
  <2>1. RowTypes'
    BY <1>1 DEF Learn, Unborn, RowTypes, NewRow, Rows, Keys, Scopes, Edits
  <2>2. WriterTypes'
    BY <1>1 DEF Learn, Unborn, WriterTypes, NewRow, flushVars, Stages, Rows, Keys, Scopes,
       Edits
  <2>3. ServerTypes'
    BY <1>1 DEF Learn, Unborn, ServerTypes, serverVars
  <2>4. UserTypes'
    BY <1>1 DEF Learn, Unborn, UserTypes, userVars, faults, Scopes, Edits
  <2>5. SetUp'
    BY <1>1, RowRecord DEF Learn, Unborn, SetUp, NewRow, WriterTypes, Queued, Rows, NoKey,
       Keys, Scopes, Edits
  <2>6. Answered'
    BY <1>1 DEF Learn, Unborn, Answered, NewRow, serverVars, Owes, Stored
  <2> QED
    BY <2>1, <2>2, <2>3, <2>4, <2>5, <2>6
<1>2. ASSUME NEW w \in Writers, NEW t \in Targets, Routed(w, t) PROVE TypeOK'
  <2>1. RowTypes'
    BY <1>2 DEF Routed, Unborn, RowTypes
  <2>2. WriterTypes'
    BY <1>2 DEF Routed, Unborn, WriterTypes, NewRow, flushVars, Stages, Waiting, Rows, Keys,
       Scopes, Edits
  <2>3. ServerTypes'
    BY <1>2 DEF Routed, Unborn, ServerTypes, serverVars
  <2>4. UserTypes'
    BY <1>2 DEF Routed, Unborn, UserTypes, userVars, faults
  <2>5. SetUp'
    BY <1>2, RowRecord DEF Routed, Unborn, SetUp, NewRow, WriterTypes, Queued, Rows, NoKey,
       Keys, Scopes, Edits
  <2>6. Answered'
    BY <1>2 DEF Routed, Unborn, Answered, NewRow, serverVars, Owes, Stored
  <2> QED
    BY <2>1, <2>2, <2>3, <2>4, <2>5, <2>6
<1>3. ASSUME NEW w \in Writers, LearnPush(w) PROVE TypeOK'
  <2>1. RowTypes'
    BY <1>3, ClaimType DEF LearnPush, RowTypes
  <2>2. WriterTypes'
    BY <1>3 DEF LearnPush, WriterTypes, flushVars, Stages, Waiting
  <2>3. ServerTypes'
    BY <1>3 DEF LearnPush, ServerTypes, serverVars
  <2>4. UserTypes'
    BY <1>3 DEF LearnPush, UserTypes, userVars, faults
  <2>5. SetUp'
    BY <1>3 DEF LearnPush, SetUp, ToBePushed, WriterTypes
  <2>6. Answered'
    BY <1>3 DEF LearnPush, Answered, serverVars, Stored
  <2> QED
    BY <2>1, <2>2, <2>3, <2>4, <2>5, <2>6
<1>4. ASSUME NEW w \in Writers, LearnDone(w) PROVE TypeOK'
  <2>1. RowTypes'
    BY <1>4 DEF LearnDone, RowTypes, QueueRetire, Rows, WriterTypes
  <2>2. WriterTypes'
    BY <1>4 DEF LearnDone, WriterTypes, flushVars, Stages
  <2>3. ServerTypes'
    BY <1>4 DEF LearnDone, ServerTypes, serverVars
  <2>4. UserTypes'
    BY <1>4 DEF LearnDone, UserTypes, userVars, faults
  <2>5. SetUp'
    BY <1>4 DEF LearnDone, SetUp, ToBePushed, Waiting
  <2>6. Answered'
    BY <1>4 DEF LearnDone, Answered, QueueRetire, serverVars, Owes, Stored
  <2> QED
    BY <2>1, <2>2, <2>3, <2>4, <2>5, <2>6
<1>5. ASSUME NEW w \in Writers, RoutedSave(w) PROVE TypeOK'
  <2>1. RowTypes'
    BY <1>5 DEF RoutedSave, RowTypes, WriterTypes
  <2>2. WriterTypes'
    BY <1>5 DEF RoutedSave, WriterTypes, flushVars, Stages
  <2>3. ServerTypes'
    BY <1>5 DEF RoutedSave, ServerTypes, serverVars
  <2>4. UserTypes'
    BY <1>5 DEF RoutedSave, UserTypes, userVars, faults, Rows, Scopes, Edits, SetUp,
       WriterTypes
  <2>5. SetUp'
    BY <1>5 DEF RoutedSave, SetUp, ToBePushed
  <2>6. Answered'
    BY <1>5 DEF RoutedSave, Answered, serverVars, Stored
  <2> QED
    BY <2>1, <2>2, <2>3, <2>4, <2>5, <2>6
<1>6. ASSUME NEW w \in Writers, Flush(w) PROVE TypeOK'
  <2>1. RowTypes'
    BY <1>6 DEF Flush, RowTypes
  <2>2. WriterTypes'
    BY <1>6 DEF Flush, WriterTypes, ToRetire, ToPush, flushVars, Stages, RowTypes
  <2>3. ServerTypes'
    BY <1>6 DEF Flush, ServerTypes, serverVars
  <2>4. UserTypes'
    BY <1>6 DEF Flush, UserTypes, userVars, faults
  <2>5. SetUp'
    BY <1>6 DEF Flush, SetUp, ToRetire, ToPush, ToBePushed, Waiting, WriterTypes
  <2>6. Answered'
    BY <1>6 DEF Flush, Answered, serverVars, Stored
  <2> QED
    BY <2>1, <2>2, <2>3, <2>4, <2>5, <2>6
<1>7. ASSUME NEW w \in Writers, FlushRetire(w) PROVE TypeOK'
  <2>1. RowTypes'
    BY <1>7 DEF FlushRetire, RowTypes
  <2>2. WriterTypes'
    BY <1>7 DEF FlushRetire, WriterTypes, ToPush, Stages
  <2>3. ServerTypes'
    <3>1. snap[w] \in Rows /\ snap[w].owe \in Ids /\ Stored(snap[w].owe)
      BY <1>7, RowRecord DEF FlushRetire, SetUp, Answered, Owes, WriterTypes
    <3>2. CASE copies' = copies
      BY <1>7, <3>2 DEF FlushRetire, ServerTypes
    <3>3. CASE copies' = [copies EXCEPT ![snap[w].owe].live = FALSE]
      BY <1>7, <3>1, <3>3, CopyTouched DEF FlushRetire, ServerTypes
    <3> QED
      BY <1>7, <3>2, <3>3 DEF FlushRetire
  <2>4. UserTypes'
    BY <1>7 DEF FlushRetire, UserTypes, userVars, faults
  <2>5. SetUp'
    BY <1>7 DEF FlushRetire, SetUp, ToPush, ToBePushed, Waiting
  <2>6. Answered'
    <3>1. snap[w] \in Rows /\ snap[w].owe \in Ids /\ Stored(snap[w].owe)
      BY <1>7, RowRecord DEF FlushRetire, SetUp, Answered, Owes, WriterTypes
    <3>2. \A j \in Ids : Stored(j) => Stored(j)'
      <4>1. CASE copies' = copies
        BY <4>1 DEF Stored
      <4>2. CASE copies' = [copies EXCEPT ![snap[w].owe].live = FALSE]
        BY <3>1, <4>2, CopyTouched DEF ServerTypes
      <4> QED
        BY <1>7, <4>1, <4>2 DEF FlushRetire
    <3>3. UNCHANGED <<row, snap, reply, got>>
      BY <1>7 DEF FlushRetire
    <3> QED
      BY <3>2, <3>3, RowRecord DEF RowTypes, WriterTypes, Answered, Owes
  <2> QED
    BY <2>1, <2>2, <2>3, <2>4, <2>5, <2>6
<1>8. ASSUME NEW w \in Writers, FlushKey(w) PROVE TypeOK'
  <2>1. RowTypes'
    BY <1>8 DEF FlushKey, RowTypes, Rows, Keys
  <2>2. WriterTypes'
    <3>1. UNCHANGED <<reply, got, gone, demoted>>
      BY <1>8 DEF FlushKey, flushVars
    <3>2. snap[w] \in Rows
      BY <1>8 DEF FlushKey, SetUp, WriterTypes
    <3>3. snap' \in [Writers -> Rows \union {NoRow}]
      <4>1. CASE UNCHANGED snap
        BY <4>1 DEF WriterTypes
      <4>2. CASE row # NoRow /\ row.ob # None
        <5>1. row'.key \in Keys
          <6>1. CASE row.key = NoKey
            <7>1. keys' \in Keys /\ row' = [row EXCEPT !.key = keys']
              BY <1>8, <4>2, <6>1 DEF FlushKey, RowTypes, Keys
            <7> QED
              BY <4>2, <7>1 DEF RowTypes
          <6>2. CASE row.key # NoKey
            BY <1>8, <4>2, <6>2, RowRecord DEF FlushKey, RowTypes
          <6> QED
            BY <6>1, <6>2
        <5>2. [snap[w] EXCEPT !.key = row'.key] \in Rows
          BY <3>2, <5>1, RowUpdates
        <5> QED
          BY <1>8, <4>2, <5>2 DEF FlushKey, WriterTypes
      <4> QED
        BY <1>8, <4>1, <4>2 DEF FlushKey
    <3>4. pc' \in [Writers -> Stages]
      BY <1>8 DEF FlushKey, WriterTypes, ToRetire, ToPush, Stages
    <3> QED
      BY <3>1, <3>3, <3>4 DEF WriterTypes
  <2>3. ServerTypes'
    BY <1>8 DEF FlushKey, ServerTypes, serverVars
  <2>4. UserTypes'
    BY <1>8 DEF FlushKey, UserTypes, userVars, faults
  <2>5. SetUp'
    BY <1>8, RowRecord DEF FlushKey, SetUp, ToRetire, ToPush, ToBePushed, Waiting,
       WriterTypes, RowTypes, Rows, Keys
  <2>6. Answered'
    <3>1. UNCHANGED <<copies, reply, got>>
      BY <1>8 DEF FlushKey, serverVars
    <3>2. Owes(row)' => Owes(row) /\ row'.owe = row.owe
      <4>1. CASE row' = row
        BY <4>1
      <4>2. CASE row # NoRow /\ row.key = NoKey /\ keys' \in Keys /\ row' = [row EXCEPT !.key = keys']
        BY <4>2 DEF RowTypes, Owes
      <4> QED
        BY <1>8, <4>1, <4>2 DEF FlushKey, RowTypes, Keys
    <3>3. snap[w] \in Rows
      BY <1>8 DEF FlushKey, SetUp, WriterTypes
    <3>4. \A v \in Writers : Owes(snap[v])' => Owes(snap[v]) /\ snap'[v].owe = snap[v].owe
      <4>1. CASE UNCHANGED snap
        BY <4>1
      <4>2. CASE row # NoRow /\ row.ob # None
        <5>1. row'.key \in Keys
          <6>1. CASE row.key = NoKey
            <7>1. keys' \in Keys /\ row' = [row EXCEPT !.key = keys']
              BY <1>8, <4>2, <6>1 DEF FlushKey, RowTypes, Keys
            <7> QED
              BY <4>2, <7>1 DEF RowTypes
          <6>2. CASE row.key # NoKey
            BY <1>8, <4>2, <6>2, RowRecord DEF FlushKey, RowTypes
          <6> QED
            BY <6>1, <6>2
        <5>2. snap' = [snap EXCEPT ![w] = [snap[w] EXCEPT !.key = row'.key]]
          BY <1>8, <4>2 DEF FlushKey
        <5>3. snap'[w].owe = snap[w].owe
          BY <3>3, <5>1, <5>2, RowUpdates DEF WriterTypes
        <5> QED
          BY <3>3, <5>2, <5>3, RowRecord DEF Owes
      <4> QED
        BY <1>8, <4>1, <4>2 DEF FlushKey
    <3> QED
      BY <3>1, <3>2, <3>4 DEF Answered, Stored
  <2> QED
    BY <2>1, <2>2, <2>3, <2>4, <2>5, <2>6
<1>9. ASSUME NEW w \in Writers, FlushClaim(w) PROVE TypeOK'
  <2>1. RowTypes'
    BY <1>9, ClaimType DEF FlushClaim, RowTypes
  <2>2. WriterTypes'
    BY <1>9 DEF FlushClaim, WriterTypes, Skip, flushVars, Stages
  <2>3. ServerTypes'
    BY <1>9 DEF FlushClaim, ServerTypes, serverVars
  <2>4. UserTypes'
    BY <1>9 DEF FlushClaim, UserTypes, userVars, faults
  <2>5. SetUp'
    BY <1>9 DEF FlushClaim, SetUp, Skip, ToBePushed, WriterTypes
  <2>6. Answered'
    BY <1>9 DEF FlushClaim, Answered, serverVars, Stored
  <2> QED
    BY <2>1, <2>2, <2>3, <2>4, <2>5, <2>6
<1>10. ASSUME NEW w \in Writers, FlushCheck(w) PROVE TypeOK'
  <2>1. RowTypes'
    BY <1>10 DEF FlushCheck, RowTypes
  <2>2. WriterTypes'
    BY <1>10 DEF FlushCheck, WriterTypes, Skip, Stages, Waiting
  <2>3. ServerTypes'
    BY <1>10 DEF FlushCheck, ServerTypes, serverVars
  <2>4. UserTypes'
    BY <1>10 DEF FlushCheck, UserTypes, userVars, faults
  <2>5. SetUp'
    BY <1>10 DEF FlushCheck, SetUp, Skip, ToBePushed, WriterTypes
  <2>6. Answered'
    BY <1>10 DEF FlushCheck, Answered, serverVars, Stored
  <2> QED
    BY <2>1, <2>2, <2>3, <2>4, <2>5, <2>6
<1>11. ASSUME NEW w \in Writers, FlushDefer(w) PROVE TypeOK'
  <2>1. RowTypes'
    BY <1>11 DEF FlushDefer, RowTypes
  <2>2. WriterTypes'
    BY <1>11 DEF FlushDefer, WriterTypes, Skip, flushVars, Stages
  <2>3. ServerTypes'
    BY <1>11 DEF FlushDefer, ServerTypes, serverVars
  <2>4. UserTypes'
    BY <1>11 DEF FlushDefer, UserTypes, userVars, faults
  <2>5. SetUp'
    BY <1>11 DEF FlushDefer, SetUp, Skip, ToBePushed
  <2>6. Answered'
    BY <1>11 DEF FlushDefer, Answered, serverVars, Stored
  <2> QED
    BY <2>1, <2>2, <2>3, <2>4, <2>5, <2>6
<1>12. ASSUME NEW w \in Writers, Merge(w) PROVE TypeOK'
  <2>1. RowTypes'
    <3>1. row' \in Rows \union {NoRow}
      <4>1. Merged(w) \in Rows \union {NoRow}
        BY RowUpdates, LocalScope DEF Merged, RowTypes, WriterTypes
      <4>2. StruckOff(Merged(w), w) \in Rows \union {NoRow}
        BY <4>1, RowUpdates DEF StruckOff
      <4> QED
        BY <1>12, <4>2 DEF Merge
    <3> QED
      BY <1>12, <3>1 DEF Merge, RowTypes
  <2>2. WriterTypes'
    BY <1>12 DEF Merge, WriterTypes, flushVars, Stages
  <2>3. ServerTypes'
    BY <1>12 DEF Merge, ServerTypes, serverVars
  <2>4. UserTypes'
    BY <1>12 DEF Merge, UserTypes, userVars, faults, Scopes
  <2>5. SetUp'
    BY <1>12 DEF Merge, SetUp, ToBePushed, Waiting
  <2>6. Answered'
    BY <1>12 DEF Merge, Answered, StruckOff, Merged, QueueRetire, Unqueued,
       serverVars, Owes, Stored
  <2> QED
    BY <2>1, <2>2, <2>3, <2>4, <2>5, <2>6
<1>13. ASSUME NEW w \in Writers, Release(w) PROVE TypeOK'
  <2>1. RowTypes'
    BY <1>13 DEF Release, RowTypes
  <2>2. WriterTypes'
    BY <1>13 DEF Release, WriterTypes, Forgotten, Stages
  <2>3. ServerTypes'
    BY <1>13 DEF Release, ServerTypes, serverVars
  <2>4. UserTypes'
    BY <1>13 DEF Release, UserTypes, userVars, faults
  <2>5. SetUp'
    BY <1>13 DEF Release, SetUp, Forgotten, ToBePushed, Waiting, WriterTypes
  <2>6. Answered'
    BY <1>13 DEF Release, Answered, Forgotten, serverVars, Owes, Stored
  <2> QED
    BY <2>1, <2>2, <2>3, <2>4, <2>5, <2>6
<1>14. ASSUME NEW w \in Writers, Serve(w) PROVE TypeOK'
  <2>1. RowTypes'
    BY <1>14 DEF Serve, RowTypes
  <2>2. WriterTypes'
    BY <1>14 DEF Serve, WriterTypes, Store, flushVars
  <2>3. ServerTypes'
    <3>1. Request(w) \in Requests
      BY <1>14, RequestType DEF Serve
    <3> QED
      BY <1>14, <3>1, StoreKeeps DEF Serve, ServerTypes
  <2>4. UserTypes'
    BY <1>14 DEF Serve, UserTypes, userVars, faults
  <2>5. SetUp'
    BY <1>14 DEF Serve, SetUp
  <2>6. Answered'
    <3>1. Request(w) \in Requests
      BY <1>14, RequestType DEF Serve
    <3>2. /\ \A j \in Ids : Stored(j) => Stored(j)'
          /\ IdFor(Request(w)) \in Ids /\ copies'[IdFor(Request(w))] # None
      BY <1>14, <3>1, StoreKeeps DEF Serve, ServerTypes
    <3>3. reply' = [reply EXCEPT ![w] = IdFor(Request(w))] /\ UNCHANGED <<row, snap, got>>
      BY <1>14 DEF Serve
    <3> HIDE DEF TypeOK
    <3> QED
      BY <3>2, <3>3, RowRecord DEF TypeOK, RowTypes, WriterTypes, Answered, Owes,
         Stored
  <2> QED
    BY <2>1, <2>2, <2>3, <2>4, <2>5, <2>6
<1>15. ASSUME NEW w \in Writers, Deliver(w) PROVE TypeOK'
  <2>1. RowTypes'
    BY <1>15 DEF Deliver, RowTypes
  <2>2. WriterTypes'
    BY <1>15 DEF Deliver, WriterTypes, flushVars, Stages
  <2>3. ServerTypes'
    <3>1. reply[w] \in Ids /\ Stored(reply[w])
      BY <1>15 DEF Deliver, Answered, WriterTypes
    <3> QED
      BY <1>15, <3>1, CopyTouched DEF Deliver, ServerTypes
  <2>4. UserTypes'
    BY <1>15 DEF Deliver, UserTypes, userVars, faults, Rows, Scopes, Edits, SetUp,
       WriterTypes
  <2>5. SetUp'
    BY <1>15 DEF Deliver, SetUp, ToBePushed, WriterTypes, Queued
  <2>6. Answered'
    <3>1. reply[w] \in Ids /\ Stored(reply[w])
      BY <1>15 DEF Deliver, Answered, WriterTypes
    <3>2. \A j \in Ids : Stored(j) => Stored(j)'
      BY <1>15, <3>1, CopyTouched DEF Deliver, ServerTypes
    <3>3. /\ reply' = [reply EXCEPT ![w] = None]
          /\ got' = got \/ got' = [got EXCEPT ![w] = reply[w]]
          /\ UNCHANGED <<row, snap>>
      BY <1>15 DEF Deliver
    <3> HIDE DEF TypeOK
    <3> QED
      BY <3>1, <3>2, <3>3, RowRecord DEF TypeOK, RowTypes, WriterTypes, Answered,
         Owes
  <2> QED
    BY <2>1, <2>2, <2>3, <2>4, <2>5, <2>6
<1>16. ASSUME NEW w \in Writers, GiveUp(w) PROVE TypeOK'
  <2>1. RowTypes'
    BY <1>16 DEF GiveUp, RowTypes
  <2>2. WriterTypes'
    BY <1>16 DEF GiveUp, WriterTypes, Abandon, flushVars, Stages, Waiting
  <2>3. ServerTypes'
    <3>1. Request(w) \in Requests
      BY <1>16, RequestType DEF GiveUp
    <3> QED
      BY <1>16, <3>1 DEF GiveUp, Abandon, ServerTypes
  <2>4. UserTypes'
    BY <1>16 DEF GiveUp, UserTypes, userVars
  <2>5. SetUp'
    BY <1>16 DEF GiveUp, SetUp, ToBePushed, Queued, Waiting
  <2>6. Answered'
    BY <1>16 DEF GiveUp, Answered, Abandon, Stored
  <2> QED
    BY <2>1, <2>2, <2>3, <2>4, <2>5, <2>6
<1>17. ASSUME NEW w \in Writers, SaveFails(w) PROVE TypeOK'
  <2>1. RowTypes'
    BY <1>17 DEF SaveFails, RowTypes
  <2>2. WriterTypes'
    BY <1>17 DEF SaveFails, WriterTypes, flushVars, Stages
  <2>3. ServerTypes'
    <3>1. got[w] # None => got[w] \in Ids /\ copies[got[w]] \in Copies
      BY DEF Answered, Stored, WriterTypes, ServerTypes
    <3>2. \A c \in Copies : [c EXCEPT !.known = FALSE] \in Copies
      BY DEF Copies
    <3>3. late' = late /\ copies' = IF got[w] # None THEN [copies EXCEPT ![got[w]].known = FALSE] ELSE copies
      BY <1>17 DEF SaveFails
    <3>4. got[w] # None => copies' = [copies EXCEPT ![got[w]] = [copies[got[w]] EXCEPT !.known = FALSE]]
      BY <3>3
    <3> QED
      BY <3>1, <3>2, <3>3, <3>4 DEF ServerTypes
  <2>4. UserTypes'
    BY <1>17 DEF SaveFails, UserTypes, userVars
  <2>5. SetUp'
    BY <1>17 DEF SaveFails, SetUp, ToBePushed, Waiting
  <2>6. Answered'
    <3>1. \A j \in Ids : Stored(j) => Stored(j)'
      <4>1. CASE got[w] = None
        BY <1>17, <4>1 DEF SaveFails, Stored
      <4>2. CASE got[w] # None
        <5>1. got[w] \in Ids /\ Stored(got[w])
          BY <4>2 DEF Answered, WriterTypes
        <5>2. copies' = [copies EXCEPT ![got[w]].known = FALSE]
          BY <1>17, <4>2 DEF SaveFails
        <5> QED
          BY <5>1, <5>2, CopyTouched DEF ServerTypes
      <4> QED
        BY <4>1, <4>2
    <3>2. /\ got' = [got EXCEPT ![w] = None]
          /\ reply' = reply \/ reply' = [reply EXCEPT ![w] = None]
          /\ snap' = snap \/ snap' = [snap EXCEPT ![w] = NoRow]
          /\ row' = row
      BY <1>17 DEF SaveFails
    <3> HIDE DEF TypeOK
    <3> QED
      BY <3>1, <3>2, RowRecord DEF TypeOK, RowTypes, WriterTypes, Answered, Owes
  <2> QED
    BY <2>1, <2>2, <2>3, <2>4, <2>5, <2>6
<1>18. ASSUME NEW w \in Writers, Crash(w) PROVE TypeOK'
  <2>1. RowTypes'
    BY <1>18 DEF Crash, RowTypes, Mine, Claims
  <2>2. WriterTypes'
    BY <1>18 DEF Crash, WriterTypes, Abandon, Forgotten, Stages
  <2>3. ServerTypes'
    <3>1. late' \subseteq Requests
      BY <1>18, RequestType DEF Crash, Abandon, ServerTypes
    <3>2. CASE got[w] = None
      BY <1>18, <3>1, <3>2 DEF Crash, ServerTypes
    <3>3. CASE got[w] # None
      <4>1. got[w] \in Ids /\ Stored(got[w])
        BY <3>3 DEF Answered, WriterTypes
      <4>2. copies' = [copies EXCEPT ![got[w]].known = FALSE]
        BY <1>18, <3>3 DEF Crash
      <4> QED
        BY <3>1, <4>1, <4>2, CopyTouched DEF ServerTypes
    <3> QED
      BY <3>2, <3>3
  <2>4. UserTypes'
    BY <1>18 DEF Crash, UserTypes
  <2>5. SetUp'
    BY <1>18 DEF Crash, SetUp, Forgotten, ToBePushed, Waiting, WriterTypes
  <2>6. Answered'
    <3>1. \A j \in Ids : Stored(j) => Stored(j)'
      <4>1. CASE got[w] = None
        BY <1>18, <4>1 DEF Crash, Stored
      <4>2. CASE got[w] # None
        <5>1. got[w] \in Ids /\ Stored(got[w])
          BY <4>2 DEF Answered, WriterTypes
        <5>2. copies' = [copies EXCEPT ![got[w]].known = FALSE]
          BY <1>18, <4>2 DEF Crash
        <5> QED
          BY <5>1, <5>2, CopyTouched DEF ServerTypes
      <4> QED
        BY <4>1, <4>2
    <3>2. /\ got' = [got EXCEPT ![w] = None]
          /\ reply' = reply \/ reply' = [reply EXCEPT ![w] = None]
          /\ snap' = snap \/ snap' = [snap EXCEPT ![w] = NoRow]
          /\ row' = row
      BY <1>18 DEF Crash, Abandon, Forgotten
    <3> HIDE DEF TypeOK
    <3> QED
      BY <3>1, <3>2, RowRecord DEF TypeOK, RowTypes, WriterTypes, Answered, Owes
  <2> QED
    BY <2>1, <2>2, <2>3, <2>4, <2>5, <2>6
<1>19. ASSUME NEW q \in late, ServeLate(q) PROVE TypeOK'
  <2>1. RowTypes'
    BY <1>19 DEF ServeLate, RowTypes
  <2>2. WriterTypes'
    BY <1>19 DEF ServeLate, WriterTypes, flushVars
  <2>3. ServerTypes'
    BY <1>19, StoreKeeps DEF ServeLate, ServerTypes
  <2>4. UserTypes'
    BY <1>19 DEF ServeLate, UserTypes, userVars, faults
  <2>5. SetUp'
    BY <1>19 DEF ServeLate, SetUp
  <2>6. Answered'
    <3>1. q \in Requests
      BY DEF ServerTypes
    <3>2. \A j \in Ids : Stored(j) => Stored(j)'
      BY <1>19, <3>1, StoreKeeps DEF ServeLate, ServerTypes
    <3>3. UNCHANGED <<row, snap, reply, got>>
      BY <1>19 DEF ServeLate
    <3> QED
      BY <3>2, <3>3, RowRecord DEF RowTypes, WriterTypes, Answered, Owes
  <2> QED
    BY <2>1, <2>2, <2>3, <2>4, <2>5, <2>6
<1>20. ASSUME NEW q \in late, Lost(q) PROVE TypeOK'
  <2>1. RowTypes'
    BY <1>20 DEF Lost, RowTypes
  <2>2. WriterTypes'
    BY <1>20 DEF Lost, WriterTypes, flushVars
  <2>3. ServerTypes'
    BY <1>20 DEF Lost, ServerTypes
  <2>4. UserTypes'
    BY <1>20 DEF Lost, UserTypes, userVars, faults
  <2>5. SetUp'
    BY <1>20 DEF Lost, SetUp
  <2>6. Answered'
    BY <1>20 DEF Lost, Answered, Stored
  <2> QED
    BY <2>1, <2>2, <2>3, <2>4, <2>5, <2>6
<1>21. CASE Forget
  <2>1. RowTypes'
    BY <1>21 DEF Forget, RowTypes, Unqueued, writerVars, Rows
  <2>2. WriterTypes'
    BY <1>21 DEF Forget, WriterTypes, writerVars
  <2>3. ServerTypes'
    BY <1>21 DEF Forget, ServerTypes, serverVars
  <2>4. UserTypes'
    BY <1>21 DEF Forget, UserTypes, UserOp, faults
  <2>5. SetUp'
    BY <1>21 DEF Forget, SetUp, writerVars
  <2>6. Answered'
    BY <1>21 DEF Forget, Answered, Unqueued, serverVars, writerVars, Owes, Stored
  <2> QED
    BY <2>1, <2>2, <2>3, <2>4, <2>5, <2>6
<1>22. CASE ForgetRemoteOnly
  <2>1. RowTypes'
    BY <1>22 DEF ForgetRemoteOnly, RowTypes, writerVars
  <2>2. WriterTypes'
    BY <1>22 DEF ForgetRemoteOnly, WriterTypes, writerVars
  <2>3. ServerTypes'
    BY <1>22 DEF ForgetRemoteOnly, ServerTypes, serverVars
  <2>4. UserTypes'
    BY <1>22 DEF ForgetRemoteOnly, UserTypes, UserOp, faults
  <2>5. SetUp'
    BY <1>22 DEF ForgetRemoteOnly, SetUp, writerVars
  <2>6. Answered'
    BY <1>22 DEF ForgetRemoteOnly, Answered, serverVars, writerVars, Owes, Stored
  <2> QED
    BY <2>1, <2>2, <2>3, <2>4, <2>5, <2>6
<1>23. CASE Rescope
  <2>1. RowTypes'
    BY <1>23 DEF Rescope, RowTypes, Unqueued, writerVars, Rows, Scopes
  <2>2. WriterTypes'
    BY <1>23 DEF Rescope, WriterTypes, writerVars
  <2>3. ServerTypes'
    BY <1>23 DEF Rescope, ServerTypes, serverVars
  <2>4. UserTypes'
    BY <1>23 DEF Rescope, UserTypes, UserOp, faults, Scopes
  <2>5. SetUp'
    BY <1>23 DEF Rescope, SetUp, writerVars
  <2>6. Answered'
    BY <1>23 DEF Rescope, Answered, Unqueued, serverVars, writerVars, Owes, Stored
  <2> QED
    BY <2>1, <2>2, <2>3, <2>4, <2>5, <2>6
<1>24. CASE RescopeAway
  <2>1. RowTypes'
    BY <1>24 DEF RescopeAway, RowTypes, writerVars, Rows
  <2>2. WriterTypes'
    BY <1>24 DEF RescopeAway, WriterTypes, writerVars
  <2>3. ServerTypes'
    BY <1>24 DEF RescopeAway, ServerTypes, serverVars
  <2>4. UserTypes'
    BY <1>24 DEF RescopeAway, UserTypes, UserOp, faults
  <2>5. SetUp'
    BY <1>24 DEF RescopeAway, SetUp, writerVars
  <2>6. Answered'
    BY <1>24 DEF RescopeAway, Answered, serverVars, writerVars, Owes, Stored
  <2> QED
    BY <2>1, <2>2, <2>3, <2>4, <2>5, <2>6
<1>25. CASE Upload
  <2>1. RowTypes'
    <3>1. row \in Rows
      BY <1>25 DEF Upload, RowTypes
    <3>2. row' \in Rows
      <4>1. CASE row' = [Unqueued(row) EXCEPT !.at = Local]
        BY <3>1, <4>1, RowUpdates, LocalScope
      <4>2. CASE row' = [row EXCEPT !.ob = row.at, !.key = keys'] /\ keys' \in Keys /\ row.at \in Targets
        BY <3>1, <4>2, RowUpdates
      <4> QED
        BY <1>25, <4>1, <4>2 DEF Upload, RowTypes, Keys
    <3>3. keys' \in 0..MaxKeys
      BY <1>25 DEF Upload, RowTypes
    <3> QED
      BY <1>25, <3>2, <3>3 DEF Upload, RowTypes, writerVars
  <2>2. WriterTypes'
    BY <1>25 DEF Upload, WriterTypes, writerVars
  <2>3. ServerTypes'
    BY <1>25 DEF Upload, ServerTypes, serverVars
  <2>4. UserTypes'
    BY <1>25 DEF Upload, UserTypes, UserOp, faults, Scopes
  <2>5. SetUp'
    BY <1>25 DEF Upload, SetUp, writerVars
  <2>6. Answered'
    <3>1. row \in Rows
      BY <1>25 DEF Upload, RowTypes
    <3>2. row'.owe = row.owe
      <4>1. CASE row' = [Unqueued(row) EXCEPT !.at = Local]
        BY <3>1, <4>1, RowUpdates, LocalScope
      <4>2. CASE row' = [row EXCEPT !.ob = row.at, !.key = keys'] /\ keys' \in Keys /\ row.at \in Targets
        BY <3>1, <4>2
      <4> QED
        BY <1>25, <4>1, <4>2 DEF Upload, RowTypes, Keys
    <3>3. UNCHANGED <<copies, snap, reply, got>>
      BY <1>25 DEF Upload, writerVars, serverVars
    <3> QED
      BY <1>25, <3>1, <3>2, <3>3, RowRecord DEF Answered, Stored, Owes
  <2> QED
    BY <2>1, <2>2, <2>3, <2>4, <2>5, <2>6
<1>26. CASE Read
  <2>1. RowTypes'
    BY <1>26 DEF Read, RowTypes, writerVars
  <2>2. WriterTypes'
    BY <1>26 DEF Read, WriterTypes, writerVars
  <2>3. ServerTypes'
    BY <1>26 DEF Read, ServerTypes, serverVars
  <2>4. UserTypes'
    BY <1>26 DEF Read, UserTypes, faults, RowTypes
  <2>5. SetUp'
    BY <1>26 DEF Read, SetUp, writerVars
  <2>6. Answered'
    BY <1>26 DEF Read, Answered, serverVars, writerVars, Stored
  <2> QED
    BY <2>1, <2>2, <2>3, <2>4, <2>5, <2>6
<1>27. CASE Lapse
  <2>1. RowTypes'
    BY <1>27 DEF Lapse, RowTypes, Claims
  <2>2. WriterTypes'
    BY <1>27 DEF Lapse, WriterTypes, flushVars
  <2>3. ServerTypes'
    BY <1>27 DEF Lapse, ServerTypes, serverVars
  <2>4. UserTypes'
    BY <1>27 DEF Lapse, UserTypes, userVars, faults
  <2>5. SetUp'
    BY <1>27 DEF Lapse, SetUp
  <2>6. Answered'
    BY <1>27 DEF Lapse, Answered, serverVars, Stored
  <2> QED
    BY <2>1, <2>2, <2>3, <2>4, <2>5, <2>6
<1>28. ASSUME NEW s \in Scopes, Update(s) PROVE TypeOK'
  <2>1. RowTypes'
    BY <1>28 DEF Update, RowTypes, UserOp, writerVars, Rows, Scopes, Edits,
       UserTypes, Reconciled
  <2>2. WriterTypes'
    BY <1>28 DEF Update, WriterTypes, writerVars
  <2>3. ServerTypes'
    BY <1>28 DEF Update, ServerTypes, serverVars
  <2>4. UserTypes'
    BY <1>28 DEF Update, UserTypes, UserOp, faults, Scopes, Edits
  <2>5. SetUp'
    BY <1>28 DEF Update, SetUp, writerVars
  <2>6. Answered'
    BY <1>28 DEF Update, Answered, serverVars, writerVars, Owes, Stored, Reconciled
  <2> QED
    BY <2>1, <2>2, <2>3, <2>4, <2>5, <2>6
<1>29. ASSUME NEW t \in Targets, Tighten(t) PROVE TypeOK'
  <2>1. RowTypes'
    BY <1>29 DEF Tighten, RowTypes, writerVars
  <2>2. WriterTypes'
    BY <1>29 DEF Tighten, WriterTypes, writerVars
  <2>3. ServerTypes'
    BY <1>29 DEF Tighten, ServerTypes, serverVars
  <2>4. UserTypes'
    BY <1>29 DEF Tighten, UserTypes, UserOp, faults
  <2>5. SetUp'
    BY <1>29 DEF Tighten, SetUp, writerVars
  <2>6. Answered'
    BY <1>29 DEF Tighten, Answered, serverVars, writerVars, Stored
  <2> QED
    BY <2>1, <2>2, <2>3, <2>4, <2>5, <2>6
<1>30. ASSUME NEW w \in Writers, LearnFailed(w) PROVE TypeOK'
  <2>1. RowTypes'
    BY <1>30 DEF LearnFailed, RowTypes
  <2>2. WriterTypes'
    BY <1>30 DEF LearnFailed, WriterTypes, flushVars, Stages
  <2>3. ServerTypes'
    BY <1>30 DEF LearnFailed, ServerTypes, serverVars
  <2>4. UserTypes'
    BY <1>30 DEF LearnFailed, UserTypes, userVars, faults
  <2>5. SetUp'
    BY <1>30 DEF LearnFailed, SetUp, ToBePushed, Waiting
  <2>6. Answered'
    BY <1>30 DEF LearnFailed, Answered, serverVars, Stored
  <2> QED
    BY <2>1, <2>2, <2>3, <2>4, <2>5, <2>6
<1>31. ASSUME NEW w \in Writers, NoteFails(w) PROVE TypeOK'
  <2>1. RowTypes'
    BY <1>31 DEF NoteFails, RowTypes, Mine, Claims
  <2>2. WriterTypes'
    BY <1>31 DEF NoteFails, WriterTypes, Forgotten, Stages
  <2>3. ServerTypes'
    BY <1>31 DEF NoteFails, ServerTypes, serverVars
  <2>4. UserTypes'
    BY <1>31 DEF NoteFails, UserTypes, userVars
  <2>5. SetUp'
    BY <1>31 DEF NoteFails, Forgotten, SetUp, ToBePushed, Waiting, WriterTypes
  <2>6. Answered'
    BY <1>31 DEF NoteFails, Forgotten, Answered, serverVars, Owes, Stored, WriterTypes
  <2> QED
    BY <2>1, <2>2, <2>3, <2>4, <2>5, <2>6
<1> QED
  BY <1>0, <1>1, <1>2, <1>3, <1>4, <1>5, <1>6, <1>7, <1>8, <1>9, <1>10, <1>11,
     <1>12, <1>13, <1>14, <1>15, <1>16, <1>17, <1>18, <1>19, <1>20, <1>21, <1>22,
     <1>23, <1>24, <1>25, <1>26, <1>27, <1>28, <1>29,
     <1>30, <1>31 DEF Next, Step, User

\* Every variable of the outbox keeps its kind; a stage that pushes or retires
\* has read a row with what it needs; every server id anybody carries is a copy's.
THEOREM OutboxTypes == Spec => []TypeOK
<1>1. Init => TypeOK
  BY TypeInit
<1>2. TypeOK /\ [Next]_vars => TypeOK'
  BY TypeStep
<1> QED
  BY <1>1, <1>2, PTL DEF Spec

\* A remote-only folder's row is queued for a remote; no writer is about to
\* demote it (FlushCheck never does), and a failed direct push saves it queued.
RemoteOnlyInv ==
  /\ row # NoRow => Queued(row) /\ row.at \in Targets
  /\ \A w \in Writers :
       /\ ~demoted[w]
       /\ pc[w] \in {"routedWait", "routedSave"} => Queued(snap[w]) /\ snap[w].at \in Targets

\* ... holds in the initial states of a remote-only folder,
LEMMA RemoteOnlyInit == RemoteOnly /\ Init => RemoteOnlyInv
BY NewRowType DEF Init, RemoteOnlyInv

\* ... and every step keeps it.
LEMMA RemoteOnlyStep == RemoteOnly /\ TypeOK /\ RemoteOnlyInv /\ [Next]_vars => RemoteOnlyInv'
<1> SUFFICES ASSUME RemoteOnly, TypeOK, RemoteOnlyInv, [Next]_vars PROVE RemoteOnlyInv'
  OBVIOUS
<1> USE OutboxAssumption DEF RemoteOnlyInv, Goto
<1>t. RowTypes /\ WriterTypes /\ row \in Rows \union {NoRow}
  BY DEF TypeOK, RowTypes
<1>0. CASE UNCHANGED vars
  BY <1>0 DEF vars
<1>1. ASSUME NEW w \in Writers, NEW t \in Targets, Learn(w, t) PROVE RemoteOnlyInv'
  BY <1>t, <1>1 DEF Learn, NewRow, Queued, flushVars
<1>2. ASSUME NEW w \in Writers, NEW t \in Targets, Routed(w, t) PROVE RemoteOnlyInv'
  <2>1. keys' \in Keys
    BY <1>2 DEF Routed, Unborn, Keys
  <2>2. Queued(NewRow(t, keys')) /\ NewRow(t, keys').at = t
    BY <2>1, NewRowType
  <2> QED
    BY <1>t, <1>2, <2>2 DEF Routed, WriterTypes, flushVars
<1>3. ASSUME NEW w \in Writers, LearnPush(w) PROVE RemoteOnlyInv'
  BY <1>t, <1>3 DEF LearnPush, WriterTypes, flushVars
<1>4. ASSUME NEW w \in Writers, LearnDone(w) PROVE RemoteOnlyInv'
  BY <1>t, <1>4 DEF LearnDone, QueueRetire, Queued, flushVars
<1>5. ASSUME NEW w \in Writers, RoutedSave(w) PROVE RemoteOnlyInv'
  BY <1>t, <1>5 DEF RoutedSave, flushVars
<1>6. ASSUME NEW w \in Writers, Flush(w) PROVE RemoteOnlyInv'
  BY <1>t, <1>6 DEF Flush, WriterTypes, flushVars
<1>7. ASSUME NEW w \in Writers, FlushRetire(w) PROVE RemoteOnlyInv'
  BY <1>t, <1>7 DEF FlushRetire, ToPush
<1>8. ASSUME NEW w \in Writers, FlushKey(w) PROVE RemoteOnlyInv'
  BY <1>t, <1>8 DEF FlushKey, ToRetire, ToPush, WriterTypes, Queued, flushVars, Rows
<1>9. ASSUME NEW w \in Writers, FlushClaim(w) PROVE RemoteOnlyInv'
  BY <1>t, <1>9 DEF FlushClaim, Skip, WriterTypes, flushVars
<1>10. ASSUME NEW w \in Writers, FlushCheck(w) PROVE RemoteOnlyInv'
  BY <1>t, <1>10 DEF FlushCheck, Skip, WriterTypes
<1>11. ASSUME NEW w \in Writers, FlushDefer(w) PROVE RemoteOnlyInv'
  BY <1>t, <1>11 DEF FlushDefer, Skip, flushVars
<1>12. ASSUME NEW w \in Writers, Merge(w) PROVE RemoteOnlyInv'
  BY <1>t, <1>12 DEF Merge, StruckOff, Merged, QueueRetire, Queued, flushVars
<1>13. ASSUME NEW w \in Writers, Release(w) PROVE RemoteOnlyInv'
  BY <1>t, <1>13 DEF Release, Forgotten
<1>14. ASSUME NEW w \in Writers, Serve(w) PROVE RemoteOnlyInv'
  BY <1>t, <1>14 DEF Serve, flushVars
<1>15. ASSUME NEW w \in Writers, Deliver(w) PROVE RemoteOnlyInv'
  BY <1>t, <1>15 DEF Deliver, WriterTypes, flushVars
<1>16. ASSUME NEW w \in Writers, GiveUp(w) PROVE RemoteOnlyInv'
  BY <1>t, <1>16 DEF GiveUp, flushVars, Waiting
<1>17. ASSUME NEW w \in Writers, SaveFails(w) PROVE RemoteOnlyInv'
  BY <1>t, <1>17 DEF SaveFails, flushVars
<1>18. ASSUME NEW w \in Writers, Crash(w) PROVE RemoteOnlyInv'
  BY <1>t, <1>18 DEF Crash, Forgotten, WriterTypes
<1>19. ASSUME NEW q \in late, ServeLate(q) PROVE RemoteOnlyInv'
  BY <1>t, <1>19 DEF ServeLate, flushVars
<1>20. ASSUME NEW q \in late, Lost(q) PROVE RemoteOnlyInv'
  BY <1>t, <1>20 DEF Lost, flushVars
<1>21. CASE Forget
  BY <1>t, <1>21 DEF Forget
<1>22. CASE ForgetRemoteOnly
  BY <1>t, <1>22 DEF ForgetRemoteOnly, writerVars
<1>23. CASE Rescope
  BY <1>t, <1>23 DEF Rescope
<1>24. CASE RescopeAway
  BY <1>t, <1>24 DEF RescopeAway
<1>25. CASE Upload
  BY <1>t, <1>25 DEF Upload
<1>26. CASE Read
  BY <1>t, <1>26 DEF Read, writerVars
<1>27. CASE Lapse
  BY <1>t, <1>27 DEF Lapse, flushVars
<1>28. ASSUME NEW s \in Scopes, Update(s) PROVE RemoteOnlyInv'
  BY <1>t, <1>28 DEF Update, Queued, writerVars, Reconciled
<1>29. ASSUME NEW t \in Targets, Tighten(t) PROVE RemoteOnlyInv'
  BY <1>t, <1>29 DEF Tighten, writerVars
<1>30. ASSUME NEW w \in Writers, LearnFailed(w) PROVE RemoteOnlyInv'
  BY <1>t, <1>30 DEF LearnFailed, flushVars
<1>31. ASSUME NEW w \in Writers, NoteFails(w) PROVE RemoteOnlyInv'
  BY <1>t, <1>31 DEF NoteFails, Forgotten, WriterTypes
<1> QED
  BY <1>0, <1>1, <1>2, <1>3, <1>4, <1>5, <1>6, <1>7, <1>8, <1>9, <1>10, <1>11,
     <1>12, <1>13, <1>14, <1>15, <1>16, <1>17, <1>18, <1>19, <1>20, <1>21, <1>22,
     <1>23, <1>24, <1>25, <1>26, <1>27, <1>28, <1>29,
     <1>30, <1>31 DEF Next, Step, User

\* A save from a remote-only folder is delivered or deleted, never kept as a
\* local row: learnRouted's fallback, flushOutbox, forget and updateEngram.
THEOREM RemoteOnlyStays == Spec => []RemoteOnlyNeverLocal
<1>1. CASE RemoteOnly
  <2>1. Init => TypeOK /\ RemoteOnlyInv
    BY <1>1, TypeInit, RemoteOnlyInit
  <2>2. (TypeOK /\ RemoteOnlyInv) /\ [Next]_vars => (TypeOK /\ RemoteOnlyInv)'
    BY <1>1, TypeStep, RemoteOnlyStep
  <2>3. TypeOK /\ RemoteOnlyInv => RemoteOnlyNeverLocal
    BY DEF RemoteOnlyInv, RemoteOnlyNeverLocal
  <2> QED
    BY <2>1, <2>2, <2>3, PTL DEF Spec
<1>2. CASE ~RemoteOnly
  <2>1. RemoteOnlyNeverLocal
    BY <1>2 DEF RemoteOnlyNeverLocal
  <2> QED
    BY <2>1, PTL
<1> QED
  BY <1>1, <1>2

\* From taking the claim to having posted, a writer's own claim is in place.
Claiming == {"flushCheck"} \union Pushing
ClaimInv ==
  /\ claim # NoClaim /\ claim.lapsed => claim.by = None
  /\ \A w \in Writers : pc[w] \in Claiming => Mine(w)

\* What a fresh claim says, that of a crashed process, a lapsed one, and one
\* that nobody is going to release.
LEMMA ClaimRecord ==
  /\ None \notin Writers
  /\ \A c \in Claims : /\ c # NoClaim /\ [c EXCEPT !.dead = TRUE].by = c.by
                       /\ [c EXCEPT !.lapsed = TRUE].by = c.by /\ [c EXCEPT !.by = None].by = None
                       /\ [c EXCEPT !.dead = TRUE].lapsed = c.lapsed
  /\ \A w \in Writers :
       LET c == [by |-> w, dead |-> FALSE, lapsed |-> FALSE]
       IN c # NoClaim /\ c.by = w /\ ~c.dead /\ ~c.lapsed
<1>1. \A w \in Writers : [by |-> w, dead |-> FALSE, lapsed |-> FALSE] \in Claims
  BY ClaimType
<1> QED
  BY <1>1, NoneAssumption, OutboxAssumption DEF NoClaim, Claims

\* Every step keeps it while claims do not lapse.
LEMMA ClaimStep == ~MayLapse /\ TypeOK /\ ClaimInv /\ [Next]_vars => ClaimInv'
<1> SUFFICES ASSUME ~MayLapse, TypeOK, ClaimInv, [Next]_vars PROVE ClaimInv'
  OBVIOUS
<1> USE DEF ClaimInv, Goto, Mine, Claiming, Pushing
<1>t. pc \in [Writers -> Stages] /\ claim \in Claims \union {NoClaim}
  BY DEF TypeOK, RowTypes, WriterTypes
<1>0. CASE UNCHANGED vars
  BY <1>0 DEF vars
<1>1. ASSUME NEW w \in Writers, NEW t \in Targets, Learn(w, t) PROVE ClaimInv'
  BY <1>t, <1>1 DEF Learn
<1>2. ASSUME NEW w \in Writers, NEW t \in Targets, Routed(w, t) PROVE ClaimInv'
  BY <1>t, <1>2 DEF Routed
<1>3. ASSUME NEW w \in Writers, LearnPush(w) PROVE ClaimInv'
  BY <1>t, <1>3, ClaimRecord DEF LearnPush, Claimable
<1>4. ASSUME NEW w \in Writers, LearnDone(w) PROVE ClaimInv'
  BY <1>t, <1>4 DEF LearnDone
<1>5. ASSUME NEW w \in Writers, RoutedSave(w) PROVE ClaimInv'
  BY <1>t, <1>5 DEF RoutedSave
<1>6. ASSUME NEW w \in Writers, Flush(w) PROVE ClaimInv'
  BY <1>t, <1>6 DEF Flush, ToRetire, ToPush
<1>7. ASSUME NEW w \in Writers, FlushRetire(w) PROVE ClaimInv'
  BY <1>t, <1>7 DEF FlushRetire, ToPush
<1>8. ASSUME NEW w \in Writers, FlushKey(w) PROVE ClaimInv'
  BY <1>t, <1>8 DEF FlushKey, ToRetire, ToPush
<1>9. ASSUME NEW w \in Writers, FlushClaim(w) PROVE ClaimInv'
  BY <1>t, <1>9, ClaimRecord DEF FlushClaim, Skip, Claimable
<1>10. ASSUME NEW w \in Writers, FlushCheck(w) PROVE ClaimInv'
  BY <1>t, <1>10 DEF FlushCheck, Skip
<1>11. ASSUME NEW w \in Writers, FlushDefer(w) PROVE ClaimInv'
  BY <1>t, <1>11 DEF FlushDefer, Skip
<1>12. ASSUME NEW w \in Writers, Merge(w) PROVE ClaimInv'
  BY <1>t, <1>12 DEF Merge
<1>13. ASSUME NEW w \in Writers, Release(w) PROVE ClaimInv'
  BY <1>t, <1>13 DEF Release, Forgotten
<1>14. ASSUME NEW w \in Writers, Serve(w) PROVE ClaimInv'
  BY <1>t, <1>14 DEF Serve
<1>15. ASSUME NEW w \in Writers, Deliver(w) PROVE ClaimInv'
  BY <1>t, <1>15 DEF Deliver
<1>16. ASSUME NEW w \in Writers, GiveUp(w) PROVE ClaimInv'
  BY <1>t, <1>16 DEF GiveUp, Waiting
<1>17. ASSUME NEW w \in Writers, SaveFails(w) PROVE ClaimInv'
  BY <1>t, <1>17 DEF SaveFails
<1>18. ASSUME NEW w \in Writers, Crash(w) PROVE ClaimInv'
  BY <1>t, <1>18 DEF Crash, Forgotten
<1>19. ASSUME NEW q \in late, ServeLate(q) PROVE ClaimInv'
  BY <1>t, <1>19 DEF ServeLate
<1>20. ASSUME NEW q \in late, Lost(q) PROVE ClaimInv'
  BY <1>t, <1>20 DEF Lost
<1>21. CASE Forget
  BY <1>t, <1>21 DEF Forget, writerVars
<1>22. CASE ForgetRemoteOnly
  BY <1>t, <1>22 DEF ForgetRemoteOnly, writerVars
<1>23. CASE Rescope
  BY <1>t, <1>23 DEF Rescope, writerVars
<1>24. CASE RescopeAway
  BY <1>t, <1>24 DEF RescopeAway, writerVars
<1>25. CASE Upload
  BY <1>t, <1>25 DEF Upload, writerVars
<1>26. CASE Read
  BY <1>t, <1>26 DEF Read, writerVars
<1>27. CASE Lapse
  BY <1>t, <1>27, ClaimRecord DEF Lapse
<1>28. ASSUME NEW s \in Scopes, Update(s) PROVE ClaimInv'
  BY <1>t, <1>28 DEF Update, writerVars
<1>29. ASSUME NEW t \in Targets, Tighten(t) PROVE ClaimInv'
  BY <1>t, <1>29 DEF Tighten, writerVars
<1>30. ASSUME NEW w \in Writers, LearnFailed(w) PROVE ClaimInv'
  BY <1>t, <1>30 DEF LearnFailed
<1>31. ASSUME NEW w \in Writers, NoteFails(w) PROVE ClaimInv'
  BY <1>t, <1>31 DEF NoteFails, Forgotten
<1> QED
  BY <1>0, <1>1, <1>2, <1>3, <1>4, <1>5, <1>6, <1>7, <1>8, <1>9, <1>10, <1>11,
     <1>12, <1>13, <1>14, <1>15, <1>16, <1>17, <1>18, <1>19, <1>20, <1>21, <1>22,
     <1>23, <1>24, <1>25, <1>26, <1>27, <1>28, <1>29,
     <1>30, <1>31 DEF Next, Step, User

\* Decision C3: two writers never push the entry at once (learn's background
\* push and flushOutbox), if a claim does not lapse under a live owner.
THEOREM OnePusherAtATime == ASSUME ~MayLapse PROVE Spec => []OnePusher
<1>1. Init => TypeOK /\ ClaimInv
  BY TypeInit DEF Init, ClaimInv, Claiming, Pushing
<1>2. (TypeOK /\ ClaimInv) /\ [Next]_vars => (TypeOK /\ ClaimInv)'
  BY TypeStep, ClaimStep
<1>3. TypeOK /\ ClaimInv => OnePusher
  BY DEF ClaimInv, OnePusher, Claiming, Mine
<1> QED
  BY <1>1, <1>2, <1>3, PTL DEF Spec

----------------------------------------------------------------------------
(* No write is lost *)

\* The requests a server may still get: of a writer that waits, or given up on.
Asked == late \union {Request(w) : w \in {v \in Writers : pc[v] \in Waiting}}

\* Those are requests.
LEMMA AskedType == TypeOK => Asked \subseteq Requests
BY RequestType DEF TypeOK, ServerTypes, Asked

\* What a step may do to a copy: keep it, retire it for a row somebody has read
\* that owes the retirement, note or forget that a client knows of it, or store it
\* for a request.
Kept(i) == /\ Stored(i) /\ Stored(i)'
           /\ copies'[i].t = copies[i].t
           /\ copies'[i].live => copies[i].live
           /\ copies[i].live => copies'[i].live \/ \E w \in Writers : Owes(snap[w])
\* The id a new copy gets.
NextId(q) == <<ServerOf[q.t], q.key, Cardinality(CopiesOf(ServerOf[q.t], q.key)) + 1>>
StoredFor(i, q) == /\ ~Known(q) /\ i = NextId(q)
                   /\ Stored(i)' /\ copies'[i].live /\ ~copies'[i].known /\ copies'[i].t = q.t

\* A POST does nothing, or it adds a live copy that nobody knows of.
LEMMA StoreAdds ==
  ASSUME TypeOK, NEW q \in Requests, Store(q), NEW i \in Ids
  PROVE  copies'[i] = copies[i] \/ StoredFor(i, q)
<1>1. CASE Known(q)
  BY <1>1 DEF Store
<1>2. CASE ~Known(q)
  <2> DEFINE c == [t |-> q.t, ver |-> q.ver, live |-> TRUE, known |-> FALSE]
  <2>1. IdFor(q) = NextId(q) /\ IdFor(q) \in Ids
    BY <1>2 DEF IdFor, NextId, Store
  <2>2. copies' = [copies EXCEPT ![NextId(q)] = c] /\ copies \in [Ids -> Copies \union {None}]
    BY <1>2, <2>1 DEF Store, TypeOK, ServerTypes
  <2>3. CASE i = NextId(q)
    <3>1. copies'[i] = c
      BY <2>1, <2>2, <2>3
    <3>2. c \in Copies /\ c.live /\ ~c.known /\ c.t = q.t
      BY DEF Copies, Requests
    <3> HIDE DEF c
    <3> QED
      BY <1>2, <2>3, <3>1, <3>2, CopyRecord DEF StoredFor, Stored
  <2>4. CASE i # NextId(q)
    BY <2>1, <2>2, <2>4
  <2> QED
    BY <2>3, <2>4
<1> QED
  BY <1>1, <1>2

\* Retiring a copy, or what a client knows of it, changes nothing else.
LEMMA CopyTouchedOnly ==
  ASSUME TypeOK, NEW i \in Ids, Stored(i), NEW b \in BOOLEAN, NEW j \in Ids
  PROVE  /\ copies' = [copies EXCEPT ![i].known = b] =>
              IF Stored(j)
                THEN /\ Stored(j)' /\ copies'[j].t = copies[j].t /\ copies'[j].live = copies[j].live
                     /\ copies'[j].known = IF j = i THEN b ELSE copies[j].known
                ELSE ~Stored(j)'
         /\ copies' = [copies EXCEPT ![i].live = b] =>
              IF Stored(j)
                THEN /\ Stored(j)' /\ copies'[j].t = copies[j].t /\ copies'[j].known = copies[j].known
                     /\ copies'[j].live = IF j = i THEN b ELSE copies[j].live
                ELSE ~Stored(j)'
<1>1. copies \in [Ids -> Copies \union {None}] /\ copies[i] \in Copies /\ (Stored(j) => copies[j] \in Copies)
  BY DEF TypeOK, ServerTypes, Stored
<1>2. ASSUME NEW c \in Copies
      PROVE  /\ [c EXCEPT !.live = b] \in Copies /\ [c EXCEPT !.known = b] \in Copies
             /\ [c EXCEPT !.live = b].live = b /\ [c EXCEPT !.live = b].t = c.t /\ [c EXCEPT !.live = b].known = c.known
             /\ [c EXCEPT !.known = b].known = b /\ [c EXCEPT !.known = b].t = c.t /\ [c EXCEPT !.known = b].live = c.live
  BY DEF Copies
<1>3. ASSUME copies' = [copies EXCEPT ![i].known = b]
      PROVE  copies'[j] = IF j = i THEN [copies[i] EXCEPT !.known = b] ELSE copies[j]
  BY <1>1, <1>3
<1>4. ASSUME copies' = [copies EXCEPT ![i].live = b]
      PROVE  copies'[j] = IF j = i THEN [copies[i] EXCEPT !.live = b] ELSE copies[j]
  BY <1>1, <1>4
<1> QED
  BY <1>1, <1>2, <1>3, <1>4, CopyRecord DEF Stored

\* Every step does one of these.
LEMMA CopyStep ==
  ASSUME TypeOK, [Next]_vars, NEW i \in Ids
  PROVE  /\ Stored(i) => Stored(i)'
         /\ Stored(i)' => Kept(i) \/ \E q \in Asked : StoredFor(i, q)
<1> USE DEF Kept
<1>0. CASE UNCHANGED copies
  BY <1>0 DEF Stored
<1>1. ASSUME NEW w \in Writers, Serve(w) PROVE copies'[i] = copies[i] \/ \E q \in Asked : StoredFor(i, q)
  <2>1. Request(w) \in Requests /\ Request(w) \in Asked
    BY <1>1, RequestType DEF Serve, TypeOK, Asked
  <2> QED
    BY <1>1, <2>1, StoreAdds DEF Serve
<1>2. ASSUME NEW q \in late, ServeLate(q) PROVE copies'[i] = copies[i] \/ \E r \in Asked : StoredFor(i, r)
  <2>1. q \in Requests /\ q \in Asked
    BY DEF TypeOK, ServerTypes, Asked
  <2> QED
    BY <1>2, <2>1, StoreAdds DEF ServeLate
<1>3. ASSUME NEW w \in Writers, Deliver(w) PROVE IF Stored(i) THEN Kept(i) ELSE ~Stored(i)'
  <2>1. reply[w] \in Ids /\ Stored(reply[w])
    BY <1>3 DEF Deliver, TypeOK, WriterTypes, Answered
  <2>2. copies' = [copies EXCEPT ![reply[w]].known = TRUE]
    BY <1>3 DEF Deliver
  <2> QED
    BY <1>3, <2>1, <2>2, CopyTouchedOnly
<1>4. ASSUME NEW w \in Writers, SaveFails(w) \/ Crash(w)
      PROVE  IF Stored(i) THEN Kept(i) ELSE ~Stored(i)'
  <2>1. CASE got[w] = None
    BY <1>4, <2>1 DEF SaveFails, Crash, Stored
  <2>2. CASE got[w] # None
    <3>1. got[w] \in Ids /\ Stored(got[w])
      BY <2>2 DEF TypeOK, WriterTypes, Answered
    <3>2. copies' = [copies EXCEPT ![got[w]].known = FALSE]
      BY <1>4, <2>2 DEF SaveFails, Crash
    <3> QED
      BY <1>4, <3>1, <3>2, CopyTouchedOnly
  <2> QED
    BY <2>1, <2>2
<1>5. ASSUME NEW w \in Writers, FlushRetire(w) PROVE IF Stored(i) THEN Kept(i) ELSE ~Stored(i)'
  <2>1. Owes(snap[w]) /\ snap[w].owe \in Ids /\ Stored(snap[w].owe)
    BY <1>5, RowRecord DEF FlushRetire, TypeOK, SetUp, Answered, Owes, WriterTypes
  <2>2. CASE copies' = copies
    BY <1>5, <2>2 DEF Stored
  <2>3. CASE copies' = [copies EXCEPT ![snap[w].owe].live = FALSE]
    BY <1>5, <2>1, <2>3, CopyTouchedOnly
  <2> QED
    BY <1>5, <2>2, <2>3 DEF FlushRetire
<1>6. ASSUME Stored(i)', ~Stored(i) PROVE copies'[i] # copies[i]
  BY <1>6 DEF Stored
<1>7. \/ UNCHANGED copies
      \/ \E w \in Writers : Serve(w) \/ Deliver(w) \/ SaveFails(w) \/ Crash(w) \/ FlushRetire(w)
      \/ \E q \in late : ServeLate(q)
  <2>1. CASE \E w \in Writers : Step(w)
    BY <2>1 DEF Step, LearnPush, LearnDone, LearnFailed, RoutedSave, Flush, FlushKey, FlushClaim,
       FlushCheck, FlushDefer, Merge, Release, serverVars
  <2>2. CASE \E w \in Writers : GiveUp(w) \/ NoteFails(w) \/ \E t \in Targets : Learn(w, t) \/ Routed(w, t)
    BY <2>2 DEF GiveUp, NoteFails, Learn, Routed, serverVars
  <2>3. CASE User
    BY <2>3 DEF User, Forget, ForgetRemoteOnly, Rescope, RescopeAway, Upload, Read,
       Update, Tighten, serverVars
  <2>4. CASE Lapse \/ (\E q \in late : Lost(q)) \/ UNCHANGED vars
    BY <2>4 DEF Lapse, Lost, serverVars, vars
  <2> QED
    BY <2>1, <2>2, <2>3, <2>4 DEF Next
<1>8. Stored(i) /\ copies'[i] = copies[i] => Kept(i)
  BY DEF Stored
<1>9. \A q \in Asked : StoredFor(i, q) => Stored(i)'
  BY DEF StoredFor
<1>10. Kept(i) => Stored(i) /\ Stored(i)'
  OBVIOUS
<1> HIDE DEF Kept
<1> QED
  BY <1>0, <1>1, <1>2, <1>3, <1>4, <1>5, <1>6, <1>7, <1>8, <1>9, <1>10

\* What the handlers make of the fields of a row, one kind of change at a time: a retirement owed,
LEMMA WithOwe ==
  ASSUME NEW r \in Rows, NEW i \in Ids \union {None}, NEW u, u = [r EXCEPT !.owe = i]
  PROVE  /\ u \in Rows /\ u # NoRow
         /\ u.st = r.st /\ u.at = r.at /\ u.ob = r.ob /\ u.key = r.key /\ u.owe = i
<1>1. u \in Rows
  BY DEF Rows
<1>2. u.st = r.st /\ u.at = r.at /\ u.ob = r.ob /\ u.key = r.key /\ u.owe = i
  BY DEF Rows
<1> QED
  BY <1>1, <1>2, RowRecord

\* ... a key,
LEMMA WithKey ==
  ASSUME NEW r \in Rows, NEW k \in Keys, NEW u, u = [r EXCEPT !.key = k]
  PROVE  /\ u \in Rows /\ u # NoRow
         /\ u.st = r.st /\ u.at = r.at /\ u.ob = r.ob /\ u.key = k /\ u.owe = r.owe
<1>1. u \in Rows
  BY DEF Rows
<1>2. u.st = r.st /\ u.at = r.at /\ u.ob = r.ob /\ u.key = k /\ u.owe = r.owe
  BY DEF Rows
<1> QED
  BY <1>1, <1>2, RowRecord

\* ... no outbox entry,
LEMMA WithoutEntry ==
  ASSUME NEW r \in Rows, NEW u,
         u = [Unqueued(r) EXCEPT !.at = Local] \/ u = [Unqueued(r) EXCEPT !.st = "retired"]
  PROVE  /\ u \in Rows /\ u # NoRow /\ u.ob = None /\ u.key = NoKey /\ u.owe = r.owe
         /\ u = [Unqueued(r) EXCEPT !.at = Local] => u.st = r.st /\ u.at = Local
         /\ u = [Unqueued(r) EXCEPT !.st = "retired"] => u.st = "retired" /\ u.at = r.at
<1>1. u \in Rows
  BY LocalScope DEF Rows, Unqueued
<1>2. u.ob = None /\ u.key = NoKey /\ u.owe = r.owe
  BY DEF Rows, Unqueued
<1>3. u = [Unqueued(r) EXCEPT !.at = Local] => u.st = r.st /\ u.at = Local
  BY DEF Rows, Unqueued
<1>4. u = [Unqueued(r) EXCEPT !.st = "retired"] => u.st = "retired" /\ u.at = r.at
  BY DEF Rows, Unqueued
<1> QED
  BY <1>1, <1>2, <1>3, <1>4, RowRecord

\* ... or the row retired.
LEMMA RetiredRow ==
  ASSUME NEW r \in Rows, NEW u, u = [r EXCEPT !.st = "retired"]
  PROVE  /\ u \in Rows /\ u # NoRow
         /\ u.st = "retired" /\ u.at = r.at /\ u.ob = r.ob /\ u.key = r.key /\ u.owe = r.owe
<1>1. u \in Rows
  BY DEF Rows
<1>2. u.st = "retired" /\ u.at = r.at /\ u.ob = r.ob /\ u.key = r.key /\ u.owe = r.owe
  BY DEF Rows
<1> QED
  BY <1>1, <1>2, RowRecord

\* Striking off what is done leaves the rest of the row.
LEMMA StruckOffRow ==
  ASSUME NEW r \in Rows, NEW w \in Writers, NEW u, u = StruckOff(r, w)
  PROVE  /\ u \in Rows /\ u # NoRow
         /\ u.st = r.st /\ u.at = r.at /\ u.ob = r.ob /\ u.key = r.key
         /\ u.owe = r.owe \/ (u.owe = None /\ gone[w] /\ r.owe = snap[w].owe)
<1>1. CASE gone[w] /\ r.owe = snap[w].owe
  <2>1. u = [r EXCEPT !.owe = None]
    BY <1>1, RowRecord DEF StruckOff
  <2> QED
    BY <1>1, <2>1, WithOwe
<1>2. CASE ~(gone[w] /\ r.owe = snap[w].owe)
  BY <1>2, RowRecord DEF StruckOff
<1> QED
  BY <1>1, <1>2

\* What the merge-back makes of the row.
LEMMA MergeRow ==
  ASSUME TypeOK, NEW w \in Writers, Merge(w), row # NoRow
  PROVE  \/ row' = NoRow /\ got[w] # None /\ HandedOff(w)
         \/ /\ ~(got[w] # None /\ HandedOff(w))
            /\ row' \in Rows /\ row' # NoRow /\ row'.st = row.st
            /\ IF got[w] = None /\ demoted[w] /\ Queued(row)
                 THEN row'.at = Local /\ row'.ob = None /\ row'.key = NoKey
                 ELSE row'.at = row.at /\ row'.ob = row.ob /\ row'.key = row.key
            /\ LET owe == IF got[w] # None THEN got[w] ELSE row.owe
               IN row'.owe = owe \/ (row'.owe = None /\ gone[w] /\ owe = snap[w].owe)
<1>0. row \in Rows /\ got[w] \in Ids \union {None}
  BY DEF TypeOK, RowTypes, WriterTypes
<1>1. row' = StruckOff(Merged(w), w)
  BY DEF Merge
<1>2. CASE got[w] # None /\ HandedOff(w)
  BY <1>1, <1>2 DEF StruckOff, Merged
<1>3. CASE got[w] # None /\ ~HandedOff(w)
  <2>1. Merged(w) = [row EXCEPT !.owe = got[w]]
    BY <1>3 DEF Merged, QueueRetire
  <2> DEFINE m == Merged(w)
  <2>2. m \in Rows /\ m.st = row.st /\ m.at = row.at /\ m.ob = row.ob /\ m.key = row.key /\ m.owe = got[w]
    BY <1>0, <2>1, WithOwe
  <2>3. row' = StruckOff(m, w)
    BY <1>1
  <2> HIDE DEF m
  <2> QED
    BY <1>3, <2>2, <2>3, StruckOffRow
<1>4. CASE got[w] = None /\ demoted[w] /\ Queued(row)
  <2>1. Merged(w) = [Unqueued(row) EXCEPT !.at = Local]
    BY <1>4 DEF Merged
  <2> DEFINE m == Merged(w)
  <2>2. m \in Rows /\ m.st = row.st /\ m.at = Local /\ m.ob = None /\ m.key = NoKey /\ m.owe = row.owe
    BY <1>0, <2>1, WithoutEntry
  <2>3. row' = StruckOff(m, w)
    BY <1>1
  <2> HIDE DEF m
  <2> QED
    BY <1>4, <2>2, <2>3, StruckOffRow
<1>5. CASE got[w] = None /\ ~(demoted[w] /\ Queued(row))
  <2>1. row' = StruckOff(row, w)
    BY <1>1, <1>5 DEF Merged
  <2> QED
    BY <1>0, <1>5, <2>1, StruckOffRow
<1> QED
  BY <1>2, <1>3, <1>4, <1>5

\* What the keying of a row makes of it, and of the snapshot.
LEMMA FlushKeyRow ==
  ASSUME TypeOK, NEW w \in Writers, FlushKey(w), ~UNCHANGED <<row, keys, snap>>
  PROVE  /\ row # NoRow /\ row.ob # None /\ row' # NoRow
         /\ row'.st = row.st /\ row'.at = row.at /\ row'.ob = row.ob /\ row'.owe = row.owe
         /\ row'.key \in Keys
         /\ IF row.key = NoKey THEN row'.key = keys + 1 /\ keys' = keys + 1 ELSE row' = row /\ keys' = keys
         /\ \A v \in Writers \ {w} : snap'[v] = snap[v]
         /\ LET s == snap'[w]
            IN /\ s # NoRow /\ s.st = snap[w].st /\ s.at = snap[w].at /\ s.ob = snap[w].ob
               /\ s.key = row'.key /\ s.owe = snap[w].owe
<1>0. row \in Rows /\ snap \in [Writers -> Rows \union {NoRow}] /\ snap[w] \in Rows /\ row.ob # None /\ keys \in 0..MaxKeys
  BY DEF FlushKey, TypeOK, RowTypes, WriterTypes, SetUp
<1>1. /\ row.key = NoKey => keys < MaxKeys
      /\ keys' = IF row.key = NoKey THEN keys + 1 ELSE keys
      /\ row' = IF row.key = NoKey THEN [row EXCEPT !.key = keys'] ELSE row
      /\ snap' = [snap EXCEPT ![w] = [snap[w] EXCEPT !.key = row'.key]]
  BY DEF FlushKey
<1>4. row'.key \in Keys /\ row' # NoRow
  <2>1. CASE row.key = NoKey
    <3>1. keys' = keys + 1 /\ keys' \in Keys /\ row' = [row EXCEPT !.key = keys']
      BY <1>0, <1>1, <2>1, OutboxAssumption DEF Keys
    <3> QED
      BY <1>0, <3>1, WithKey
  <2>2. CASE row.key # NoKey
    BY <1>0, <1>1, <2>2, RowRecord
  <2> QED
    BY <2>1, <2>2
<1>5. snap'[w] = [snap[w] EXCEPT !.key = row'.key] /\ \A v \in Writers \ {w} : snap'[v] = snap[v]
  BY <1>0, <1>1
<1>6. LET s == snap'[w]
      IN /\ s # NoRow /\ s.st = snap[w].st /\ s.at = snap[w].at /\ s.ob = snap[w].ob
         /\ s.key = row'.key /\ s.owe = snap[w].owe
  BY <1>0, <1>4, <1>5, WithKey
<1>7. /\ row'.st = row.st /\ row'.at = row.at /\ row'.ob = row.ob /\ row'.owe = row.owe
      /\ IF row.key = NoKey THEN row'.key = keys + 1 /\ keys' = keys + 1 ELSE row' = row /\ keys' = keys
  <2>1. CASE row.key = NoKey
    <3>1. keys' = keys + 1 /\ keys' \in Keys /\ row' = [row EXCEPT !.key = keys']
      BY <1>0, <1>1, <2>1, OutboxAssumption DEF Keys
    <3> QED
      BY <1>0, <2>1, <3>1, WithKey
  <2>2. CASE row.key # NoKey
    BY <1>0, <1>1, <2>2, RowRecord
  <2> QED
    BY <2>1, <2>2
<1> QED
  BY <1>0, <1>4, <1>5, <1>6, <1>7, RowRecord

\* What an upload makes of the row.
LEMMA UploadRow ==
  ASSUME TypeOK, Upload
  PROVE  /\ row \in Rows /\ row # NoRow /\ row.st = "active" /\ row.at \in Targets /\ row' # NoRow
         /\ row'.st = row.st /\ row'.owe = row.owe
         /\ \/ /\ row'.at = Local /\ row'.ob = None /\ row'.key = NoKey
               /\ want' = [want EXCEPT !.at = Local] /\ keys' = keys
            \/ /\ row.ob = None /\ row'.at = row.at /\ row'.ob = row.at /\ row'.key = keys'
               /\ keys' = keys + 1 /\ want' = want
<1>0. row \in Rows /\ row # NoRow /\ row.st = "active" /\ row.at \in Targets /\ keys \in 0..MaxKeys
  BY DEF Upload, TypeOK, RowTypes
<1>1. CASE row' = [Unqueued(row) EXCEPT !.at = Local] /\ want' = [want EXCEPT !.at = Local] /\ UNCHANGED keys
  BY <1>0, <1>1, WithoutEntry
<1>2. CASE /\ row.ob = None /\ keys < MaxKeys /\ keys' = keys + 1
           /\ row' = [row EXCEPT !.ob = row.at, !.key = keys'] /\ UNCHANGED want
  <2>1. keys' \in Keys
    BY <1>0, <1>2, OutboxAssumption DEF Keys
  <2>2. row' \in Rows
    BY <1>0, <1>2, <2>1 DEF Rows
  <2>3. row'.st = row.st /\ row'.at = row.at /\ row'.ob = row.at /\ row'.key = keys' /\ row'.owe = row.owe
    BY <1>0, <1>2 DEF Rows
  <2> QED
    BY <1>0, <1>2, <2>2, <2>3, RowRecord
<1> QED
  BY <1>1, <1>2 DEF Upload

\* The delivery of an engram's one key, where no row is rewritten from an old read
\* (updateEngram), rests on what follows.  Every place that names a target names the
\* same one, there is one key, and a row that still is queued is in place; a
\* retirement is owed only once the row is closed: forgotten or made local.
Closed(r) == r # NoRow /\ (r.st = "retired" \/ r.at = Local)
\* Row, snapshots and user are about target t ...
OneTarget(t) ==
  /\ row # NoRow => row.at \in {t, Local} /\ row.ob \in {t, None}
  /\ \A w \in Writers : snap[w] # NoRow => snap[w].ob \in {t, None}
  /\ want.at \in {t, Local, None}
\* ... and about the one key;
OneKey ==
  /\ keys <= 1
  /\ row # NoRow => row.key <= keys /\ (row.ob # None => row.key = keys)
  /\ \A w \in Writers : snap[w] # NoRow => snap[w].key <= keys
\* a queued row is where the user put it, and a row that has lost its key is closed;
InPlace ==
  /\ Queued(row) => row.at = row.ob
  /\ row # NoRow /\ row.st = "active" => want.at = row.at
  /\ row # NoRow /\ row.ob = None /\ keys > 0 => Closed(row)
\* who owes a retirement has a closed row;
OwedClosed ==
  /\ Owes(row) => Closed(row)
  /\ \A w \in Writers : Owes(snap[w]) => Closed(row)
\* a direct push has the engram for itself;
RoutedAlone ==
  \A w \in Writers : pc[w] \in {"routedWait", "routedSave"} =>
     /\ row = NoRow /\ want.at = None /\ snap[w].at = snap[w].ob /\ snap[w].owe = None
     /\ \A v \in Writers \ {w} : snap[v] = NoRow
\* an answer is in hand only between its arrival and the hand-off.
InHand ==
  \A w \in Writers :
    /\ pc[w] = "idle" => snap[w] = NoRow
    /\ pc[w] = "learnDone" => got[w] # None
    /\ got[w] # None => pc[w] \in {"learnDone", "merge"} /\ snap[w].ob # None /\ snap[w].key # NoKey
WriterInv(t) == OneTarget(t) /\ OneKey /\ InPlace /\ OwedClosed /\ RoutedAlone /\ InHand

\* What a step keeps of it: a closed row stays closed, and a row goes only for a copy.
Progress(t) ==
  /\ WriterInv(t)'
  /\ keys <= keys'
  /\ Closed(row) => Closed(row)'
  /\ row' = NoRow /\ want'.at \in Targets =>
       \/ row = NoRow /\ want.at \in Targets
       \/ \E i \in Ids : Stored(i)

\* What an update makes of the row of a remote-only folder: new content, nothing else.
LEMMA UpdateRow ==
  ASSUME TypeOK, RemoteOnly, RemoteOnlyInv, NEW s \in Scopes, Update(s), row # NoRow
  PROVE  /\ row' # NoRow /\ row'.st = row.st /\ row'.at = row.at /\ row'.ob = row.ob
         /\ row'.key = row.key /\ row'.owe = row.owe /\ want'.at = row.at
         /\ row.st = "active" /\ row.ob # None /\ row.at \in Targets
         /\ UNCHANGED <<keys, pc, snap, got>>
<1>1. row \in Rows /\ row.st = "active" /\ row.ob # None /\ row.at \in Targets /\ Queued(row)
  BY DEF TypeOK, RowTypes, RemoteOnlyInv, Queued
<1>2. row' = Reconciled(row.at) /\ want' = [at |-> row.at, ver |-> ops + 1]
  BY <1>1, OutboxAssumption DEF Update
<1>3. row' = [st |-> "active", at |-> row.at, ob |-> row.ob, key |-> row.key, owe |-> row.owe, ver |-> ops + 1]
  BY <1>1, <1>2 DEF Reconciled
<1>4. ops + 1 \in Edits
  BY OutboxAssumption DEF Update, UserOp, TypeOK, UserTypes, Edits
<1>5. row' \in Rows
  <2> DEFINE n == ops + 1
  <2>1. n \in Edits /\ row' = [st |-> "active", at |-> row.at, ob |-> row.ob, key |-> row.key, owe |-> row.owe, ver |-> n]
    BY <1>3, <1>4
  <2>2. row.at \in Scopes /\ row.ob \in Targets \union {None} /\ row.key \in Keys \union {NoKey} /\ row.owe \in Ids \union {None}
    BY <1>1, RowRecord
  <2> HIDE DEF n
  <2> QED
    BY <2>1, <2>2 DEF Rows
<1>6. UNCHANGED <<keys, pc, snap, got>>
  BY DEF Update, writerVars
<1> QED
  BY <1>1, <1>2, <1>3, <1>5, <1>6, RowRecord

\* No update moves the row, or gives it back an entry it has lost: there are none,
\* or the folder is remote-only, where a queued row keeps its place and its entry.
Unmoved == "update" \notin Ops \/ (RemoteOnly /\ RemoteOnlyInv)

\* Every step but the birth of an engram keeps it.
LEMMA WriterStep ==
  ASSUME TypeOK, Unmoved, NEW t \in Targets, WriterInv(t),
         [Next]_vars,
         ~\E w \in Writers, u \in Targets : Learn(w, u) \/ Routed(w, u)
  PROVE  Progress(t)
<1> USE OutboxAssumption DEF Goto, UserOp, flushVars, serverVars, userVars, writerVars, faults, Progress, WriterInv, OneTarget, OneKey, InPlace, OwedClosed, RoutedAlone, InHand, Closed, Owes, Queued
<1>t. /\ row \in Rows \union {NoRow} /\ keys \in 0..MaxKeys
      /\ pc \in [Writers -> Stages] /\ snap \in [Writers -> Rows \union {NoRow}]
      /\ got \in [Writers -> Ids \union {None}]
      /\ want \in [at : Scopes \union {None}, ver : Edits]
  BY DEF TypeOK, RowTypes, WriterTypes, UserTypes
<1>s. /\ \A w \in Writers : pc[w] # "idle" => snap[w] # NoRow
      /\ \A w \in Writers : pc[w] = "flushKey" => Queued(snap[w])
      /\ \A w \in Writers : pc[w] \in ToBePushed => Queued(snap[w]) /\ snap[w].key # NoKey
  BY DEF TypeOK, SetUp
<1>0. CASE UNCHANGED vars
  BY <1>0, <1>t, <1>s DEF vars
<1>3. ASSUME NEW w \in Writers, LearnPush(w) PROVE Progress(t)
  BY <1>t, <1>s, <1>3 DEF LearnPush
<1>4. ASSUME NEW w \in Writers, LearnDone(w) PROVE Progress(t)
  <2>0. got[w] \in Ids /\ Stored(got[w]) /\ snap[w].ob = t /\ snap[w].key # NoKey /\ keys = 1
    <3>1. pc[w] = "learnDone"
      BY <1>4 DEF LearnDone
    <3>2. got[w] # None => Stored(got[w])
      BY DEF TypeOK, Answered
    <3> QED
      BY <1>t, <1>s, <3>1, <3>2, RowRecord DEF NoKey, Keys
  <2>1. UNCHANGED <<keys, snap, want>> /\ pc' = [pc EXCEPT ![w] = "release"] /\ got' = [got EXCEPT ![w] = None]
    BY <1>4 DEF LearnDone
  <2>2. CASE row = NoRow
    <3>1. row' = row
      BY <1>4, <2>2 DEF LearnDone
    <3> QED
      BY <1>t, <1>s, <1>4, <2>0, <2>1, <2>2, <3>1 DEF LearnDone
  <2>3. CASE row # NoRow /\ Queued(row)
    <3>1. row' = NoRow /\ ~Closed(row)
      BY <1>4, <1>t, <2>0, <2>3, RowRecord DEF LearnDone, QueuedFor
    <3> QED
      BY <1>t, <1>s, <1>4, <2>0, <2>1, <2>3, <3>1 DEF LearnDone
  <2>4. CASE row # NoRow /\ ~Queued(row)
    <3>0. row' = [row EXCEPT !.owe = got[w]] /\ row \in Rows
      BY <1>4, <1>t, <2>4 DEF LearnDone, QueuedFor, QueueRetire
    <3>1. row' # NoRow /\ row'.st = row.st /\ row'.at = row.at /\ row'.ob = row.ob /\ row'.key = row.key
      BY <2>0, <3>0, WithOwe
    <3>2. Closed(row)
      BY <1>t, <2>0, <2>4, RowRecord
    <3> QED
      BY <1>t, <1>s, <1>4, <2>0, <2>1, <2>4, <3>1, <3>2 DEF LearnDone
  <2> QED
    BY <2>2, <2>3, <2>4
<1>5. ASSUME NEW w \in Writers, RoutedSave(w) PROVE Progress(t)
  <2>0. /\ snap[w] \in Rows /\ Queued(snap[w]) /\ snap[w].key # NoKey /\ snap[w].ob = t /\ snap[w].at = t
        /\ snap[w].owe = None /\ row = NoRow
    BY <1>t, <1>s, <1>5, RowRecord DEF RoutedSave, ToBePushed
  <2>1. snap[w].key = keys /\ keys = 1
    BY <1>t, <1>s, <1>5, <2>0, RowRecord DEF RoutedSave, NoKey, Keys
  <2>2. row' = snap[w] /\ want'.at = t /\ UNCHANGED <<keys, snap, got>> /\ pc' = [pc EXCEPT ![w] = "release"]
    BY <1>5, <2>0 DEF RoutedSave
  <2>3. \A v \in Writers \ {w} : snap[v] = NoRow
    BY <1>5 DEF RoutedSave
  <2> QED
    BY <1>t, <1>s, <1>5, <2>0, <2>1, <2>2, <2>3, RowRecord DEF RoutedSave
<1>6. ASSUME NEW w \in Writers, Flush(w) PROVE Progress(t)
  BY <1>t, <1>s, <1>6 DEF Flush, ToRetire, ToPush
<1>7. ASSUME NEW w \in Writers, FlushRetire(w) PROVE Progress(t)
  BY <1>t, <1>s, <1>7 DEF FlushRetire, ToPush
<1>8. ASSUME NEW w \in Writers, FlushKey(w) PROVE Progress(t)
  <2>0. snap[w] \in Rows /\ got[w] = None
    BY <1>t, <1>s, <1>8 DEF FlushKey
  <2>1. UNCHANGED <<got, want>>
    BY <1>8 DEF FlushKey
  <2>p. pc' = [pc EXCEPT ![w] = ToRetire(snap'[w])] /\ ToRetire(snap'[w]) \in {"flushRetire", "flushClaim", "merge", "release"}
    BY <1>8 DEF FlushKey, ToRetire, ToPush
  <2>2. CASE UNCHANGED <<row, keys, snap>>
    BY <1>t, <1>s, <1>8, <2>0, <2>1, <2>p, <2>2 DEF FlushKey
  <2>3. CASE ~UNCHANGED <<row, keys, snap>>
    <3>1. /\ row # NoRow /\ row.ob # None /\ row' # NoRow
          /\ row'.st = row.st /\ row'.at = row.at /\ row'.ob = row.ob /\ row'.owe = row.owe
      BY <1>8, <2>3, FlushKeyRow
    <3>2. row'.key \in Keys /\ row'.key = keys' /\ keys' = 1 /\ keys <= 1
      BY <1>8, <1>t, <2>3, FlushKeyRow DEF Keys, NoKey
    <3>3. /\ \A v \in Writers \ {w} : snap'[v] = snap[v]
          /\ LET s == snap'[w]
             IN /\ s # NoRow /\ s.st = snap[w].st /\ s.at = snap[w].at /\ s.ob = snap[w].ob
                /\ s.key = row'.key /\ s.owe = snap[w].owe
      BY <1>8, <2>3, FlushKeyRow
    <3>4. snap[w] # NoRow
      BY <2>0, RowRecord
    <3>5. pc[w] = "flushKey"
      BY <1>8 DEF FlushKey
    <3>6. OneTarget(t)'
      BY <1>t, <2>1, <3>1, <3>3, <3>4
    <3>7. OneKey'
      <4>1. \A v \in Writers : snap[v] # NoRow => snap[v].key <= 1
        BY <1>t, RowRecord DEF Keys, NoKey
      <4> QED
        BY <1>t, <3>1, <3>2, <3>3, <4>1 DEF Keys
    <3>8. InPlace' /\ (Closed(row) => Closed(row)')
      BY <1>t, <2>1, <3>1, <3>2
    <3>9. OwedClosed'
      BY <1>t, <2>1, <3>1, <3>3, <3>4
    <3>10. RoutedAlone' /\ InHand'
      BY <1>t, <1>s, <2>0, <2>1, <2>p, <3>1, <3>3, <3>4, <3>5
    <3> QED
      BY <1>t, <3>1, <3>2, <3>6, <3>7, <3>8, <3>9, <3>10
  <2> QED
    BY <2>2, <2>3
<1>9. ASSUME NEW w \in Writers, FlushClaim(w) PROVE Progress(t)
  BY <1>t, <1>s, <1>9 DEF FlushClaim, Skip
<1>10. ASSUME NEW w \in Writers, FlushCheck(w) PROVE Progress(t)
  BY <1>t, <1>s, <1>10 DEF FlushCheck, Skip
<1>11. ASSUME NEW w \in Writers, FlushDefer(w) PROVE Progress(t)
  BY <1>t, <1>s, <1>11 DEF FlushDefer, Skip
<1>12. ASSUME NEW w \in Writers, Merge(w) PROVE Progress(t)
  <2>0. /\ UNCHANGED <<keys, snap>> /\ pc' = [pc EXCEPT ![w] = "release"] /\ got' = [got EXCEPT ![w] = None]
        /\ row' = StruckOff(Merged(w), w) /\ want' = IF row' # NoRow /\ row'.at # row.at THEN [want EXCEPT !.at = Local] ELSE want
    BY <1>12 DEF Merge
  <2>1. CASE row = NoRow
    <3>1. row' = NoRow /\ want' = want
      BY <2>0, <2>1 DEF StruckOff, Merged
    <3> QED
      BY <1>t, <1>s, <1>12, <2>0, <2>1, <3>1 DEF Merge
  <2>2. CASE row # NoRow /\ row' = NoRow
    <3>1. got[w] \in Ids /\ Stored(got[w]) /\ HandedOff(w)
      BY <1>12, <1>t, <2>2, MergeRow DEF TypeOK, Answered
    <3>2. want' = want /\ ~Closed(row)
      BY <1>t, <2>0, <2>2, <3>1, RowRecord DEF HandedOff, QueuedFor
    <3> QED
      BY <1>t, <1>s, <1>12, <2>0, <2>2, <3>1, <3>2 DEF Merge
  <2>3. CASE row # NoRow /\ row' # NoRow /\ got[w] # None
    <3>1. /\ ~HandedOff(w)
          /\ row'.st = row.st /\ row'.at = row.at /\ row'.ob = row.ob /\ row'.key = row.key
      BY <1>12, <2>3, MergeRow
    <3>2. keys = 1 /\ snap[w].key = keys /\ snap[w].ob = t
      BY <1>t, <1>s, <1>12, <2>3, RowRecord DEF Merge, NoKey, Keys
    <3>3. ~Queued(row)
      BY <1>t, <2>3, <3>1, <3>2, RowRecord DEF HandedOff, QueuedFor
    <3>4. Closed(row)
      BY <1>t, <2>3, <3>2, <3>3, RowRecord
    <3>5. want' = want
      BY <2>0, <3>1
    <3> QED
      BY <1>t, <1>s, <1>12, <2>0, <2>3, <3>1, <3>2, <3>4, <3>5 DEF Merge
  <2>4. CASE row # NoRow /\ row' # NoRow /\ got[w] = None /\ demoted[w] /\ Queued(row)
    <3>1. /\ row'.st = row.st /\ row'.at = Local /\ row'.ob = None /\ row'.key = NoKey
          /\ row'.owe \in {row.owe, None}
      BY <1>12, <2>4, MergeRow
    <3>2. row.at = t /\ t # Local
      BY <1>t, <2>4, RowRecord
    <3>3. want'.at = Local /\ ~Owes(row) /\ ~Owes(row')
      BY <1>t, <2>0, <2>4, <3>1, <3>2
    <3> QED
      BY <1>t, <1>s, <1>12, <2>0, <2>4, <3>1, <3>3 DEF Merge, NoKey
  <2>5. CASE row # NoRow /\ row' # NoRow /\ got[w] = None /\ ~(demoted[w] /\ Queued(row))
    <3>1. /\ row'.st = row.st /\ row'.at = row.at /\ row'.ob = row.ob /\ row'.key = row.key
          /\ row'.owe \in {row.owe, None}
      BY <1>12, <2>5, MergeRow
    <3>2. want' = want
      BY <2>0, <3>1
    <3> QED
      BY <1>t, <1>s, <1>12, <2>0, <2>5, <3>1, <3>2 DEF Merge
  <2> QED
    BY <2>1, <2>2, <2>3, <2>4, <2>5
<1>13. ASSUME NEW w \in Writers, Release(w) PROVE Progress(t)
  BY <1>t, <1>s, <1>13 DEF Release, Forgotten
<1>14. ASSUME NEW w \in Writers, Serve(w) PROVE Progress(t)
  BY <1>t, <1>s, <1>14 DEF Serve
<1>15. ASSUME NEW w \in Writers, Deliver(w) PROVE Progress(t)
  <2>0. UNCHANGED <<row, keys, snap>>
    BY <1>15 DEF Deliver
  <2>1. Queued(snap[w]) /\ snap[w].key # NoKey /\ snap[w].ob = t /\ reply[w] \in Ids /\ Stored(reply[w])
    BY <1>t, <1>s, <1>15 DEF Deliver, ToBePushed, TypeOK, WriterTypes, Answered
  <2>2. CASE pc[w] = "routedWait"
    <3>1. want'.at = t /\ UNCHANGED got /\ pc' = [pc EXCEPT ![w] = "release"] /\ row = NoRow
      BY <1>15, <2>1, <2>2 DEF Deliver
    <3>2. \A v \in Writers \ {w} : snap[v] = NoRow
      BY <2>2
    <3> QED
      BY <1>t, <1>s, <2>0, <2>1, <2>2, <3>1, <3>2
  <2>3. CASE pc[w] # "routedWait"
    <3>1. /\ UNCHANGED want /\ got' = [got EXCEPT ![w] = reply[w]]
          /\ pc' = [pc EXCEPT ![w] = IF pc[w] = "learnWait" THEN "learnDone" ELSE "merge"]
      BY <1>15, <2>3 DEF Deliver
    <3> QED
      BY <1>t, <1>s, <1>15, <2>0, <2>1, <2>3, <3>1, NoneAssumption DEF Deliver, Waiting
  <2> QED
    BY <2>2, <2>3
<1>16. ASSUME NEW w \in Writers, GiveUp(w) PROVE Progress(t)
  BY <1>t, <1>s, <1>16 DEF GiveUp, Waiting
<1>17. ASSUME NEW w \in Writers, SaveFails(w) PROVE Progress(t)
  BY <1>t, <1>s, <1>17 DEF SaveFails
<1>18. ASSUME NEW w \in Writers, Crash(w) PROVE Progress(t)
  BY <1>t, <1>s, <1>18 DEF Crash, Forgotten
<1>19. ASSUME NEW q \in late, ServeLate(q) PROVE Progress(t)
  BY <1>t, <1>s, <1>19 DEF ServeLate
<1>20. ASSUME NEW q \in late, Lost(q) PROVE Progress(t)
  BY <1>t, <1>s, <1>20 DEF Lost
<1>21. CASE Forget
  <2>0. row \in Rows /\ row # NoRow /\ row.st = "active"
    BY <1>t, <1>21 DEF Forget
  <2>1. row' # NoRow /\ row'.st = "retired" /\ row'.at = row.at /\ row'.ob = None /\ row'.key = NoKey /\ row'.owe = row.owe
    BY <1>21, <2>0, WithoutEntry DEF Forget
  <2>2. want'.at = None
    BY <1>t, <1>21 DEF Forget
  <2>3. UNCHANGED <<keys, pc, snap, got>>
    BY <1>21 DEF Forget
  <2>a. OneTarget(t)'
    BY <1>t, <1>s, <2>0, <2>1, <2>2, <2>3
  <2>b. OneKey'
    BY <1>t, <1>s, <2>0, <2>1, <2>2, <2>3 DEF NoKey
  <2>c. InPlace'
    BY <1>t, <1>s, <2>0, <2>1, <2>2, <2>3
  <2>d. OwedClosed'
    BY <1>t, <1>s, <2>0, <2>1, <2>2, <2>3
  <2>e. RoutedAlone' /\ InHand'
    BY <1>t, <1>s, <2>0, <2>1, <2>2, <2>3
  <2>f. keys <= keys' /\ row' # NoRow /\ Closed(row')
    BY <1>t, <1>s, <2>0, <2>1, <2>2, <2>3
  <2> QED
    BY <2>a, <2>b, <2>c, <2>d, <2>e, <2>f
<1>22. CASE ForgetRemoteOnly
  <2>1. row \in Rows /\ Queued(row) /\ row' = NoRow
    BY <1>t, <1>22 DEF ForgetRemoteOnly
  <2>2. want'.at = None
    BY <1>t, <1>22 DEF ForgetRemoteOnly
  <2>3. UNCHANGED <<keys, pc, snap, got>>
    BY <1>22 DEF ForgetRemoteOnly
  <2>4. ~Closed(row)
    BY <2>1, RowRecord
  <2> QED
    BY <1>t, <1>s, <2>1, <2>2, <2>3, <2>4
<1>23. CASE Rescope
  <2>0. row \in Rows /\ row # NoRow /\ row.st = "active"
    BY <1>t, <1>23 DEF Rescope
  <2>1. row' # NoRow /\ row'.st = row.st /\ row'.at = Local /\ row'.ob = None /\ row'.key = NoKey /\ row'.owe = row.owe
    <3>1. row' = [Unqueued(row) EXCEPT !.at = Local]
      BY <1>23 DEF Rescope
    <3>2. /\ row' # NoRow /\ row'.ob = None /\ row'.key = NoKey /\ row'.owe = row.owe
          /\ row'.st = row.st /\ row'.at = Local
      <4> HIDE DEF Unqueued
      <4> QED
        BY <2>0, <3>1, WithoutEntry
    <3> QED
      BY <3>2 DEF NoKey
  <2>2. want'.at = Local
    BY <1>t, <1>23 DEF Rescope
  <2>3. UNCHANGED <<keys, pc, snap, got>>
    BY <1>23 DEF Rescope
  <2>a. OneTarget(t)'
    BY <1>t, <1>s, <2>0, <2>1, <2>2, <2>3
  <2>b. OneKey'
    BY <1>t, <1>s, <2>0, <2>1, <2>2, <2>3 DEF NoKey
  <2>c. InPlace'
    BY <1>t, <1>s, <2>0, <2>1, <2>2, <2>3
  <2>d. OwedClosed'
    BY <1>t, <1>s, <2>0, <2>1, <2>2, <2>3
  <2>e. RoutedAlone' /\ InHand'
    BY <1>t, <1>s, <2>0, <2>1, <2>2, <2>3
  <2>f. keys <= keys' /\ row' # NoRow /\ Closed(row')
    BY <1>t, <1>s, <2>0, <2>1, <2>2, <2>3
  <2> QED
    BY <2>a, <2>b, <2>c, <2>d, <2>e, <2>f
<1>24. CASE RescopeAway
  <2>0. row \in Rows /\ row # NoRow /\ row.st = "active"
    BY <1>t, <1>24 DEF RescopeAway
  <2>1. row' # NoRow /\ row'.st = "retired" /\ row'.at = row.at /\ row'.ob = row.ob /\ row'.key = row.key /\ row'.owe = row.owe
    BY <1>24, <2>0, RetiredRow DEF RescopeAway
  <2>2. want'.at = None
    BY <1>t, <1>24 DEF RescopeAway
  <2>3. UNCHANGED <<keys, pc, snap, got>>
    BY <1>24 DEF RescopeAway
  <2>a. OneTarget(t)'
    BY <1>t, <1>s, <2>0, <2>1, <2>2, <2>3
  <2>b. OneKey'
    BY <1>t, <1>s, <2>0, <2>1, <2>2, <2>3 DEF NoKey
  <2>c. InPlace'
    BY <1>t, <1>s, <2>0, <2>1, <2>2, <2>3
  <2>d. OwedClosed'
    BY <1>t, <1>s, <2>0, <2>1, <2>2, <2>3
  <2>e. RoutedAlone' /\ InHand'
    BY <1>t, <1>s, <2>0, <2>1, <2>2, <2>3
  <2>f. keys <= keys' /\ row' # NoRow /\ Closed(row')
    BY <1>t, <1>s, <2>0, <2>1, <2>2, <2>3
  <2> QED
    BY <2>a, <2>b, <2>c, <2>d, <2>e, <2>f
<1>25. CASE Upload
  <2>1. UNCHANGED <<pc, snap, got>>
    BY <1>25 DEF Upload
  <2>2. /\ row # NoRow /\ row.st = "active" /\ row.at = t /\ t # Local /\ ~Closed(row)
        /\ row' # NoRow /\ row'.st = row.st /\ row'.owe = row.owe
    BY <1>25, <1>t, UploadRow
  <2>3. CASE /\ row'.at = Local /\ row'.ob = None /\ row'.key = NoKey
             /\ want' = [want EXCEPT !.at = Local] /\ keys' = keys
    <3>1. want'.at = Local
      BY <1>t, <2>3
    <3> QED
      BY <1>t, <1>s, <2>1, <2>2, <2>3, <3>1 DEF NoKey
  <2>4. CASE /\ row.ob = None /\ row'.at = row.at /\ row'.ob = row.at /\ row'.key = keys'
             /\ keys' = keys + 1 /\ want' = want
    <3>1. keys = 0 /\ keys' = 1
      BY <1>t, <2>2, <2>4
    <3>2. OneKey'
      <4>1. \A v \in Writers : snap[v] # NoRow => snap[v].key <= 1
        BY <1>t, RowRecord DEF Keys, NoKey
      <4> QED
        BY <2>1, <2>4, <3>1, <4>1
    <3>3. OneTarget(t)' /\ InPlace'
      BY <1>t, <2>1, <2>2, <2>4
    <3>4. OwedClosed' /\ RoutedAlone' /\ InHand'
      BY <1>t, <1>s, <2>1, <2>2, <2>4
    <3> QED
      BY <2>2, <3>1, <3>2, <3>3, <3>4
  <2> QED
    BY <1>25, <2>3, <2>4, UploadRow
<1>26. CASE Read
  BY <1>t, <1>s, <1>26 DEF Read
<1>27. CASE Lapse
  BY <1>t, <1>s, <1>27 DEF Lapse
<1>28. ASSUME NEW s \in Scopes, Update(s) PROVE Progress(t)
  <2>1. RemoteOnly /\ RemoteOnlyInv
    BY <1>28 DEF Unmoved, Update
  <2>2. CASE row = NoRow
    BY <1>t, <1>s, <1>28, <2>2 DEF Update
  <2>3. CASE row # NoRow
    <3>1. /\ row' # NoRow /\ row'.st = row.st /\ row'.at = row.at /\ row'.ob = row.ob
          /\ row'.key = row.key /\ row'.owe = row.owe /\ want'.at = row.at
          /\ row.st = "active" /\ row.ob # None /\ row.at \in Targets
          /\ UNCHANGED <<keys, pc, snap, got>>
      BY <1>28, <2>1, <2>3, UpdateRow
    <3> QED
      BY <1>t, <1>s, <2>3, <3>1
  <2> QED
    BY <2>2, <2>3
<1>29. ASSUME NEW u \in Targets, Tighten(u) PROVE Progress(t)
  BY <1>t, <1>s, <1>29 DEF Tighten
<1>30. ASSUME NEW w \in Writers, LearnFailed(w) PROVE Progress(t)
  BY <1>t, <1>s, <1>30 DEF LearnFailed
<1>31. ASSUME NEW w \in Writers, NoteFails(w) PROVE Progress(t)
  BY <1>t, <1>s, <1>31 DEF NoteFails, Forgotten
<1> HIDE DEF Goto, UserOp, flushVars, serverVars, userVars, writerVars, faults, Progress, WriterInv,
        OneTarget, OneKey, InPlace, OwedClosed, RoutedAlone, InHand, Closed, Owes, Queued
<1> QED
  BY <1>0, <1>3, <1>4, <1>5, <1>6, <1>7, <1>8, <1>9, <1>10, <1>11, <1>12, <1>13, <1>14, <1>15, <1>16, <1>17, <1>18, <1>19, <1>20, <1>21, <1>22, <1>23, <1>24, <1>25, <1>26, <1>27, <1>28, <1>29,
     <1>30, <1>31 DEF Next, Step, User

\* Requests and copies are for the one target under the one key; a copy is
\* retired only once the row is closed; a row is gone only if there is a copy.
ServerInv(t) ==
  /\ \A q \in late : q.t = t /\ q.key = keys
  /\ \A i \in Ids : Stored(i) => /\ copies[i].t = t /\ i[1] = ServerOf[t] /\ i[2] = keys
                                 /\ copies[i].live \/ Closed(row)
  /\ row = NoRow /\ want.at \in Targets => \E i \in Ids : Stored(i)

\* The invariant of the delivery.
DeliveryInv(t) == WriterInv(t) /\ ServerInv(t)

\* What the servers may be asked, and what is given up on, is for the one target too.
LEMMA AskedMine ==
  ASSUME TypeOK, NEW t \in Targets, DeliveryInv(t)
  PROVE  \A q \in Asked : q.t = t /\ q.key = keys /\ keys = 1
<1> SUFFICES ASSUME NEW q \in Asked PROVE q.t = t /\ q.key = keys /\ keys = 1
  OBVIOUS
<1>1. q \in Requests /\ keys \in 0..MaxKeys /\ keys <= 1
  BY AskedType DEF TypeOK, RowTypes, DeliveryInv, WriterInv, OneKey
<1>2. q.key \in Keys
  BY <1>1 DEF Requests
<1>3. CASE q \in late
  BY <1>1, <1>2, <1>3, OutboxAssumption DEF DeliveryInv, ServerInv, Keys
<1>4. ASSUME NEW w \in Writers, pc[w] \in Waiting, q = Request(w) PROVE q.t = t /\ q.key <= keys
  <2>1. Queued(snap[w]) /\ snap[w] # NoRow
    BY <1>4 DEF TypeOK, SetUp, ToBePushed, Queued
  <2>2. snap[w].ob = t /\ snap[w].key <= keys
    BY <2>1 DEF DeliveryInv, WriterInv, OneTarget, OneKey, Queued
  <2> QED
    BY <1>4, <2>2 DEF Request
<1> QED
  BY <1>1, <1>2, <1>3, <1>4, OutboxAssumption DEF Asked, Keys

\* A request is given up on only by the writer that made it.
LEMMA LateStep == [Next]_vars => late' \subseteq Asked
<1> SUFFICES ASSUME [Next]_vars PROVE late' \subseteq Asked
  OBVIOUS
<1>0. late \subseteq Asked
  BY DEF Asked
<1>1. ASSUME NEW w \in Writers, GiveUp(w) \/ Crash(w) PROVE late' \subseteq Asked
  BY <1>1 DEF GiveUp, Crash, Abandon, Asked
<1>2. ASSUME NEW q \in late, ServeLate(q) \/ Lost(q) PROVE late' \subseteq Asked
  BY <1>0, <1>2 DEF ServeLate, Lost
<1>3. CASE \E w \in Writers : Step(w)
  BY <1>0, <1>3 DEF Step, LearnPush, LearnDone, LearnFailed, RoutedSave, Flush, FlushRetire, FlushKey, FlushClaim,
     FlushCheck, FlushDefer, Merge, Release, serverVars
<1>4. CASE \E w \in Writers : Serve(w) \/ Deliver(w) \/ SaveFails(w) \/ NoteFails(w) \/ \E t \in Targets : Learn(w, t) \/ Routed(w, t)
  BY <1>0, <1>4 DEF Serve, Deliver, SaveFails, NoteFails, Learn, Routed, serverVars
<1>5. CASE User
  BY <1>0, <1>5 DEF User, Forget, ForgetRemoteOnly, Rescope, RescopeAway, Upload, Read,
     Update, Tighten, serverVars
<1>6. CASE Lapse \/ UNCHANGED vars
  BY <1>0, <1>6 DEF Lapse, serverVars, vars
<1> QED
  BY <1>1, <1>2, <1>3, <1>4, <1>5, <1>6 DEF Next

\* A step of an engram that has been saved keeps it all.
LEMMA ServerStep ==
  ASSUME TypeOK, NEW t \in Targets, DeliveryInv(t), [Next]_vars, Progress(t)
  PROVE  DeliveryInv(t)'
<1>1. WriterInv(t)' /\ keys <= keys' /\ keys' <= 1 /\ (Closed(row) => Closed(row)')
  BY DEF Progress, WriterInv, OneKey
<1>2. keys \in 0..MaxKeys /\ (keys = 1 => keys' = 1)
  <2>1. keys \in 0..MaxKeys
    BY DEF TypeOK, RowTypes
  <2>2. TypeOK'
    BY TypeStep
  <2>3. keys' \in 0..MaxKeys
    BY <2>2 DEF TypeOK, RowTypes
  <2> QED
    BY <1>1, <2>1, <2>3, OutboxAssumption
<1>3. \A q \in late' : q.t = t /\ q.key = keys'
  BY <1>2, AskedMine, LateStep
<1>4. ASSUME NEW i \in Ids, Stored(i)'
      PROVE  copies'[i].t = t /\ i[1] = ServerOf[t] /\ i[2] = keys' /\ (copies'[i].live \/ Closed(row)')
  <2>1. CASE Kept(i)
    <3>1. copies[i].t = t /\ i[1] = ServerOf[t] /\ i[2] = keys /\ (copies[i].live \/ Closed(row)) /\ copies'[i].t = t
      BY <2>1 DEF Kept, DeliveryInv, ServerInv
    <3>2. i[2] \in Keys
      BY DEF Ids
    <3>3. keys = 1
      BY <1>1, <1>2, <3>1, <3>2, OutboxAssumption DEF Keys, DeliveryInv, WriterInv, OneKey
    <3>4. copies'[i].live \/ Closed(row)'
      BY <1>1, <2>1, <3>1 DEF Kept, DeliveryInv, WriterInv, OwedClosed
    <3> QED
      BY <1>2, <3>1, <3>3, <3>4
  <2>2. ASSUME NEW q \in Asked, StoredFor(i, q) PROVE copies'[i].t = t /\ i[1] = ServerOf[t] /\ i[2] = keys' /\ copies'[i].live
    BY <1>2, <2>2, AskedMine DEF StoredFor, NextId
  <2> QED
    BY <1>4, <2>1, <2>2, CopyStep
<1>5. row' = NoRow /\ want'.at \in Targets => \E i \in Ids : Stored(i)'
  <2>1. \A i \in Ids : Stored(i) => Stored(i)'
    BY CopyStep
  <2> QED
    BY <2>1 DEF Progress, DeliveryInv, ServerInv
<1> QED
  BY <1>1, <1>3, <1>4, <1>5 DEF DeliveryInv, ServerInv

\* A new engram starts with nothing under way.
LEMMA FreshStep ==
  ASSUME TypeOK, NEW t \in Targets, DeliveryInv(t),
         NEW w \in Writers, NEW u \in Targets, Learn(w, u) \/ Routed(w, u)
  PROVE  DeliveryInv(u)'
<1>1. Unborn /\ pc[w] = "idle" /\ keys = 0 /\ keys' = 1
  BY DEF Learn, Routed, Unborn
<1>2. late = {} /\ \A i \in Ids : ~Stored(i)
  <2>1. \A q \in late : q.key \in Keys
    BY DEF TypeOK, ServerTypes, Requests
  <2>2. \A i \in Ids : i[2] \in Keys
    BY DEF Ids
  <2> QED
    BY <1>1, <2>1, <2>2, OutboxAssumption DEF DeliveryInv, ServerInv, Keys
<1>3. UNCHANGED <<copies, late, got>>
  BY DEF Learn, Routed, serverVars
<1>4. NewRow(u, 1) \in Rows /\ NewRow(u, 1).at = u /\ NewRow(u, 1).ob = u /\ NewRow(u, 1).key = 1 /\ NewRow(u, 1).owe = None
      /\ NewRow(u, 1).st = "active"
  <2>1. 1 \in Keys
    BY <1>1, OutboxAssumption DEF Learn, Routed, Keys
  <2> QED
    BY <2>1, NewRowType DEF NewRow
<1>5. snap' = [snap EXCEPT ![w] = NewRow(u, 1)] /\ \A v \in Writers : snap[v] = NoRow
  BY <1>1 DEF Learn, Routed, Unborn
<1>6. snap'[w] = NewRow(u, 1) /\ \A v \in Writers \ {w} : snap'[v] = NoRow
  BY <1>5 DEF TypeOK, WriterTypes
<1>7. \A v \in Writers : got[v] = None
  <2>1. \A v \in Writers : pc[v] = "idle"
    BY <1>5 DEF TypeOK, SetUp
  <2> QED
    BY <2>1 DEF DeliveryInv, WriterInv, InHand
<1>8. CASE Learn(w, u)
  <2>1. row' = NewRow(u, 1) /\ want'.at = u
    BY <1>1, <1>8 DEF Learn
  <2>2. pc' = [pc EXCEPT ![w] = "learnPush"] /\ \A v \in Writers : pc[v] = "idle"
    BY <1>5, <1>8 DEF Learn, Goto, TypeOK, SetUp
  <2>3. ServerInv(u)'
    BY <1>2, <1>3, <1>4, <2>1, RowRecord DEF ServerInv, Stored
  <2>4. OneTarget(u)' /\ OneKey'
    BY <1>1, <1>4, <1>6, <2>1 DEF OneTarget, OneKey
  <2>5. InPlace' /\ OwedClosed'
    BY <1>1, <1>4, <1>6, <2>1, OutboxAssumption, RowRecord DEF InPlace, OwedClosed, Owes, Queued
  <2>6. RoutedAlone' /\ InHand'
    BY <1>3, <1>6, <1>7, <2>2 DEF RoutedAlone, InHand, TypeOK, WriterTypes
  <2> QED
    BY <2>3, <2>4, <2>5, <2>6 DEF DeliveryInv, WriterInv
<1>9. CASE Routed(w, u)
  <2>1. row' = NoRow /\ want'.at = None
    BY <1>1, <1>9 DEF Routed, Unborn
  <2>2. pc' = [pc EXCEPT ![w] = "routedWait"] /\ \A v \in Writers : pc[v] = "idle"
    BY <1>5, <1>9 DEF Routed, Goto, TypeOK, SetUp
  <2>3. ServerInv(u)'
    BY <1>2, <1>3, <2>1, OutboxAssumption DEF ServerInv, Stored
  <2>4. OneTarget(u)' /\ OneKey'
    BY <1>1, <1>4, <1>6, <2>1 DEF OneTarget, OneKey
  <2>5. InPlace' /\ OwedClosed'
    BY <1>1, <1>4, <1>6, <2>1, OutboxAssumption, RowRecord DEF InPlace, OwedClosed, Owes, Queued
  <2>6. RoutedAlone' /\ InHand'
    BY <1>3, <1>4, <1>6, <1>7, <2>1, <2>2 DEF RoutedAlone, InHand, TypeOK, WriterTypes
  <2> QED
    BY <2>3, <2>4, <2>5, <2>6 DEF DeliveryInv, WriterInv
<1> QED
  BY <1>8, <1>9

\* Every step keeps the invariant, for the target there is or for a new one,
LEMMA DeliveryStep ==
  ASSUME Unmoved, TypeOK, \E t \in Targets : DeliveryInv(t), [Next]_vars
  PROVE  \E t \in Targets : DeliveryInv(t)'
<1>1. PICK t \in Targets : DeliveryInv(t)
  OBVIOUS
<1>2. CASE \E w \in Writers, u \in Targets : Learn(w, u) \/ Routed(w, u)
  BY <1>1, <1>2, FreshStep
<1>3. CASE ~\E w \in Writers, u \in Targets : Learn(w, u) \/ Routed(w, u)
  BY <1>1, <1>3, WriterStep, ServerStep DEF DeliveryInv
<1> QED
  BY <1>2, <1>3

\* ... which holds at first of some target.
LEMMA DeliveryInit ==
  ASSUME Init, NEW u \in Targets
  PROVE  \E t \in Targets : DeliveryInv(t)
<1> DEFINE Start(t) ==
             \/ row = NoRow /\ want.at = None
             \/ row \in {NewRow(t, NoKey), Unqueued(NewRow(t, NoKey))} /\ want.at = t
<1>1. PICK t \in Targets : Start(t)
  <2>1. CASE row = NoRow /\ want = [at |-> None, ver |-> 0]
    <3>1. Start(u)
      BY <2>1
    <3> QED
      BY <3>1
  <2>2. ASSUME NEW t \in Targets, row \in {NewRow(t, NoKey), Unqueued(NewRow(t, NoKey))},
               want = [at |-> t, ver |-> 0]
        PROVE  Start(t)
    BY <2>2
  <2>3. \/ row = NoRow /\ want = [at |-> None, ver |-> 0]
        \/ \E t \in Targets : row \in {NewRow(t, NoKey), Unqueued(NewRow(t, NoKey))} /\ want = [at |-> t, ver |-> 0]
    BY DEF Init
  <2> HIDE DEF Start
  <2> QED
    BY <2>1, <2>2, <2>3
<1>2. ASSUME NEW r \in {NewRow(t, NoKey), Unqueued(NewRow(t, NoKey))}
      PROVE  r # NoRow /\ r.st = "active" /\ r.at = t /\ r.ob \in {t, None} /\ r.key = NoKey /\ r.owe = None
  <2>1. NewRow(t, NoKey) \in Rows /\ Unqueued(NewRow(t, NoKey)) \in Rows
    BY NewRowType, RowUpdates
  <2>2. LET n == NewRow(t, NoKey) IN n.st = "active" /\ n.at = t /\ n.ob = t /\ n.key = NoKey /\ n.owe = None
    BY DEF NewRow
  <2>3. LET n == Unqueued(NewRow(t, NoKey)) IN n.st = "active" /\ n.at = t /\ n.ob = None /\ n.key = NoKey /\ n.owe = None
    BY DEF NewRow, Unqueued
  <2> QED
    BY <2>1, <2>2, <2>3, RowRecord
<1>3. OneTarget(t) /\ OneKey
  BY <1>1, <1>2 DEF Init, OneTarget, OneKey, NoKey
<1>4. InPlace /\ OwedClosed
  BY <1>1, <1>2 DEF Init, InPlace, OwedClosed, Queued, Owes
<1>5. RoutedAlone /\ InHand
  BY DEF Init, RoutedAlone, InHand
<1>6. ServerInv(t)
  BY <1>1, <1>2, OutboxAssumption DEF Init, ServerInv, Stored
<1> QED
  BY <1>3, <1>4, <1>5, <1>6 DEF DeliveryInv, WriterInv

\* A row goes only when the store the user wants it in has a live copy (learn,
\* learnRouted, flushOutbox, forget, rescope, uploadLocal), if the row is not
\* rewritten from an old read, or the folder is remote-only.
THEOREM NoWriteIsLost == ASSUME "update" \notin Ops \/ RemoteOnly PROVE Spec => []NoLostWrite
<1>1. CASE Targets = {}
  <2>1. NoLostWrite
    BY <1>1 DEF NoLostWrite
  <2> QED
    BY <2>1, PTL
<1>2. CASE Targets # {}
  <2> DEFINE Inv == TypeOK /\ (RemoteOnly => RemoteOnlyInv) /\ \E t \in Targets : DeliveryInv(t)
  <2>1. Init => Inv
    BY <1>2, TypeInit, RemoteOnlyInit, DeliveryInit
  <2>2. Inv /\ [Next]_vars => Inv'
    BY TypeStep, RemoteOnlyStep, DeliveryStep DEF Unmoved
  <2>3. Inv => NoLostWrite
    <3> SUFFICES ASSUME TypeOK, NEW t \in Targets, DeliveryInv(t), row = NoRow, want.at \in Targets
                 PROVE  LiveCopies(want.at) # {}
      BY DEF NoLostWrite
    <3>1. want.at = t
      BY OutboxAssumption DEF DeliveryInv, WriterInv, OneTarget
    <3>2. PICK i \in Ids : Stored(i)
      BY DEF DeliveryInv, ServerInv
    <3>3. copies[i].t = t /\ copies[i].live
      BY <3>2 DEF DeliveryInv, ServerInv, Closed
    <3> QED
      BY <3>1, <3>2, <3>3 DEF LiveCopies
  <2> HIDE DEF Inv
  <2> QED
    BY <2>1, <2>2, <2>3, PTL DEF Spec
<1> QED
  BY <1>1, <1>2

----------------------------------------------------------------------------
(* No copy is left astray *)

\* Where the push is direct.
RoutedStages == {"routedWait", "routedSave"}
\* A server that honours keys stores the engram once;
Single == \A i \in Ids : Stored(i) => i[3] = 1
\* the copy, if it is live and a client knows of it, is accounted for;
Tracked ==
  \A i \in Ids : Stored(i) /\ copies[i].live /\ copies[i].known =>
    \/ row = NoRow /\ want.at \in Targets
    \/ row # NoRow /\ row.owe = i
    \/ \E w \in Writers : got[w] = i
\* a writer that takes a retirement for done has done it;
Gone == \A w \in Writers : gone[w] => Owes(snap[w]) /\ ~copies[snap[w].owe].live
\* and a writer that finds its row gone finds the write where it belongs.
Home ==
  row = NoRow => \A w \in Writers : snap[w] # NoRow => want.at \in Targets \/ pc[w] \in RoutedStages
\* The invariant of retirements.
StrayInv == Single /\ Tracked /\ Gone /\ Home

\* A server that honours keys stores a key once.
LEMMA StoredOnce ==
  ASSUME Honours = Servers, TypeOK, NEW i \in Ids, NEW q \in Asked, StoredFor(i, q)
  PROVE  ~Stored(i) /\ i[3] = 1
<1>1. q \in Requests
  BY AskedType
<1>2. ServerOf[q.t] \in Honours /\ ~Known(q)
  BY <1>1, OutboxAssumption DEF Requests, StoredFor, Servers
<1>3. CopiesOf(ServerOf[q.t], q.key) = {}
  BY <1>2 DEF Known
<1>4. i = NextId(q) /\ Cardinality(CopiesOf(ServerOf[q.t], q.key)) = 0
  BY <1>3, FS_EmptySet DEF StoredFor
<1>5. i[1] = ServerOf[q.t] /\ i[2] = q.key /\ i[3] = 1
  BY <1>4 DEF NextId
<1>6. ~Stored(i)
  BY <1>3, <1>5 DEF CopiesOf
<1> QED
  BY <1>5, <1>6

\* So a copy that is there stays as it was, and a new one has the first id.
LEMMA CopiesStay ==
  ASSUME Honours = Servers, TypeOK, [Next]_vars, NEW i \in Ids
  PROVE  /\ Stored(i) => Kept(i)
         /\ Stored(i)' /\ ~Stored(i) => i[3] = 1 /\ ~copies'[i].known
BY CopyStep, StoredOnce DEF StoredFor, Kept

\* Every step keeps that.
LEMMA SingleStep ==
  ASSUME Honours = Servers, TypeOK, [Next]_vars, Single
  PROVE  Single'
BY CopiesStay DEF Single

\* There is one copy.
LEMMA OneCopy ==
  ASSUME NEW t \in Targets, DeliveryInv(t), Single, NEW i \in Ids, NEW j \in Ids, Stored(i), Stored(j)
  PROVE  i = j
<1>1. i[1] = j[1] /\ i[2] = j[2] /\ i[3] = j[3]
  BY DEF DeliveryInv, ServerInv, Single
<1> QED
  BY <1>1 DEF Ids

\* A retirement that is done stays done.
LEMMA GoneStep ==
  ASSUME Honours = Servers, TypeOK, NEW t \in Targets, DeliveryInv(t), Gone, [Next]_vars
  PROVE  Gone'
<1>t. /\ snap \in [Writers -> Rows \union {NoRow}] /\ gone \in [Writers -> BOOLEAN]
      /\ \A w \in Writers : Owes(snap[w]) => snap[w].owe \in Ids /\ Stored(snap[w].owe)
  BY RowRecord DEF TypeOK, WriterTypes, Answered, Owes
<1>d. \A i \in Ids : Stored(i) /\ ~copies[i].live => ~copies'[i].live
  BY CopiesStay DEF Kept
<1>f. \A w \in Writers : gone[w] => ~copies'[snap[w].owe].live
  BY <1>t, <1>d DEF Gone
<1>i. \A w \in Writers : pc[w] = "idle" => ~gone[w]
  BY DEF Gone, Owes, DeliveryInv, WriterInv, InHand
<1>0. CASE UNCHANGED <<snap, gone>>
  BY <1>0, <1>f DEF Gone, Owes
<1>1. ASSUME NEW w \in Writers, FlushKey(w), ~UNCHANGED <<row, keys, snap>> PROVE Gone'
  <2>1. UNCHANGED gone
    BY <1>1 DEF FlushKey, flushVars
  <2>2. \A v \in Writers : Owes(snap[v]) => Owes(snap'[v]) /\ snap'[v].owe = snap[v].owe
    BY <1>1, FlushKeyRow DEF Owes
  <2> QED
    BY <1>f, <2>1, <2>2 DEF Gone, Owes
<1>2. ASSUME NEW w \in Writers, FlushRetire(w) PROVE Gone'
  <2>1. Owes(snap[w]) /\ UNCHANGED snap
    BY <1>2 DEF FlushRetire, TypeOK, SetUp, Owes
  <2>2. \A v \in Writers \ {w} : gone'[v] = gone[v]
    BY <1>2 DEF FlushRetire
  <2>3. gone'[w] => copies' = [copies EXCEPT ![snap[w].owe].live = FALSE]
    BY <1>t, <1>2 DEF FlushRetire
  <2>4. gone'[w] => ~copies'[snap[w].owe].live
    BY <1>t, <2>1, <2>3, CopyTouchedOnly
  <2> QED
    BY <1>f, <2>1, <2>2, <2>4 DEF Gone, Owes
<1>3. ASSUME NEW w \in Writers, Crash(w) \/ Release(w) \/ NoteFails(w) PROVE Gone'
  <2>1. /\ gone' = [gone EXCEPT ![w] = FALSE]
        /\ \A v \in Writers \ {w} : snap'[v] = snap[v]
    BY <1>t, <1>3 DEF Crash, Release, NoteFails, Forgotten
  <2> QED
    BY <1>t, <1>f, <2>1 DEF Gone, Owes
<1>4. ASSUME NEW w \in Writers, Flush(w) \/ \E u \in Targets : Learn(w, u) \/ Routed(w, u) PROVE Gone'
  <2>1. ~gone[w] /\ gone' = gone /\ \A v \in Writers \ {w} : snap'[v] = snap[v]
    BY <1>t, <1>i, <1>4 DEF Flush, Learn, Routed, flushVars
  <2> QED
    BY <1>f, <2>1 DEF Gone, Owes
<1>5. \/ UNCHANGED <<snap, gone>>
      \/ \E w \in Writers : \/ FlushKey(w) \/ FlushRetire(w) \/ Crash(w) \/ Release(w) \/ NoteFails(w)
                            \/ Flush(w) \/ \E u \in Targets : Learn(w, u) \/ Routed(w, u)
  <2>1. CASE \E w \in Writers : Step(w)
    BY <2>1 DEF Step, LearnPush, LearnDone, LearnFailed, RoutedSave, FlushClaim, FlushCheck, FlushDefer, Merge, flushVars
  <2>2. CASE \E w \in Writers : Serve(w) \/ Deliver(w) \/ GiveUp(w) \/ SaveFails(w)
    BY <2>2 DEF Serve, Deliver, GiveUp, SaveFails, flushVars
  <2>3. CASE User
    BY <2>3 DEF User, Forget, ForgetRemoteOnly, Rescope, RescopeAway, Upload, Read,
       Update, Tighten, writerVars
  <2>4. CASE Lapse \/ (\E q \in late : ServeLate(q) \/ Lost(q)) \/ UNCHANGED vars
    BY <2>4 DEF Lapse, ServeLate, Lost, flushVars, vars
  <2> QED
    BY <2>1, <2>2, <2>3, <2>4 DEF Next
<1>6. ASSUME NEW w \in Writers, FlushKey(w), UNCHANGED <<row, keys, snap>> PROVE Gone'
  <2>1. UNCHANGED gone
    BY <1>6 DEF FlushKey, flushVars
  <2> QED
    BY <1>0, <1>6, <2>1
<1> QED
  BY <1>0, <1>1, <1>2, <1>3, <1>4, <1>5, <1>6

\* While the row is gone, the write is where it belongs.
Settled == row = NoRow /\ want.at \in Targets

\* A step that handles no answer leaves what is owed and what is settled.
LEMMA RowStays ==
  ASSUME ~RemoteOnly, "update" \notin Ops, TypeOK, NEW t \in Targets, DeliveryInv(t), Home, [Next]_vars,
         ~\E w \in Writers, u \in Targets : Learn(w, u) \/ Routed(w, u),
         ~\E w \in Writers : LearnDone(w) \/ Merge(w) \/ Deliver(w)
  PROVE  /\ Settled => Settled'
         /\ row # NoRow => row' # NoRow /\ row'.owe = row.owe
         /\ row = NoRow /\ row' # NoRow => \E w \in Writers : RoutedSave(w)
<1> USE DEF Settled
<1>t. row \in Rows \union {NoRow} /\ want \in [at : Scopes \union {None}, ver : Edits]
  BY DEF TypeOK, RowTypes, UserTypes
<1>1. CASE UNCHANGED <<row, want>>
  BY <1>1
<1>2. ASSUME NEW w \in Writers, FlushKey(w) PROVE (row' = row /\ want' = want) \/ (row # NoRow /\ row' # NoRow /\ row'.owe = row.owe)
  BY <1>2, FlushKeyRow DEF FlushKey
<1>3. ASSUME NEW w \in Writers, RoutedSave(w) PROVE row = NoRow /\ want.at = None
  BY <1>3 DEF RoutedSave, DeliveryInv, WriterInv, RoutedAlone
<1>4. ASSUME Forget \/ Rescope \/ RescopeAway \/ Upload
      PROVE  row # NoRow /\ row' # NoRow /\ row'.owe = row.owe
  <2>1. CASE Forget
    BY <1>t, <2>1, WithoutEntry DEF Forget
  <2>2. CASE Rescope
    BY <1>t, <2>2, WithoutEntry DEF Rescope
  <2>3. CASE RescopeAway
    BY <1>t, <2>3, RetiredRow DEF RescopeAway
  <2>4. CASE Upload
    BY <2>4, UploadRow
  <2> QED
    BY <1>4, <2>1, <2>2, <2>3, <2>4
<1>5. \/ UNCHANGED <<row, want>>
      \/ \E w \in Writers : FlushKey(w) \/ RoutedSave(w)
      \/ Forget \/ Rescope \/ RescopeAway \/ Upload
  <2>1. CASE \E w \in Writers : Step(w)
    BY <2>1 DEF Step, LearnPush, LearnFailed, Flush, FlushRetire, FlushClaim, FlushCheck, FlushDefer, Release
  <2>2. CASE \E w \in Writers : Serve(w) \/ GiveUp(w) \/ SaveFails(w) \/ NoteFails(w) \/ Crash(w)
    BY <2>2 DEF Serve, GiveUp, SaveFails, NoteFails, Crash
  <2>3. CASE User
    BY <2>3 DEF User, ForgetRemoteOnly, Read, Update, UserOp, Tighten
  <2>4. CASE Lapse \/ (\E q \in late : ServeLate(q) \/ Lost(q)) \/ UNCHANGED vars
    BY <2>4 DEF Lapse, ServeLate, Lost, vars
  <2> QED
    BY <2>1, <2>2, <2>3, <2>4 DEF Next
<1> QED
  BY <1>1, <1>2, <1>3, <1>4, <1>5, OutboxAssumption

\* The hand-off and the merge-back of an answer settle the write, or queue the
\* retirement of its copy.
LEMMA AnswerSettles ==
  ASSUME ~RemoteOnly, TypeOK, NEW t \in Targets, DeliveryInv(t), Gone, Home,
         NEW w \in Writers, LearnDone(w) \/ Merge(w), got[w] # None
  PROVE  Settled' \/ (row' # NoRow /\ (row'.owe = got[w] \/ ~copies[got[w]].live))
<1> USE DEF Settled
<1>t. /\ row \in Rows \union {NoRow} /\ got[w] \in Ids /\ snap[w] # NoRow
      /\ pc[w] \in {"learnDone", "merge"} /\ snap[w].ob = t
  BY DEF TypeOK, RowTypes, WriterTypes, SetUp, LearnDone, Merge, DeliveryInv, WriterInv, InHand, OneTarget
<1>1. CASE row = NoRow
  <2>1. row' = NoRow /\ want' = want
    BY <1>1 DEF LearnDone, Merge, StruckOff, Merged
  <2> QED
    BY <1>t, <1>1, <2>1 DEF Home, RoutedStages
<1>2. CASE row # NoRow /\ row' = NoRow
  <2>1. Queued(row) /\ want' = want
    <3>1. CASE LearnDone(w)
      BY <1>t, <1>2, <3>1, WithOwe DEF LearnDone, QueuedFor, QueueRetire
    <3>2. CASE Merge(w)
      BY <1>2, <3>2, MergeRow DEF Merge, HandedOff, QueuedFor
    <3> QED
      BY <3>1, <3>2
  <2>2. want.at = row.at /\ row.at = row.ob /\ row.ob \in Targets
    BY <1>t, <2>1, RowRecord DEF DeliveryInv, WriterInv, InPlace, Queued
  <2> QED
    BY <1>2, <2>1, <2>2
<1>3. CASE row # NoRow /\ row' # NoRow /\ LearnDone(w)
  BY <1>t, <1>3, WithOwe DEF LearnDone, QueueRetire
<1>4. CASE row # NoRow /\ row' # NoRow /\ Merge(w)
  <2>1. row'.owe = got[w] \/ (gone[w] /\ got[w] = snap[w].owe)
    BY <1>4, MergeRow
  <2> QED
    BY <1>4, <2>1 DEF Gone
<1> QED
  BY <1>1, <1>2, <1>3, <1>4

\* A merge-back without an answer leaves what is owed, unless that is done.
LEMMA NoAnswerKeeps ==
  ASSUME TypeOK, Gone, NEW w \in Writers, Merge(w), got[w] = None
  PROVE  /\ row = NoRow => row' = NoRow /\ want' = want
         /\ row # NoRow => /\ row' # NoRow
                           /\ \/ row'.owe = row.owe
                              \/ Owes(snap[w]) /\ row.owe = snap[w].owe /\ ~copies[row.owe].live
<1>1. CASE row = NoRow
  BY <1>1 DEF Merge, StruckOff, Merged
<1>2. CASE row # NoRow
  BY <1>2, MergeRow DEF Gone
<1> QED
  BY <1>1, <1>2

\* A writer whose row went finds the write settled.
LEMMA HomeStep ==
  ASSUME ~RemoteOnly, "update" \notin Ops, TypeOK, NEW t \in Targets, DeliveryInv(t), Gone, Home, [Next]_vars,
         ~\E w \in Writers, u \in Targets : Learn(w, u) \/ Routed(w, u)
  PROVE  Home'
<1>t. /\ pc \in [Writers -> Stages] /\ snap \in [Writers -> Rows \union {NoRow}]
      /\ want \in [at : Scopes \union {None}, ver : Edits]
      /\ \A w \in Writers : pc[w] # "idle" => snap[w] # NoRow
  BY DEF TypeOK, WriterTypes, UserTypes, SetUp
<1>0. Settled' \/ row' # NoRow => Home'
  BY DEF Settled, Home
<1>1. ASSUME NEW w \in Writers, LearnDone(w) \/ Merge(w) PROVE Home'
  <2>1. CASE got[w] # None
    BY <1>0, <1>1, <2>1, AnswerSettles
  <2>2. CASE got[w] = None
    <3>1. Merge(w) /\ pc[w] = "merge"
      BY <1>1, <2>2 DEF LearnDone, Merge, DeliveryInv, WriterInv, InHand
    <3>2. row # NoRow => row' # NoRow
      BY <2>2, <3>1, NoAnswerKeeps
    <3>3. row = NoRow => Settled'
      BY <1>t, <2>2, <3>1, NoAnswerKeeps DEF Home, Settled, RoutedStages
    <3> QED
      BY <1>0, <3>2, <3>3
  <2> QED
    BY <2>1, <2>2
<1>2. ASSUME NEW w \in Writers, Deliver(w) PROVE Home'
  <2>1. CASE row # NoRow
    BY <1>0, <1>2, <2>1 DEF Deliver
  <2>2. CASE row = NoRow /\ pc[w] = "routedWait"
    <3>1. want'.at = snap[w].ob /\ row' = NoRow
      BY <1>2, <2>2 DEF Deliver
    <3>2. snap[w] \in Rows /\ Queued(snap[w])
      BY <2>2, <1>t DEF TypeOK, SetUp, ToBePushed, Waiting
    <3> QED
      BY <1>0, <3>1, <3>2, RowRecord DEF Settled, Queued
  <2>3. CASE row = NoRow /\ pc[w] # "routedWait"
    <3>1. row' = NoRow /\ want' = want /\ pc[w] \in Waiting
      BY <1>2, <2>3 DEF Deliver
    <3> QED
      BY <1>0, <1>t, <2>3, <3>1 DEF Home, Settled, RoutedStages, Waiting
  <2> QED
    BY <2>1, <2>2, <2>3
<1>3. CASE ~\E w \in Writers : LearnDone(w) \/ Merge(w) \/ Deliver(w)
  <2>1. CASE row # NoRow \/ Settled
    BY <1>0, <1>3, <2>1, RowStays DEF Settled
  <2>2. CASE row = NoRow /\ ~Settled
    <3>1. \A v \in Writers : snap[v] # NoRow => pc[v] \in RoutedStages
      BY <2>2 DEF Home, Settled
    <3>2. \A v \in Writers : pc[v] # "idle" => pc[v] \in RoutedStages
      BY <1>t, <3>1
    <3>3. row' # NoRow \/ \A v \in Writers : snap'[v] # NoRow => pc'[v] \in RoutedStages
      <4>1. CASE \E w \in Writers : Step(w)
        BY <1>3, <1>t, <2>2, <3>1, <3>2, <4>1 DEF Step, LearnPush, LearnFailed, RoutedSave, Flush, FlushRetire, FlushKey,
           FlushClaim, FlushCheck, FlushDefer, Release, RoutedStages
      <4>2. CASE \E w \in Writers : Serve(w)
        BY <3>1, <4>2 DEF Serve
      <4>7. ASSUME NEW w \in Writers, GiveUp(w) PROVE \A v \in Writers : snap'[v] # NoRow => pc'[v] \in RoutedStages
        <5>1. pc[w] = "routedWait" /\ pc' = [pc EXCEPT ![w] = "routedSave"] /\ snap' = snap
          BY <3>2, <4>7 DEF GiveUp, Goto, Waiting, RoutedStages
        <5> QED
          BY <1>t, <3>1, <5>1 DEF RoutedStages
      <4>5. CASE \E w \in Writers : SaveFails(w)
        BY <3>2, <4>5 DEF SaveFails, RoutedStages
      <4>6. ASSUME NEW w \in Writers, Crash(w) PROVE \A v \in Writers : snap'[v] # NoRow => pc'[v] \in RoutedStages
        BY <1>t, <3>1, <4>6 DEF Crash, Forgotten, Goto
      <4>8. CASE \E w \in Writers : NoteFails(w)
        BY <3>2, <4>8 DEF NoteFails, RoutedStages
      <4>3. CASE User
        BY <3>1, <4>3 DEF User, Forget, ForgetRemoteOnly, Rescope, RescopeAway, Upload, Read,
           Update, Tighten, writerVars
      <4>4. CASE Lapse \/ (\E q \in late : ServeLate(q) \/ Lost(q)) \/ UNCHANGED vars
        BY <3>1, <4>4 DEF Lapse, ServeLate, Lost, vars
      <4> QED
        BY <1>3, <4>1, <4>2, <4>3, <4>4, <4>5, <4>6, <4>7, <4>8 DEF Next
    <3> QED
      BY <3>3 DEF Home
  <2> QED
    BY <2>1, <2>2
<1> QED
  BY <1>1, <1>2, <1>3

\* A live copy that a client knows of stays accounted for.
LEMMA TrackedStep ==
  ASSUME ~RemoteOnly, "update" \notin Ops, Honours = Servers,
         TypeOK, NEW t \in Targets, DeliveryInv(t), StrayInv, [Next]_vars,
         ~\E w \in Writers, u \in Targets : Learn(w, u) \/ Routed(w, u)
  PROVE  Tracked'
<1> DEFINE Accounted(i) == \/ Settled
                           \/ row # NoRow /\ row.owe = i
                           \/ \E w \in Writers : got[w] = i
<1>g. got \in [Writers -> Ids \union {None}] /\ StrayInv
  BY DEF TypeOK, WriterTypes
<1> SUFFICES ASSUME NEW i \in Ids, Stored(i)', copies'[i].live, copies'[i].known
             PROVE  Accounted(i)'
  BY DEF Tracked, Settled
<1>0. Stored(i) /\ copies[i].live
  BY CopiesStay DEF Kept
<1>1. copies[i].known => Accounted(i)
  BY <1>0, <1>g DEF StrayInv, Tracked, Settled
<1>2. ASSUME NEW w \in Writers, LearnDone(w) \/ Merge(w) PROVE Accounted(i)'
  <2>1. copies' = copies /\ got' = [got EXCEPT ![w] = None]
    BY <1>2 DEF LearnDone, Merge, serverVars
  <2>2. CASE got[w] # None
    <3>1. got[w] \in Ids /\ Stored(got[w])
      BY <2>2, <1>g DEF TypeOK, Answered
    <3>2. i = got[w]
      BY <1>0, <1>g, <3>1, OneCopy DEF StrayInv
    <3> QED
      BY <1>0, <1>2, <1>g, <2>2, <3>2, AnswerSettles DEF StrayInv
  <2>3. CASE got[w] = None
    <3>1. Merge(w) /\ got' = got
      BY <1>2, <1>g, <2>1, <2>3 DEF LearnDone, Merge, DeliveryInv, WriterInv, InHand
    <3>2. Accounted(i)
      BY <1>1, <2>1
    <3> QED
      BY <1>0, <1>g, <2>3, <3>1, <3>2, NoAnswerKeeps DEF StrayInv, Settled
  <2> QED
    BY <2>2, <2>3
<1>3. ASSUME NEW w \in Writers, Deliver(w) PROVE Accounted(i)'
  <2>1. reply[w] \in Ids /\ Stored(reply[w])
    BY <1>3 DEF Deliver, TypeOK, WriterTypes, Answered
  <2>2. i = reply[w]
    BY <1>0, <1>g, <2>1, OneCopy DEF StrayInv
  <2>3. CASE pc[w] = "routedWait"
    <3>1. want'.at = snap[w].ob /\ row' = row
      BY <1>3, <2>3 DEF Deliver
    <3>2. snap[w] \in Rows /\ Queued(snap[w]) /\ row = NoRow
      BY <2>3 DEF TypeOK, SetUp, WriterTypes, ToBePushed, Waiting, DeliveryInv, WriterInv, RoutedAlone
    <3> QED
      BY <3>1, <3>2, RowRecord DEF Settled, Queued
  <2>4. CASE pc[w] # "routedWait"
    <3>1. got' = [got EXCEPT ![w] = reply[w]]
      BY <1>3, <2>4 DEF Deliver
    <3> QED
      BY <1>g, <2>2, <3>1
  <2> QED
    BY <2>3, <2>4
<1>4. CASE ~\E w \in Writers : LearnDone(w) \/ Merge(w) \/ Deliver(w)
  <2>1. copies[i].known /\ \A w \in Writers : got[w] = i => got'[w] = i
    <3>1. CASE UNCHANGED <<copies, got>>
      BY <3>1
    <3>2. ASSUME NEW w \in Writers, SaveFails(w) \/ Crash(w)
          PROVE  copies[i].known /\ \A v \in Writers : got[v] = i => got'[v] = i
      <4>1. got' = [got EXCEPT ![w] = None]
        BY <3>2 DEF SaveFails, Crash, Forgotten
      <4>2. CASE got[w] = None
        <5>1. copies' = copies
          BY <3>2, <4>2 DEF SaveFails, Crash
        <5> QED
          BY <1>g, <4>1, <4>2, <5>1
      <4>3. CASE got[w] # None
        <5>1. got[w] \in Ids /\ Stored(got[w])
          BY <4>3, <1>g DEF TypeOK, Answered
        <5>2. copies' = [copies EXCEPT ![got[w]].known = FALSE]
          BY <3>2, <4>3 DEF SaveFails, Crash
        <5>3. copies'[i].known = IF i = got[w] THEN FALSE ELSE copies[i].known
          BY <1>0, <5>1, <5>2, CopyTouchedOnly
        <5> QED
          BY <1>g, <4>1, <5>3
      <4> QED
        BY <4>2, <4>3
    <3>3. ASSUME NEW w \in Writers, FlushRetire(w) PROVE copies[i].known /\ got' = got
      <4>1. snap[w].owe \in Ids /\ Stored(snap[w].owe)
        BY <3>3, RowRecord DEF FlushRetire, TypeOK, SetUp, Answered, Owes, WriterTypes
      <4>2. CASE copies' = copies
        BY <3>3, <4>2 DEF FlushRetire
      <4>3. CASE copies' = [copies EXCEPT ![snap[w].owe].live = FALSE]
        <5>1. copies'[i].known = copies[i].known
          BY <1>0, <4>1, <4>3, CopyTouchedOnly
        <5> QED
          BY <3>3, <5>1 DEF FlushRetire
      <4> QED
        BY <3>3, <4>2, <4>3 DEF FlushRetire
    <3>4. ASSUME NEW q \in Asked, Store(q), UNCHANGED got PROVE copies[i].known /\ got' = got
      <4>1. q \in Requests
        BY AskedType
      <4> QED
        BY <3>4, <4>1, StoreAdds DEF StoredFor
    <3>6. ASSUME NEW w \in Writers, Release(w) \/ NoteFails(w)
          PROVE  copies' = copies /\ \A v \in Writers : got[v] = i => got'[v] = i
      <4>1. got[w] = None /\ copies' = copies /\ got' = [got EXCEPT ![w] = None]
        BY <3>6 DEF Release, NoteFails, Forgotten, serverVars, DeliveryInv, WriterInv, InHand
      <4> QED
        BY <1>g, <4>1
    <3>5. \/ UNCHANGED <<copies, got>>
          \/ \E w \in Writers : SaveFails(w) \/ Crash(w) \/ FlushRetire(w) \/ Release(w) \/ NoteFails(w)
          \/ \E q \in Asked : Store(q) /\ UNCHANGED got
      <4>1. CASE \E w \in Writers : Step(w)
        BY <1>4, <4>1 DEF Step, LearnPush, LearnFailed, RoutedSave, Flush, FlushKey, FlushClaim, FlushCheck, FlushDefer, serverVars
      <4>2. CASE \E w \in Writers : Serve(w) \/ GiveUp(w)
        BY <4>2 DEF Serve, GiveUp, Asked
      <4>3. CASE User
        BY <4>3 DEF User, Forget, ForgetRemoteOnly, Rescope, RescopeAway, Upload, Read,
           Update, Tighten, writerVars, serverVars
      <4>4. CASE Lapse \/ (\E q \in late : ServeLate(q) \/ Lost(q)) \/ UNCHANGED vars
        BY <4>4 DEF Lapse, ServeLate, Lost, Asked, serverVars, vars
      <4> QED
        BY <1>4, <4>1, <4>2, <4>3, <4>4 DEF Next
    <3> QED
      BY <3>1, <3>2, <3>3, <3>4, <3>5, <3>6
  <2>2. CASE Settled
    BY <1>4, <1>g, <2>2, RowStays DEF StrayInv
  <2>3. CASE row # NoRow /\ row.owe = i
    BY <1>4, <1>g, <2>3, RowStays DEF StrayInv
  <2>4. CASE \E w \in Writers : got[w] = i
    BY <2>1, <2>4
  <2> QED
    BY <1>1, <2>1, <2>2, <2>3, <2>4
<1> QED
  BY <1>2, <1>3, <1>4

\* A new engram has no copy yet.
LEMMA StrayFresh ==
  ASSUME TypeOK, NEW t \in Targets, DeliveryInv(t), Gone, [Next]_vars, Honours = Servers,
         NEW w \in Writers, NEW u \in Targets, Learn(w, u) \/ Routed(w, u)
  PROVE  StrayInv'
<1>1. Unborn /\ copies' = copies /\ gone' = gone
  BY DEF Learn, Routed, flushVars, serverVars
<1>2. \A i \in Ids : ~Stored(i) /\ ~Stored(i)'
  <2>1. \A i \in Ids : i[2] \in Keys
    BY DEF Ids
  <2> QED
    BY <1>1, <2>1, OutboxAssumption DEF Unborn, DeliveryInv, ServerInv, Keys, Stored
<1>3. Single' /\ Tracked' /\ Gone'
  BY <1>2, GoneStep DEF Single, Tracked
<1>4. Home'
  <2>1. CASE Learn(w, u)
    <3>1. NewRow(u, 1) \in Rows /\ row' = NewRow(u, 1)
      BY <1>1, <2>1, NewRowType, OutboxAssumption DEF Learn, Unborn, Keys
    <3> QED
      BY <3>1, RowRecord DEF Home
  <2>2. CASE Routed(w, u)
    <3>1. pc' = [pc EXCEPT ![w] = "routedWait"] /\ \A v \in Writers \ {w} : snap'[v] = NoRow
      BY <1>1, <2>2 DEF Routed, Goto, Unborn, TypeOK, WriterTypes
    <3> QED
      BY <3>1 DEF Home, RoutedStages, TypeOK, WriterTypes
  <2> QED
    BY <2>1, <2>2
<1> QED
  BY <1>3, <1>4 DEF StrayInv

\* Every step keeps the invariant of retirements.
LEMMA StrayStep ==
  ASSUME ~RemoteOnly, "update" \notin Ops, Honours = Servers,
         TypeOK, NEW t \in Targets, DeliveryInv(t), StrayInv, [Next]_vars
  PROVE  StrayInv'
<1>1. CASE \E w \in Writers, u \in Targets : Learn(w, u) \/ Routed(w, u)
  BY <1>1, StrayFresh DEF StrayInv
<1>2. CASE ~\E w \in Writers, u \in Targets : Learn(w, u) \/ Routed(w, u)
  BY <1>2, SingleStep, TrackedStep, GoneStep, HomeStep DEF StrayInv
<1> QED
  BY <1>1, <1>2

\* Decision D1: a copy a client knows of, where the user does not want the engram,
\* is owed a retirement or about to be (forget, rescope, uploadLocal, learn's hand-off,
\* flushOutbox), if the servers honour keys and no row is rewritten from an old read.
THEOREM NoCopyAstray ==
  ASSUME ~RemoteOnly, "update" \notin Ops, Honours = Servers
  PROVE  Spec => []NoStrayCopy
<1>1. CASE Targets = {}
  <2>1. Ids = {}
    BY <1>1 DEF Ids, Servers
  <2>2. NoStrayCopy
    BY <2>1 DEF NoStrayCopy
  <2> QED
    BY <2>2, PTL
<1>2. CASE Targets # {}
  <2> DEFINE Inv == TypeOK /\ (\E t \in Targets : DeliveryInv(t)) /\ StrayInv
  <2>1. Init => Inv
    <3>1. Init => StrayInv
      BY DEF Init, StrayInv, Single, Tracked, Gone, Home, Stored
    <3> QED
      BY <1>2, <3>1, TypeInit, DeliveryInit
  <2>2. Inv /\ [Next]_vars => Inv'
    BY TypeStep, DeliveryStep, StrayStep DEF Unmoved
  <2>3. Inv => NoStrayCopy
    <3> SUFFICES ASSUME TypeOK, NEW t \in Targets, DeliveryInv(t), StrayInv,
                        NEW i \in Ids, Stored(i), copies[i].live, copies[i].known
                 PROVE  \/ copies[i].t = want.at
                        \/ row # NoRow /\ row.owe = i
                        \/ \E w \in Writers : got[w] = i
      BY DEF NoStrayCopy
    <3>1. CASE row = NoRow /\ want.at \in Targets
      <4>1. copies[i].t = t /\ want.at = t
        BY <3>1, OutboxAssumption DEF DeliveryInv, ServerInv, WriterInv, OneTarget
      <4> QED
        BY <4>1
    <3> QED
      BY <3>1 DEF StrayInv, Tracked
  <2> HIDE DEF Inv
  <2> QED
    BY <2>1, <2>2, <2>3, PTL DEF Spec
<1> QED
  BY <1>1, <1>2

----------------------------------------------------------------------------
(* A push settles only what it judged *)

\* Where no policy is ever tightened, no push decides to demote.
NoDemotion == forbid = {} /\ \A w \in Writers : ~demoted[w]

LEMMA NoDemotionStep ==
  ASSUME "tighten" \notin Ops, TypeOK, NoDemotion, [Next]_vars
  PROVE  NoDemotion'
<1> USE DEF NoDemotion
<1>t. demoted \in [Writers -> BOOLEAN] /\ forbid = {}
  BY DEF TypeOK, WriterTypes
<1>1. CASE UNCHANGED <<forbid, demoted>>
  BY <1>1
<1>2. ASSUME NEW w \in Writers, FlushCheck(w) PROVE NoDemotion'
  BY <1>t, <1>2 DEF FlushCheck, userVars
<1>3. ASSUME NEW w \in Writers, Release(w) \/ Crash(w) \/ NoteFails(w) PROVE NoDemotion'
  BY <1>t, <1>3 DEF Release, Crash, NoteFails, Forgotten, userVars
<1>4. \/ UNCHANGED <<forbid, demoted>>
      \/ \E w \in Writers : FlushCheck(w) \/ Release(w) \/ Crash(w) \/ NoteFails(w)
  <2>1. CASE \E w \in Writers : Step(w)
    BY <2>1 DEF Step, LearnPush, LearnDone, LearnFailed, RoutedSave, Flush, FlushRetire, FlushKey, FlushClaim,
       FlushDefer, Merge, flushVars, userVars
  <2>2. CASE \E w \in Writers : \/ Serve(w) \/ Deliver(w) \/ GiveUp(w) \/ SaveFails(w)
                                \/ \E t \in Targets : Learn(w, t) \/ Routed(w, t)
    BY <2>2 DEF Serve, Deliver, GiveUp, SaveFails, Learn, Routed, flushVars, userVars
  <2>3. CASE User
    BY <2>3 DEF User, Forget, ForgetRemoteOnly, Rescope, RescopeAway, Upload, Read,
       Update, Tighten, UserOp, writerVars
  <2>4. CASE Lapse \/ (\E q \in late : ServeLate(q) \/ Lost(q)) \/ UNCHANGED vars
    BY <2>4 DEF Lapse, ServeLate, Lost, flushVars, userVars, vars
  <2> QED
    BY <2>1, <2>2, <2>3, <2>4 DEF Next
<1> QED
  BY <1>1, <1>2, <1>3, <1>4

\* Without a demotion, a push settles only the delivery it judged.
LEMMA SettlesItsOwn ==
  ASSUME TypeOK, \A w \in Writers : ~demoted[w],
         NEW w \in Writers, Merge(w) \/ LearnDone(w), Queued(row), row.ob # snap[w].ob
  PROVE  row' # NoRow /\ row'.ob = row.ob
<1>1. row \in Rows /\ row # NoRow /\ got[w] \in Ids \union {None}
  BY DEF TypeOK, RowTypes, WriterTypes, Queued
<1>2. CASE Merge(w)
  BY <1>1, <1>2, MergeRow DEF HandedOff, QueuedFor
<1>3. CASE LearnDone(w)
  <2>1. row' = [row EXCEPT !.owe = got[w]]
    BY <1>1, <1>3 DEF LearnDone, QueuedFor, QueueRetire
  <2> QED
    BY <1>1, <2>1, WithOwe
<1> QED
  BY <1>2, <1>3

\* A push settles only the delivery it judged (flushOutbox's merge-back, learn's
\* hand-off): a row retargeted meanwhile stays queued for its new store, if nobody
\* tightens a policy meanwhile or the folder is remote-only.
THEOREM RetargetsSurvive ==
  ASSUME RemoteOnly \/ "tighten" \notin Ops
  PROVE  Spec => RetargetSurvives
<1> DEFINE Act == \A w \in Writers :
                 (Merge(w) \/ LearnDone(w)) /\ Queued(row) /\ row.ob # snap[w].ob
                   => row' # NoRow /\ row'.ob = row.ob
<1>1. CASE RemoteOnly
  <2>1. Init => TypeOK /\ RemoteOnlyInv
    BY <1>1, TypeInit, RemoteOnlyInit
  <2>2. (TypeOK /\ RemoteOnlyInv) /\ [Next]_vars => (TypeOK /\ RemoteOnlyInv)'
    BY <1>1, TypeStep, RemoteOnlyStep
  <2>3. TypeOK /\ RemoteOnlyInv => Act
    BY SettlesItsOwn DEF RemoteOnlyInv
  <2> QED
    BY <2>1, <2>2, <2>3, PTL DEF Spec, RetargetSurvives
<1>2. CASE "tighten" \notin Ops
  <2>1. Init => TypeOK /\ NoDemotion
    BY TypeInit DEF Init, NoDemotion
  <2>2. (TypeOK /\ NoDemotion) /\ [Next]_vars => (TypeOK /\ NoDemotion)'
    BY <1>2, TypeStep, NoDemotionStep
  <2>3. TypeOK /\ NoDemotion => Act
    BY SettlesItsOwn DEF NoDemotion
  <2> QED
    BY <2>1, <2>2, <2>3, PTL DEF Spec, RetargetSurvives
<1> QED
  BY <1>1, <1>2

----------------------------------------------------------------------------
(* Concurrency adds no duplicate *)

\* The copies there are, and the writes that may still become one.
StoredIds == {i \in Ids : Stored(i)}
Writes == Cardinality(StoredIds) + Cardinality(late)
Finite == IsFiniteSet(StoredIds) /\ IsFiniteSet(late)

\* A POST nobody has answered yet, and an answer that has not been recorded.
Asking(w) == pc[w] \in Waiting /\ reply[w] = None
Heard == \E w \in Writers : reply[w] # None \/ got[w] # None
\* May the engram be posted again?
Open == Queued(row) \/ \E w \in Writers : Asking(w) \/ pc[w] = "routedSave"

\* Every write there is but one stands for an attempt that was lost; all of them do
\* while there is no answer and the engram may be posted again.
Accounted == Finite /\ Writes <= lost + 1 /\ (~Heard /\ Open => Writes <= lost)
\* A writer keeps its claim until it has recorded the answer;
ClaimKept ==
  \A w \in Writers :
    /\ reply[w] # None => pc[w] \in Waiting
    /\ got[w] # None => Mine(w)
\* learn keeps the store lock until it has looked at the claim.
LearnLocked == \A w \in Writers : pc[w] = "learnPush" => lockBy = w /\ Queued(row)

\* One element more makes a finite set larger by one at most.
LEMMA AddOne ==
  ASSUME NEW S, IsFiniteSet(S), NEW x
  PROVE  /\ IsFiniteSet(S \union {x}) /\ Cardinality(S \union {x}) \in Nat
         /\ Cardinality(S \union {x}) <= Cardinality(S) + 1
<1>1. Cardinality(S) \in Nat
  BY FS_CardinalityType
<1>2. IsFiniteSet(S \union {x}) /\ Cardinality(S \union {x}) = IF x \in S THEN Cardinality(S) ELSE Cardinality(S) + 1
  BY FS_AddElement
<1> QED
  BY <1>1, <1>2

\* A POST adds at most one copy.
LEMMA StoreCount ==
  ASSUME TypeOK, IsFiniteSet(StoredIds), NEW q \in Requests, Store(q)
  PROVE  /\ IsFiniteSet(StoredIds') /\ Cardinality(StoredIds') \in Nat
         /\ Cardinality(StoredIds') <= Cardinality(StoredIds) + 1
<1> DEFINE more == StoredIds \union {NextId(q)}
<1>1. StoredIds' \subseteq more
  BY StoreAdds DEF StoredIds, Stored, StoredFor
<1>2. IsFiniteSet(more) /\ Cardinality(more) <= Cardinality(StoredIds) + 1
  BY AddOne
<1>3. IsFiniteSet(StoredIds') /\ Cardinality(StoredIds') <= Cardinality(more)
  <2>1. StoredIds' \in SUBSET more
    BY <1>1
  <2> HIDE DEF more
  <2> QED
    BY <1>2, <2>1, FS_Subset
<1> QED
  BY <1>2, <1>3, FS_CardinalityType

\* Only a POST that is served adds or removes a copy.
LEMMA SameCopies ==
  ASSUME TypeOK, [Next]_vars, ~\E w \in Writers : Serve(w), ~\E q \in late : ServeLate(q),
         NEW i \in Ids
  PROVE  Stored(i)' <=> Stored(i)
<1>0. CASE UNCHANGED copies
  BY <1>0 DEF Stored
<1>1. ASSUME NEW w \in Writers, Deliver(w) PROVE Stored(i)' <=> Stored(i)
  <2>1. reply[w] \in Ids /\ Stored(reply[w]) /\ copies' = [copies EXCEPT ![reply[w]].known = TRUE]
    BY <1>1 DEF Deliver, TypeOK, WriterTypes, Answered
  <2> QED
    BY <2>1, CopyTouchedOnly
<1>2. ASSUME NEW w \in Writers, SaveFails(w) \/ Crash(w), got[w] # None PROVE Stored(i)' <=> Stored(i)
  <2>1. got[w] \in Ids /\ Stored(got[w]) /\ copies' = [copies EXCEPT ![got[w]].known = FALSE]
    BY <1>2 DEF SaveFails, Crash, TypeOK, WriterTypes, Answered
  <2> QED
    BY <2>1, CopyTouchedOnly
<1>3. ASSUME NEW w \in Writers, FlushRetire(w) PROVE Stored(i)' <=> Stored(i)
  <2>1. Owes(snap[w]) /\ snap[w].owe \in Ids /\ Stored(snap[w].owe)
    BY <1>3, RowRecord DEF FlushRetire, TypeOK, SetUp, Answered, Owes, WriterTypes
  <2>2. copies' = copies \/ copies' = [copies EXCEPT ![snap[w].owe].live = FALSE]
    BY <1>3 DEF FlushRetire
  <2> QED
    BY <1>0, <2>1, <2>2, CopyTouchedOnly
<1>4. \/ UNCHANGED copies
      \/ \E w \in Writers : Deliver(w) \/ ((SaveFails(w) \/ Crash(w)) /\ got[w] # None) \/ FlushRetire(w)
  <2>1. CASE \E w \in Writers : Step(w)
    BY <2>1 DEF Step, LearnPush, LearnDone, LearnFailed, RoutedSave, Flush, FlushKey, FlushClaim,
       FlushCheck, FlushDefer, Merge, Release, serverVars
  <2>2. CASE \E w \in Writers : GiveUp(w) \/ SaveFails(w) \/ NoteFails(w) \/ Crash(w) \/ \E t \in Targets : Learn(w, t) \/ Routed(w, t)
    BY <2>2 DEF GiveUp, SaveFails, NoteFails, Crash, Learn, Routed, serverVars
  <2>3. CASE User
    BY <2>3 DEF User, Forget, ForgetRemoteOnly, Rescope, RescopeAway, Upload, Read,
       Update, Tighten, serverVars
  <2>4. CASE Lapse \/ (\E q \in late : Lost(q)) \/ UNCHANGED vars
    BY <2>4 DEF Lapse, Lost, serverVars, vars
  <2> QED
    BY <2>1, <2>2, <2>3, <2>4 DEF Next
<1> QED
  BY <1>0, <1>1, <1>2, <1>3, <1>4

\* A step other than an answer, or a request given up on, adds no write.
LEMMA WritesStep ==
  ASSUME TypeOK, Finite, [Next]_vars
  PROVE  /\ Finite' /\ Writes \in Nat /\ Writes' \in Nat /\ Writes' <= Writes + 1
         /\ \/ Writes' <= Writes
            \/ \E w \in Writers : Asking(w) /\ (Serve(w) \/ GiveUp(w) \/ Crash(w))
<1>0. Cardinality(StoredIds) \in Nat /\ Cardinality(late) \in Nat
  BY FS_CardinalityType DEF Finite
<1>1. ASSUME NEW w \in Writers, Serve(w)
      PROVE  /\ IsFiniteSet(StoredIds') /\ Cardinality(StoredIds') \in Nat
             /\ Cardinality(StoredIds') <= Cardinality(StoredIds) + 1 /\ late' = late /\ Asking(w)
  BY <1>1, RequestType, StoreCount DEF Serve, TypeOK, Finite, Asking
<1>2. ASSUME NEW q \in late, ServeLate(q)
      PROVE  /\ IsFiniteSet(StoredIds') /\ Cardinality(StoredIds') \in Nat
             /\ Cardinality(StoredIds') <= Cardinality(StoredIds) + 1
             /\ IsFiniteSet(late') /\ Cardinality(late') = Cardinality(late) - 1
  <2>1. q \in Requests
    BY DEF TypeOK, ServerTypes
  <2>2. late' = late \ {q}
    BY <1>2 DEF ServeLate
  <2> QED
    BY <1>2, <2>1, <2>2, StoreCount, FS_RemoveElement DEF ServeLate, Finite
<1>3. ASSUME ~\E w \in Writers : Serve(w), ~\E q \in late : ServeLate(q)
      PROVE  StoredIds' = StoredIds
  <2>1. ASSUME NEW i \in Ids PROVE Stored(i)' <=> Stored(i)
    BY <1>3, SameCopies
  <2> QED
    BY <2>1 DEF StoredIds, Stored
<1>4. ASSUME NEW q \in late, Lost(q)
      PROVE  IsFiniteSet(late') /\ Cardinality(late') = Cardinality(late) - 1
  BY <1>4, FS_RemoveElement DEF Lost, Finite
<1>5. ASSUME NEW w \in Writers, GiveUp(w) \/ Crash(w), Asking(w)
      PROVE  IsFiniteSet(late') /\ Cardinality(late') \in Nat /\ Cardinality(late') <= Cardinality(late) + 1
  <2>1. late' = late \union {Request(w)}
    BY <1>5 DEF GiveUp, Crash, Abandon, Asking
  <2> QED
    BY <2>1, AddOne DEF Finite
<1>6. \/ late' = late
      \/ \E q \in late : ServeLate(q) \/ Lost(q)
      \/ \E w \in Writers : Asking(w) /\ (GiveUp(w) \/ Crash(w))
  <2>1. ASSUME NEW w \in Writers, GiveUp(w) \/ Crash(w) PROVE late' = late \/ Asking(w)
    BY <2>1 DEF GiveUp, Crash, Abandon, Asking
  <2>2. CASE \E w \in Writers : Step(w)
    BY <2>2 DEF Step, LearnPush, LearnDone, LearnFailed, RoutedSave, Flush, FlushRetire, FlushKey, FlushClaim,
       FlushCheck, FlushDefer, Merge, Release, serverVars
  <2>3. CASE \E w \in Writers : Serve(w) \/ Deliver(w) \/ SaveFails(w) \/ NoteFails(w) \/ \E t \in Targets : Learn(w, t) \/ Routed(w, t)
    BY <2>3 DEF Serve, Deliver, SaveFails, NoteFails, Learn, Routed, serverVars
  <2>4. CASE User
    BY <2>4 DEF User, Forget, ForgetRemoteOnly, Rescope, RescopeAway, Upload, Read,
       Update, Tighten, serverVars
  <2>5. CASE Lapse \/ UNCHANGED vars
    BY <2>5 DEF Lapse, serverVars, vars
  <2> QED
    BY <2>1, <2>2, <2>3, <2>4, <2>5 DEF Next
<1>7. CASE \E w \in Writers : Serve(w)
  BY <1>0, <1>1, <1>7 DEF Finite, Writes
<1>8. CASE \E q \in late : ServeLate(q)
  BY <1>0, <1>2, <1>8, FS_CardinalityType DEF Finite, Writes
<1>9. CASE ~(\E w \in Writers : Serve(w)) /\ ~\E q \in late : ServeLate(q)
  BY <1>0, <1>3, <1>4, <1>5, <1>6, <1>9, FS_CardinalityType DEF Finite, Writes
<1> QED
  BY <1>7, <1>8, <1>9

\* Every step keeps the claim of a writer that has an answer in hand,
LEMMA ClaimKeptStep ==
  ASSUME ~MayLapse, TypeOK, ClaimInv, ClaimKept, [Next]_vars
  PROVE  ClaimKept'
<1> USE DEF ClaimInv, ClaimKept, Goto, Mine, Claiming, Pushing, Waiting, flushVars, writerVars
<1>t. /\ pc \in [Writers -> Stages] /\ claim \in Claims \union {NoClaim}
      /\ reply \in [Writers -> Ids \union {None}] /\ got \in [Writers -> Ids \union {None}]
  BY DEF TypeOK, RowTypes, WriterTypes
<1>0. CASE UNCHANGED vars
  BY <1>t, <1>0 DEF vars
<1>1. ASSUME NEW w \in Writers, NEW t \in Targets, Learn(w, t) PROVE ClaimKept'
  BY <1>t, <1>1 DEF Learn
<1>2. ASSUME NEW w \in Writers, NEW t \in Targets, Routed(w, t) PROVE ClaimKept'
  BY <1>t, <1>2 DEF Routed
<1>3. ASSUME NEW w \in Writers, LearnPush(w) PROVE ClaimKept'
  BY <1>t, <1>3, ClaimRecord DEF LearnPush, Claimable
<1>4. ASSUME NEW w \in Writers, LearnDone(w) PROVE ClaimKept'
  BY <1>t, <1>4 DEF LearnDone
<1>5. ASSUME NEW w \in Writers, RoutedSave(w) PROVE ClaimKept'
  BY <1>t, <1>5 DEF RoutedSave
<1>6. ASSUME NEW w \in Writers, Flush(w) PROVE ClaimKept'
  BY <1>t, <1>6 DEF Flush, ToRetire, ToPush
<1>7. ASSUME NEW w \in Writers, FlushRetire(w) PROVE ClaimKept'
  BY <1>t, <1>7 DEF FlushRetire, ToPush
<1>8. ASSUME NEW w \in Writers, FlushKey(w) PROVE ClaimKept'
  BY <1>t, <1>8 DEF FlushKey, ToRetire, ToPush
<1>9. ASSUME NEW w \in Writers, FlushClaim(w) PROVE ClaimKept'
  BY <1>t, <1>9, ClaimRecord DEF FlushClaim, Skip, Claimable
<1>10. ASSUME NEW w \in Writers, FlushCheck(w) PROVE ClaimKept'
  BY <1>t, <1>10 DEF FlushCheck, Skip
<1>11. ASSUME NEW w \in Writers, FlushDefer(w) PROVE ClaimKept'
  BY <1>t, <1>11 DEF FlushDefer, Skip
<1>12. ASSUME NEW w \in Writers, Merge(w) PROVE ClaimKept'
  BY <1>t, <1>12 DEF Merge
<1>13. ASSUME NEW w \in Writers, Release(w) PROVE ClaimKept'
  BY <1>t, <1>13 DEF Release, Forgotten
<1>14. ASSUME NEW w \in Writers, Serve(w) PROVE ClaimKept'
  BY <1>t, <1>14 DEF Serve
<1>15. ASSUME NEW w \in Writers, Deliver(w) PROVE ClaimKept'
  BY <1>t, <1>15 DEF Deliver
<1>16. ASSUME NEW w \in Writers, GiveUp(w) PROVE ClaimKept'
  BY <1>t, <1>16 DEF GiveUp, Abandon
<1>17. ASSUME NEW w \in Writers, SaveFails(w) PROVE ClaimKept'
  BY <1>t, <1>17 DEF SaveFails
<1>18. ASSUME NEW w \in Writers, Crash(w) PROVE ClaimKept'
  BY <1>t, <1>18, ClaimRecord DEF Crash, Forgotten, Abandon
<1>19. ASSUME NEW q \in late, ServeLate(q) PROVE ClaimKept'
  BY <1>t, <1>19 DEF ServeLate
<1>20. ASSUME NEW q \in late, Lost(q) PROVE ClaimKept'
  BY <1>t, <1>20 DEF Lost
<1>21. CASE Forget
  BY <1>t, <1>21 DEF Forget
<1>22. CASE ForgetRemoteOnly
  BY <1>t, <1>22 DEF ForgetRemoteOnly
<1>23. CASE Rescope
  BY <1>t, <1>23 DEF Rescope
<1>24. CASE RescopeAway
  BY <1>t, <1>24 DEF RescopeAway
<1>25. CASE Upload
  BY <1>t, <1>25 DEF Upload
<1>26. CASE Read
  BY <1>t, <1>26 DEF Read
<1>27. CASE Lapse
  BY <1>t, <1>27, ClaimRecord DEF Lapse
<1>28. ASSUME NEW s \in Scopes, Update(s) PROVE ClaimKept'
  BY <1>t, <1>28 DEF Update
<1>29. ASSUME NEW t \in Targets, Tighten(t) PROVE ClaimKept'
  BY <1>t, <1>29 DEF Tighten
<1>30. ASSUME NEW w \in Writers, LearnFailed(w) PROVE ClaimKept'
  BY <1>t, <1>30 DEF LearnFailed
<1>31. ASSUME NEW w \in Writers, NoteFails(w) PROVE ClaimKept'
  BY <1>t, <1>31 DEF NoteFails, Forgotten
<1> HIDE DEF ClaimInv, ClaimKept, Goto, Mine, Claiming, Pushing, Waiting, flushVars, writerVars
<1> QED
  BY <1>0, <1>1, <1>2, <1>3, <1>4, <1>5, <1>6, <1>7, <1>8, <1>9, <1>10, <1>11, <1>12, <1>13, <1>14, <1>15, <1>16, <1>17, <1>18, <1>19, <1>20, <1>21, <1>22, <1>23, <1>24, <1>25, <1>26, <1>27, <1>28, <1>29,
     <1>30, <1>31 DEF Next, Step, User

\* ... and the lock of a learn that has not looked at the claim yet.
LEMMA LearnLockedStep ==
  ASSUME ~Transactional, TypeOK, LearnLocked, [Next]_vars
  PROVE  LearnLocked'
<1> USE DEF LearnLocked, Goto, Unlocked, UserOp, flushVars, writerVars
<1>t. /\ pc \in [Writers -> Stages] /\ None \notin Writers
      /\ lockBy \in Writers \union {None}
  BY OutboxAssumption DEF TypeOK, RowTypes, WriterTypes
<1>n. \A t \in Targets, k \in Keys : Queued(NewRow(t, k))
  BY NewRowType
<1>0. CASE UNCHANGED vars
  BY <1>t, <1>0 DEF vars
<1>1. ASSUME NEW w \in Writers, NEW t \in Targets, Learn(w, t) PROVE LearnLocked'
  <2>1. keys' \in Keys
    BY <1>1, OutboxAssumption DEF Learn, TypeOK, RowTypes, Keys
  <2> QED
    BY <1>t, <1>n, <1>1, <2>1 DEF Learn
<1>2. ASSUME NEW w \in Writers, NEW t \in Targets, Routed(w, t) PROVE LearnLocked'
  BY <1>t, <1>2 DEF Routed
<1>3. ASSUME NEW w \in Writers, LearnPush(w) PROVE LearnLocked'
  BY <1>t, <1>3, ClaimRecord DEF LearnPush, Claimable
<1>4. ASSUME NEW w \in Writers, LearnDone(w) PROVE LearnLocked'
  BY <1>t, <1>4 DEF LearnDone
<1>5. ASSUME NEW w \in Writers, RoutedSave(w) PROVE LearnLocked'
  BY <1>t, <1>5 DEF RoutedSave
<1>6. ASSUME NEW w \in Writers, Flush(w) PROVE LearnLocked'
  BY <1>t, <1>6 DEF Flush, ToRetire, ToPush
<1>7. ASSUME NEW w \in Writers, FlushRetire(w) PROVE LearnLocked'
  BY <1>t, <1>7 DEF FlushRetire, ToPush
<1>8. ASSUME NEW w \in Writers, FlushKey(w) PROVE LearnLocked'
  BY <1>t, <1>8 DEF FlushKey, ToRetire, ToPush
<1>9. ASSUME NEW w \in Writers, FlushClaim(w) PROVE LearnLocked'
  BY <1>t, <1>9, ClaimRecord DEF FlushClaim, Skip, Claimable
<1>10. ASSUME NEW w \in Writers, FlushCheck(w) PROVE LearnLocked'
  BY <1>t, <1>10 DEF FlushCheck, Skip
<1>11. ASSUME NEW w \in Writers, FlushDefer(w) PROVE LearnLocked'
  BY <1>t, <1>11 DEF FlushDefer, Skip
<1>12. ASSUME NEW w \in Writers, Merge(w) PROVE LearnLocked'
  BY <1>t, <1>12 DEF Merge
<1>13. ASSUME NEW w \in Writers, Release(w) PROVE LearnLocked'
  BY <1>t, <1>13 DEF Release, Forgotten
<1>14. ASSUME NEW w \in Writers, Serve(w) PROVE LearnLocked'
  BY <1>t, <1>14 DEF Serve
<1>15. ASSUME NEW w \in Writers, Deliver(w) PROVE LearnLocked'
  BY <1>t, <1>15 DEF Deliver
<1>16. ASSUME NEW w \in Writers, GiveUp(w) PROVE LearnLocked'
  BY <1>t, <1>16 DEF GiveUp, Abandon, Waiting
<1>17. ASSUME NEW w \in Writers, SaveFails(w) PROVE LearnLocked'
  BY <1>t, <1>17 DEF SaveFails
<1>18. ASSUME NEW w \in Writers, Crash(w) PROVE LearnLocked'
  BY <1>t, <1>18, ClaimRecord DEF Crash, Forgotten, Abandon
<1>19. ASSUME NEW q \in late, ServeLate(q) PROVE LearnLocked'
  BY <1>t, <1>19 DEF ServeLate
<1>20. ASSUME NEW q \in late, Lost(q) PROVE LearnLocked'
  BY <1>t, <1>20 DEF Lost
<1>21. CASE Forget
  BY <1>t, <1>21 DEF Forget
<1>22. CASE ForgetRemoteOnly
  BY <1>t, <1>22 DEF ForgetRemoteOnly
<1>23. CASE Rescope
  BY <1>t, <1>23 DEF Rescope
<1>24. CASE RescopeAway
  BY <1>t, <1>24 DEF RescopeAway
<1>25. CASE Upload
  BY <1>t, <1>25 DEF Upload
<1>26. CASE Read
  BY <1>t, <1>26 DEF Read
<1>27. CASE Lapse
  BY <1>t, <1>27 DEF Lapse
<1>28. ASSUME NEW s \in Scopes, Update(s) PROVE LearnLocked'
  BY <1>t, <1>28 DEF Update
<1>29. ASSUME NEW t \in Targets, Tighten(t) PROVE LearnLocked'
  BY <1>t, <1>29 DEF Tighten
<1>30. ASSUME NEW w \in Writers, LearnFailed(w) PROVE LearnLocked'
  BY <1>t, <1>30 DEF LearnFailed
<1>31. ASSUME NEW w \in Writers, NoteFails(w) PROVE LearnLocked'
  BY <1>t, <1>31 DEF NoteFails, Forgotten
<1> HIDE DEF LearnLocked, Goto, Unlocked, UserOp, flushVars, writerVars
<1> QED
  BY <1>0, <1>1, <1>2, <1>3, <1>4, <1>5, <1>6, <1>7, <1>8, <1>9, <1>10, <1>11, <1>12, <1>13, <1>14, <1>15, <1>16, <1>17, <1>18, <1>19, <1>20, <1>21, <1>22, <1>23, <1>24, <1>25, <1>26, <1>27, <1>28, <1>29,
     <1>30, <1>31 DEF Next, Step, User

\* A writer that has posted, or has an answer in hand, is the only one.
Engaged(w) == pc[w] \in Waiting \/ got[w] # None
LEMMA EngagedAlone ==
  ASSUME TypeOK, ClaimInv, ClaimKept, RoutedAlone, InHand,
         NEW w \in Writers, Engaged(w), NEW v \in Writers
  PROVE  /\ Engaged(v) => v = w
         /\ pc[v] = "routedSave" => FALSE
         /\ got[w] # None => ~Asking(v)
<1>1. ASSUME NEW u \in Writers, pc[u] \in {"routedWait", "routedSave"}, NEW x \in Writers \ {u}
      PROVE  ~Engaged(x)
  <2>1. snap[x] = NoRow
    BY <1>1 DEF RoutedAlone
  <2>2. pc[x] = "idle"
    BY <2>1 DEF TypeOK, SetUp
  <2> QED
    BY <2>2 DEF InHand, Engaged, Waiting
<1>2. ASSUME NEW u \in Writers, Engaged(u), pc[u] # "routedWait" PROVE Mine(u)
  BY <1>2 DEF Engaged, ClaimInv, ClaimKept, Claiming, Pushing, Waiting
<1>3. Engaged(v) => v = w
  BY <1>1, <1>2 DEF Mine
<1>4. pc[v] # "routedSave"
  BY <1>1 DEF Engaged, Waiting, InHand
<1>5. got[w] # None => ~Asking(v)
  <2>1. Asking(v) => Engaged(v)
    BY DEF Asking, Engaged
  <2>2. got[w] # None => ~(pc[w] \in Waiting)
    BY DEF InHand, Waiting
  <2> QED
    BY <1>3, <2>1, <2>2 DEF Asking
<1> QED
  BY <1>3, <1>4, <1>5

\* While a POST has no answer, nobody else has one.
LEMMA AskingAlone ==
  ASSUME TypeOK, ClaimInv, ClaimKept, RoutedAlone, InHand, NEW w \in Writers, Asking(w)
  PROVE  ~Heard /\ Open
<1>1. Engaged(w) /\ reply[w] = None /\ got[w] = None
  BY DEF Engaged, Asking, InHand, Waiting
<1>2. ASSUME NEW v \in Writers, reply[v] # None \/ got[v] # None PROVE Engaged(v)
  BY <1>2 DEF Engaged, ClaimKept
<1> QED
  BY <1>1, <1>2, EngagedAlone DEF Heard, Open

\* The hand-off and the merge-back of an answer take the row out of the queue.
LEMMA AnswerCloses ==
  ASSUME TypeOK, NEW t \in Targets, WriterInv(t),
         NEW w \in Writers, LearnDone(w) \/ Merge(w), got[w] # None
  PROVE  ~Queued(row)'
<1>t. /\ row \in Rows \union {NoRow} /\ got[w] \in Ids /\ keys \in 0..MaxKeys
      /\ snap[w] # NoRow /\ snap[w].ob = t /\ snap[w].key # NoKey /\ snap[w].key <= keys /\ keys <= 1
      /\ snap[w].key \in Keys \union {NoKey}
  BY RowRecord DEF TypeOK, RowTypes, WriterTypes, SetUp, LearnDone, Merge, WriterInv, InHand, OneTarget, OneKey
<1>1. snap[w].key = keys
  BY <1>t, OutboxAssumption DEF Keys, NoKey
<1>2. Queued(row) => row.ob = t /\ row.at = t /\ row.key = keys
  BY <1>t DEF WriterInv, OneTarget, OneKey, InPlace, Queued
<1>3. CASE row = NoRow
  BY <1>3 DEF LearnDone, Merge, StruckOff, Merged, Queued
<1>4. CASE row # NoRow /\ LearnDone(w)
  <2>1. row' = NoRow \/ (~Queued(row) /\ row' = [row EXCEPT !.owe = got[w]])
    BY <1>t, <1>2, <1>4 DEF LearnDone, QueuedFor, QueueRetire
  <2> QED
    BY <1>t, <1>4, <2>1, WithOwe DEF Queued
<1>5. CASE row # NoRow /\ Merge(w)
  BY <1>t, <1>1, <1>2, <1>5, MergeRow DEF HandedOff, QueuedFor, Queued
<1> QED
  BY <1>3, <1>4, <1>5

\* Without an answer, a merge-back queues nothing.
LEMMA NoAnswerQueues ==
  ASSUME TypeOK, NEW w \in Writers, Merge(w), got[w] = None, Queued(row)'
  PROVE  Queued(row)
<1>1. CASE row = NoRow
  BY <1>1 DEF Merge, StruckOff, Merged, Queued
<1>2. CASE row # NoRow
  BY <1>2, MergeRow DEF Queued
<1> QED
  BY <1>1, <1>2

\* An upload queues a row only if there has been no key before.
LEMMA UploadFirst ==
  ASSUME TypeOK, Unmoved, NEW t \in Targets, WriterInv(t), Upload, row' # NoRow, row'.ob # None
  PROVE  keys = 0
<1>1. row # NoRow /\ row.st = "active" /\ row.at # Local /\ row.ob = None /\ keys \in 0..MaxKeys
  BY UploadRow, OutboxAssumption DEF TypeOK, RowTypes
<1> QED
  BY <1>1, OutboxAssumption DEF WriterInv, InPlace, Closed

\* When nobody has an answer and the engram may be posted again, that was so before,
\* or an attempt has been lost, or nothing had been posted.
Reopens == ~Heard' /\ Open' => (~Heard /\ Open) \/ lost' = lost + 1 \/ keys = 0
LEMMA ReopenStep ==
  ASSUME TypeOK, Unmoved, ~MayLapse, ClaimInv, ClaimKept, LearnLocked, NEW u \in Targets, WriterInv(u), [Next]_vars,
         ~\E w \in Writers, t \in Targets : Learn(w, t) \/ Routed(w, t)
  PROVE  Reopens
<1> USE DEF Reopens, Heard, Open, Asking, Goto, Waiting, flushVars, writerVars
<1>i. RoutedAlone /\ InHand
  BY DEF WriterInv
<1>t. /\ pc \in [Writers -> Stages] /\ snap \in [Writers -> Rows \union {NoRow}]
      /\ reply \in [Writers -> Ids \union {None}] /\ got \in [Writers -> Ids \union {None}]
  BY DEF TypeOK, WriterTypes
<1>s. /\ \A w \in Writers : /\ reply[w] # None => pc[w] \in Waiting
                            /\ got[w] # None => pc[w] \in {"learnDone", "merge"}
                            /\ pc[w] = "learnDone" => got[w] # None
                            /\ pc[w] = "learnPush" => Queued(row)
      /\ \A w \in Writers : pc[w] = "routedWait" => row = NoRow /\ \A v \in Writers \ {w} : pc[v] = "idle"
  BY <1>i DEF ClaimKept, InHand, LearnLocked, RoutedAlone, TypeOK, SetUp
<1>0. CASE UNCHANGED vars
  BY <1>t, <1>s, <1>0 DEF vars
<1>3. ASSUME NEW w \in Writers, LearnPush(w) PROVE Reopens
  BY <1>t, <1>s, <1>3, ClaimRecord DEF LearnPush, Claimable
<1>4. ASSUME NEW w \in Writers, LearnDone(w) PROVE Reopens
  <2>1. got[w] # None
    BY <1>s, <1>4 DEF LearnDone
  <2>2. ~Queued(row)'
    BY <1>4, <2>1, AnswerCloses
  <2>3. \A v \in Writers : ~Asking(v) /\ pc[v] # "routedSave"
    BY <2>1, <1>i, EngagedAlone DEF Engaged
  <2> QED
    BY <1>t, <1>4, <2>2, <2>3 DEF LearnDone
<1>5. ASSUME NEW w \in Writers, RoutedSave(w) PROVE Reopens
  BY <1>t, <1>5 DEF RoutedSave
<1>6. ASSUME NEW w \in Writers, Flush(w) PROVE Reopens
  BY <1>t, <1>s, <1>6 DEF Flush, ToRetire, ToPush
<1>7. ASSUME NEW w \in Writers, FlushRetire(w) PROVE Reopens
  BY <1>t, <1>s, <1>7 DEF FlushRetire, ToPush
<1>8. ASSUME NEW w \in Writers, FlushKey(w) PROVE Reopens
  <2>1. Queued(row)' => Queued(row)
    BY <1>8, FlushKeyRow DEF Queued
  <2> QED
    BY <1>t, <1>8, <2>1 DEF FlushKey, ToRetire, ToPush
<1>9. ASSUME NEW w \in Writers, FlushClaim(w) PROVE Reopens
  BY <1>t, <1>s, <1>9, ClaimRecord DEF FlushClaim, Skip, Claimable
<1>10. ASSUME NEW w \in Writers, FlushCheck(w) PROVE Reopens
  BY <1>t, <1>s, <1>10 DEF FlushCheck, Skip
<1>11. ASSUME NEW w \in Writers, FlushDefer(w) PROVE Reopens
  BY <1>t, <1>s, <1>11 DEF FlushDefer, Skip
<1>12. ASSUME NEW w \in Writers, Merge(w) PROVE Reopens
  <2>1. CASE got[w] = None
    <3>1. Queued(row)' => Queued(row)
      BY <1>12, <2>1, NoAnswerQueues
    <3> QED
      BY <1>t, <1>12, <2>1, <3>1 DEF Merge
  <2>2. CASE got[w] # None
    <3>1. ~Queued(row)'
      BY <1>12, <2>2, AnswerCloses
    <3>2. \A v \in Writers : ~Asking(v) /\ pc[v] # "routedSave"
      BY <2>2, <1>i, EngagedAlone DEF Engaged
    <3> QED
      BY <1>t, <1>12, <3>1, <3>2 DEF Merge
  <2> QED
    BY <2>1, <2>2
<1>13. ASSUME NEW w \in Writers, Release(w) PROVE Reopens
  <2>1. got[w] = None
    BY <1>s, <1>13 DEF Release
  <2> QED
    BY <1>t, <1>13, <2>1 DEF Release, Forgotten
<1>14. ASSUME NEW w \in Writers, Serve(w) PROVE Reopens
  BY <1>t, <1>s, <1>14 DEF Serve
<1>15. ASSUME NEW w \in Writers, Deliver(w) PROVE Reopens
  <2>1. CASE pc[w] = "routedWait"
    <3>1. row = NoRow /\ \A v \in Writers \ {w} : pc[v] = "idle"
      BY <1>s, <2>1
    <3>2. row' = NoRow
      BY <1>15, <3>1 DEF Deliver
    <3> QED
      BY <1>t, <1>15, <2>1, <3>1, <3>2 DEF Deliver, Queued
  <2>2. CASE pc[w] # "routedWait"
    <3>1. got'[w] # None
      BY <1>t, <1>15, <2>2 DEF Deliver
    <3> QED
      BY <3>1 DEF Heard
  <2> QED
    BY <2>1, <2>2
<1>16. ASSUME NEW w \in Writers, GiveUp(w) PROVE Reopens
  BY <1>t, <1>s, <1>16 DEF GiveUp, Abandon
<1>17. ASSUME NEW w \in Writers, SaveFails(w) PROVE Reopens
  BY <1>t, <1>s, <1>17 DEF SaveFails
<1>18. ASSUME NEW w \in Writers, Crash(w) PROVE Reopens
  BY <1>t, <1>s, <1>18, ClaimRecord DEF Crash, Forgotten, Abandon
<1>19. ASSUME NEW q \in late, ServeLate(q) PROVE Reopens
  BY <1>t, <1>s, <1>19 DEF ServeLate
<1>20. ASSUME NEW q \in late, Lost(q) PROVE Reopens
  BY <1>t, <1>s, <1>20 DEF Lost
<1>21. CASE Forget
  <2>1. row \in Rows
    BY <1>21 DEF Forget, TypeOK, RowTypes
  <2>2. ~Queued(row)'
    BY <1>21, <2>1, WithoutEntry DEF Forget, Queued
  <2> QED
    BY <1>t, <1>21, <2>2 DEF Forget
<1>22. CASE ForgetRemoteOnly
  BY <1>t, <1>22 DEF ForgetRemoteOnly, Queued
<1>23. CASE Rescope
  <2>1. row \in Rows
    BY <1>23 DEF Rescope, TypeOK, RowTypes
  <2>2. ~Queued(row)'
    BY <1>23, <2>1, WithoutEntry DEF Rescope, Queued
  <2> QED
    BY <1>t, <1>23, <2>2 DEF Rescope
<1>24. CASE RescopeAway
  <2>1. row \in Rows
    BY <1>24 DEF RescopeAway, TypeOK, RowTypes
  <2>2. ~Queued(row)'
    BY <1>24, <2>1, RetiredRow DEF RescopeAway, Queued
  <2> QED
    BY <1>t, <1>24, <2>2 DEF RescopeAway
<1>25. CASE Upload
  <2>1. keys = 0 \/ ~Queued(row)'
    BY <1>25, UploadFirst DEF Queued
  <2> QED
    BY <1>t, <1>25, <2>1 DEF Upload
<1>26. CASE Read
  BY <1>t, <1>s, <1>26 DEF Read
<1>27. CASE Lapse
  BY <1>t, <1>s, <1>27 DEF Lapse
<1>28. ASSUME NEW s \in Scopes, Update(s) PROVE Reopens
  <2>1. RemoteOnly /\ RemoteOnlyInv
    BY <1>28 DEF Unmoved, Update, UserOp
  <2>2. Queued(row)' => Queued(row)
    <3>1. CASE row = NoRow
      BY <1>28, <3>1 DEF Update, Queued
    <3>2. CASE row # NoRow
      BY <1>28, <2>1, <3>2 DEF RemoteOnlyInv
    <3> QED
      BY <3>1, <3>2
  <2> QED
    BY <1>t, <1>28, <2>2 DEF Update
<1>29. ASSUME NEW t \in Targets, Tighten(t) PROVE Reopens
  BY <1>t, <1>s, <1>29 DEF Tighten
<1>30. ASSUME NEW w \in Writers, LearnFailed(w) PROVE Reopens
  BY <1>t, <1>s, <1>30 DEF LearnFailed
<1>31. ASSUME NEW w \in Writers, NoteFails(w) PROVE Reopens
  BY <1>t, <1>s, <1>31 DEF NoteFails, Forgotten
<1> HIDE DEF Reopens, Heard, Open, Asking, Goto, Waiting, flushVars, writerVars
<1> QED
  BY <1>0, <1>3, <1>4, <1>5, <1>6, <1>7, <1>8, <1>9, <1>10, <1>11, <1>12, <1>13, <1>14, <1>15, <1>16, <1>17, <1>18, <1>19, <1>20, <1>21, <1>22, <1>23, <1>24, <1>25, <1>26, <1>27, <1>28, <1>29,
     <1>30, <1>31 DEF Next, Step, User

\* Attempts that are lost are counted, and stay so.
LEMMA LostStep ==
  ASSUME TypeOK, [Next]_vars
  PROVE  /\ lost \in Nat /\ lost' \in Nat /\ lost <= lost'
         /\ \A w \in Writers : Asking(w) /\ (GiveUp(w) \/ Crash(w)) => lost' = lost + 1
<1>1. lost \in Nat
  BY OutboxAssumption DEF TypeOK, UserTypes
<1>2. lost' = lost \/ lost' = lost + 1
  <2>1. CASE \E w \in Writers : Step(w)
    BY <2>1 DEF Step, LearnPush, LearnDone, LearnFailed, RoutedSave, Flush, FlushRetire, FlushKey, FlushClaim,
       FlushCheck, FlushDefer, Merge, Release, faults
  <2>2. CASE \E w \in Writers : \/ Serve(w) \/ Deliver(w) \/ GiveUp(w) \/ SaveFails(w) \/ NoteFails(w) \/ Crash(w)
                                \/ \E t \in Targets : Learn(w, t) \/ Routed(w, t)
    BY <2>2 DEF Serve, Deliver, GiveUp, SaveFails, NoteFails, Crash, Learn, Routed, faults
  <2>3. CASE User
    BY <2>3 DEF User, Forget, ForgetRemoteOnly, Rescope, RescopeAway, Upload, Read,
       Update, Tighten, faults
  <2>4. CASE Lapse \/ (\E q \in late : ServeLate(q) \/ Lost(q)) \/ UNCHANGED vars
    BY <2>4 DEF Lapse, ServeLate, Lost, faults, vars
  <2> QED
    BY <2>1, <2>2, <2>3, <2>4 DEF Next
<1>3. ASSUME NEW w \in Writers, Asking(w), GiveUp(w) \/ Crash(w) PROVE lost' = lost + 1
  BY <1>3 DEF Asking, GiveUp, Crash
<1> QED
  BY <1>1, <1>2, <1>3

\* Before there is a key, there is nothing to post.
LEMMA NothingPosted ==
  ASSUME TypeOK, NEW t \in Targets, DeliveryInv(t), keys = 0
  PROVE  Finite /\ Writes = 0
<1>1. late = {}
  <2>1. \A q \in late : q.key \in Keys
    BY DEF TypeOK, ServerTypes, Requests
  <2> QED
    BY <2>1, OutboxAssumption DEF DeliveryInv, ServerInv, Keys
<1>2. StoredIds = {}
  <2>1. \A i \in Ids : i[2] \in Keys
    BY DEF Ids
  <2> QED
    BY <2>1, OutboxAssumption DEF DeliveryInv, ServerInv, Keys, StoredIds
<1> QED
  BY <1>1, <1>2, FS_EmptySet DEF Finite, Writes

\* Every step keeps the account.
LEMMA AccountedStep ==
  ASSUME TypeOK, Unmoved, ~MayLapse, ClaimInv, ClaimKept, LearnLocked,
         NEW t \in Targets, DeliveryInv(t), Accounted, [Next]_vars
  PROVE  Accounted'
<1>i. WriterInv(t) /\ RoutedAlone /\ InHand
  BY DEF DeliveryInv, WriterInv
<1>1. Finite' /\ Writes \in Nat /\ Writes' \in Nat
  BY WritesStep DEF Accounted
<1>2. PICK n \in Nat, m \in Nat : n = Writes /\ m = Writes'
  BY <1>1
<1>3. PICK k \in Nat, l \in Nat : k = lost /\ l = lost' /\ k <= l
  BY LostStep
<1>4. /\ m <= n + 1
      /\ m <= n \/ \E w \in Writers : Asking(w) /\ (Serve(w) \/ GiveUp(w) \/ Crash(w))
  BY <1>2, WritesStep DEF Accounted
<1>5. n <= k + 1 /\ (~Heard /\ Open => n <= k)
  BY <1>2, <1>3 DEF Accounted
<1>9. /\ k <= l /\ m <= n /\ n <= k + 1 => m <= l + 1
      /\ k <= l /\ m <= n + 1 /\ n <= k => m <= l + 1
  OBVIOUS
<1>6. ASSUME m <= l + 1, ~Heard' /\ Open' => m <= l PROVE Accounted'
  BY <1>1, <1>2, <1>3, <1>6 DEF Accounted
<1>7. CASE \E w \in Writers, u \in Targets : Learn(w, u) \/ Routed(w, u)
  <2>1. keys = 0
    BY <1>7 DEF Learn, Routed, Unborn
  <2>2. \A w \in Writers : ~Asking(w)
    <3>1. \A w \in Writers : snap[w] = NoRow
      BY <1>7 DEF Learn, Routed, Unborn
    <3>2. \A w \in Writers : pc[w] = "idle"
      BY <3>1 DEF TypeOK, SetUp
    <3> QED
      BY <3>2 DEF Asking, Waiting
  <2>3. n = 0 /\ m <= n
    BY <1>2, <1>4, <2>1, <2>2, NothingPosted
  <2>4. m <= l /\ m <= l + 1
    BY <2>3
  <2> QED
    BY <1>6, <2>4
<1>8. CASE ~\E w \in Writers, u \in Targets : Learn(w, u) \/ Routed(w, u)
  <2>1. ASSUME ~Heard', Open' PROVE (~Heard /\ Open) \/ l = k + 1 \/ n = 0
    BY <1>i, <1>2, <1>3, <1>8, <2>1, ReopenStep, NothingPosted DEF Reopens
  <2>2. CASE m <= n
    <3>1. m <= l + 1
      BY <1>3, <1>5, <1>9, <2>2
    <3>2. ASSUME ~Heard', Open' PROVE m <= l
      <4>1. n <= k \/ l = k + 1 \/ n = 0
        BY <1>5, <2>1, <3>2
      <4> QED
        BY <1>3, <1>5, <2>2, <4>1
    <3> QED
      BY <1>6, <3>1, <3>2
  <2>3. ASSUME NEW w \in Writers, Asking(w), Serve(w) PROVE Accounted'
    <3>1. n <= k
      BY <1>i, <1>5, <2>3, AskingAlone
    <3>2. m <= l + 1
      BY <1>3, <1>4, <1>9, <3>1
    <3>3. Heard'
      <4>1. reply'[w] = IdFor(Request(w)) /\ IdFor(Request(w)) \in Ids
        BY <2>3 DEF Serve, Store, TypeOK, WriterTypes
      <4> QED
        BY <4>1, NoneAssumption DEF Heard
    <3> QED
      BY <1>6, <3>2, <3>3
  <2>4. ASSUME NEW w \in Writers, Asking(w), GiveUp(w) \/ Crash(w) PROVE Accounted'
    <3>1. n <= k
      BY <1>i, <1>5, <2>4, AskingAlone
    <3>2. l = k + 1
      BY <1>3, <2>4, LostStep
    <3>3. m <= l /\ m <= l + 1
      BY <1>4, <3>1, <3>2
    <3> QED
      BY <1>6, <3>3
  <2> QED
    BY <1>4, <2>2, <2>3, <2>4
<1> QED
  BY <1>7, <1>8

\* Retries are the only source of duplicates (learn's background push and hand-off,
\* learnRouted, flushOutbox), if claims do not lapse under a live owner, the store
\* does not defer the push past its lock, and no update moves the row: a server
\* holds at most one copy of a write more than there were attempts that were lost.
THEOREM ConcurrencyDuplicatesNothing ==
  ASSUME ~MayLapse, ~Transactional, "update" \notin Ops \/ RemoteOnly
  PROVE  Spec => []ConcurrencyAddsNoDuplicates
<1>1. CASE Targets = {}
  <2>1. ConcurrencyAddsNoDuplicates
    BY <1>1 DEF ConcurrencyAddsNoDuplicates, Servers
  <2> QED
    BY <2>1, PTL
<1>2. CASE Targets # {}
  <2> DEFINE Inv == /\ TypeOK /\ (RemoteOnly => RemoteOnlyInv) /\ \E t \in Targets : DeliveryInv(t)
                    /\ ClaimInv /\ ClaimKept /\ LearnLocked /\ Accounted
  <2>1. Init => Inv
    <3> SUFFICES ASSUME Init PROVE Inv
      OBVIOUS
    <3>1. TypeOK /\ (RemoteOnly => RemoteOnlyInv) /\ \E t \in Targets : DeliveryInv(t)
      BY <1>2, TypeInit, RemoteOnlyInit, DeliveryInit
    <3>2. ClaimInv /\ ClaimKept /\ LearnLocked
      BY DEF Init, ClaimInv, Claiming, Pushing, ClaimKept, LearnLocked
    <3>3. Accounted
      <4>1. Finite /\ Writes = 0
        BY <3>1, NothingPosted DEF Init
      <4> QED
        BY <4>1 DEF Init, Accounted
    <3> QED
      BY <3>1, <3>2, <3>3
  <2>2. Inv /\ [Next]_vars => Inv'
    <3> SUFFICES ASSUME Inv, [Next]_vars PROVE Inv'
      OBVIOUS
    <3>1. Unmoved
      BY DEF Unmoved
    <3>2. TypeOK' /\ (RemoteOnly => RemoteOnlyInv') /\ \E t \in Targets : DeliveryInv(t)'
      BY <3>1, TypeStep, RemoteOnlyStep, DeliveryStep
    <3>3. ClaimInv' /\ ClaimKept' /\ LearnLocked'
      BY ClaimStep, ClaimKeptStep, LearnLockedStep
    <3>4. Accounted'
      BY <3>1, AccountedStep
    <3> QED
      BY <3>2, <3>3, <3>4
  <2>3. Inv => ConcurrencyAddsNoDuplicates
    <3> SUFFICES ASSUME Inv, NEW s \in Servers, NEW k \in Keys
                 PROVE  Cardinality({i \in CopiesOf(s, k) : want.ver = 0 \/ copies[i].t = want.at}) <= 1 + lost
      BY DEF ConcurrencyAddsNoDuplicates
    <3> DEFINE mine == {i \in CopiesOf(s, k) : want.ver = 0 \/ copies[i].t = want.at}
    <3>1. mine \in SUBSET StoredIds
      BY DEF CopiesOf, StoredIds
    <3>2. Finite /\ Writes <= lost + 1 /\ lost \in Nat
      BY OutboxAssumption DEF Accounted, TypeOK, UserTypes
    <3> HIDE DEF mine
    <3>3. IsFiniteSet(mine) /\ Cardinality(mine) <= Cardinality(StoredIds)
      BY <3>1, <3>2, FS_Subset DEF Finite
    <3>4. Cardinality(mine) \in Nat /\ Cardinality(StoredIds) \in Nat /\ Cardinality(late) \in Nat
      BY <3>2, <3>3, FS_CardinalityType DEF Finite
    <3>5. Cardinality(mine) <= 1 + lost
      BY <3>2, <3>3, <3>4 DEF Writes
    <3> QED
      BY <3>5 DEF mine
  <2> HIDE DEF Inv
  <2> QED
    BY <2>1, <2>2, <2>3, PTL DEF Spec
<1> QED
  BY <1>1, <1>2
=============================================================================
