--------------------------- MODULE LearningProofs ---------------------------
(***************************************************************************)
(* What is proved of Learning, for any number of calls, statements, rows,  *)
(* faults and acts of the user: the types; that deciding a review retires  *)
(* one memory at most; that a locked memory is not superseded by a save;   *)
(* and that what was proposed onto one is queued for review, and waits.    *)
(***************************************************************************)
EXTENDS Learning, FiniteSetTheorems, TLAPS

Saves ==
  [at : {"no", "hashed", "asked", "learn", "readback", "hold", "holding", "review", "done", "dead"},
   statement : Statements \union {NoRow}, answer : {"ADD", "NOOP", "UPDATE"},
   target : RowIds \union {0}, plan : {"plain", "beside", "supersede"},
   id : RowIds \union {0}, got : Rows \union {NoRow}, tries : {0, 1}]
Decisions ==
  [at : {"no", "winner", "promote", "retire", "demoting", "demote", "release", "done", "failed", "dead"},
   pair : Pairs \union {{}}, winner : RowIds \union {0}, before : {"none", "detected", "confirmed"},
   seen : Rows \union {NoRow}, promoted : BOOLEAN]
Reviews == [status : {"none", "detected", "confirmed", "dismissed", "resolved"}, winner : RowIds \union {0}]

LearningTypeOK ==
  /\ rows \in [RowIds -> Rows \union {NoRow}]
  /\ reviews \in [Pairs -> Reviews]
  /\ saving \in [Savers -> Saves]
  /\ deciding \in [Deciders -> Decisions]
  /\ troubles \in Nat /\ userActs \in Nat
  /\ held \in SUBSET RowIds /\ reported \in SUBSET (RowIds \union {0})
  /\ retiredFor \in [Pairs -> SUBSET RowIds] /\ brokenUndo \in SUBSET Pairs

\* What a save has in hand: the rows it names were saved.
Knows(v, used) ==
  /\ v.at # "no" => v.statement \in Statements
  /\ v.at = "asked" => v.answer = "ADD" \/ v.target \in used
  /\ v.at = "learn" => v.plan = "plain" \/ v.target \in used
  /\ v.at \in {"readback", "hold", "holding", "review"} => v.id \in used /\ v.target \in used
  /\ v.at \in {"readback", "holding"} => v.got \in Rows
SaveKnows == \A p \in Savers : Knows(saving[p], Used)

\* A decision that has claimed its record, and not let go of it.
Claiming(q) == deciding[q].at \in {"winner", "promote", "retire", "demoting", "demote", "release"}

\* What a decision has in hand: the record is its own.
DecisionKnows ==
  \A q \in Deciders :
    /\ Claiming(q) => /\ deciding[q].pair \in Pairs /\ deciding[q].winner \in deciding[q].pair
                      /\ deciding[q].before \in {"detected", "confirmed"}
                      /\ reviews[deciding[q].pair].status = "resolved"
                      /\ reviews[deciding[q].pair].winner = deciding[q].winner
    /\ deciding[q].at \in {"promote", "demote"} => deciding[q].seen \in Rows
ClaimedOnce ==
  \A q, e \in Deciders : Claiming(q) /\ Claiming(e) /\ deciding[q].pair = deciding[e].pair => q = e

\* A recorded review is of two memories, and has a winner once it is decided.
Reviewed ==
  \A pair \in Pairs : /\ reviews[pair].status # "none" => pair \subseteq Used
                      /\ reviews[pair].status # "resolved" => reviews[pair].winner = 0

LearningInv == LearningTypeOK /\ SaveKnows /\ DecisionKnows /\ ClaimedOnce /\ Reviewed

\* A memory is retired for a pair by the decision that held its record; nobody claims
\* the record after that.
RetiredOnce ==
  \A pair \in Pairs :
    /\ retiredFor[pair] # {} => /\ reviews[pair].status = "resolved"
                                /\ \A q \in Deciders : Claiming(q) => deciding[q].pair # pair
    /\ \A r, u \in retiredFor[pair] : r = u

\* The superseders of a row are rows; so are those of a copy that may be written back.
Sources ==
  /\ \A r \in Used : rows[r].supersededBy \subseteq Used
  /\ \A p \in Savers : saving[p].at \in {"readback", "holding"} => saving[p].got.supersededBy \subseteq Used
  /\ \A q \in Deciders : deciding[q].at \in {"promote", "demote"} => deciding[q].seen.supersededBy \subseteq Used

\* Why a held row may be given: the undoing of a decision for it failed, or the record
\* is decided for it and whoever claims it has promoted it and not yet let go.
Allowed(pair, r) ==
  \/ pair \in brokenUndo
  \/ /\ reviews[pair].winner = r
     /\ \A q \in Deciders :
          Claiming(q) /\ deciding[q].pair = pair
            => deciding[q].promoted /\ deciding[q].at \in {"retire", "demoting", "demote"}
Waits == /\ held \subseteq Used
         /\ \A r \in held : Given(r) => \E pair \in Pairs : r \in pair /\ Allowed(pair, r)

\* A save that is about to open the review of the row it has held, or died before.
Opening(p, r) ==
  /\ saving[p].id = r
  /\ \/ saving[p].at = "dead"
     \/ saving[p].id # saving[p].target /\ saving[p].at \in {"hold", "holding", "review"}
     \/ /\ saving[p].id # saving[p].target /\ saving[p].at = "readback"
        /\ saving[p].got.commitment = "draft" /\ saving[p].target \notin saving[p].got.supersedes
Recorded(r) == \E pair \in Pairs : r \in pair /\ reviews[pair].status # "none"
Queued ==
  /\ \A r \in held \ reported : Recorded(r) \/ \E p \in Savers : Opening(p, r)
  /\ \A p \in Savers : saving[p].at \in {"hold", "holding"} => saving[p].id # saving[p].target

----------------------------------------------------------------------------
(* Rows *)

\* The fields of a row, and what it becomes.
LEMMA RowFields ==
  ASSUME NEW v \in Rows
  PROVE  /\ v # NoRow /\ v.statement \in Statements /\ v.status \in {"active", "retired"}
         /\ v.commitment \in {"draft", "decided", "locked"} /\ v.count \in Int
         /\ v.supersedes \in SUBSET RowIds /\ v.supersededBy \in SUBSET RowIds
BY LearningAssumption DEF Rows

\* A row that is written again is one.
LEMMA RowWritten ==
  ASSUME NEW v \in Rows
  PROVE  /\ \A c \in {"draft", "decided", "locked"} : [v EXCEPT !.commitment = c] \in Rows
         /\ \A c \in {"draft", "decided", "locked"}, n \in Int : [v EXCEPT !.commitment = c, !.count = n] \in Rows
         /\ \A st \in {"active", "retired"} : [v EXCEPT !.status = st] \in Rows
         /\ \A st \in {"active", "retired"}, n \in Int : [v EXCEPT !.status = st, !.count = n] \in Rows
         /\ \A n \in Int : [v EXCEPT !.count = n] \in Rows
         /\ \A ids \in SUBSET RowIds : [v EXCEPT !.supersededBy = ids] \in Rows
BY DEF Rows

\* A new row.
LEMMA RowMinted ==
  ASSUME NEW s \in Statements, NEW c \in {"draft", "decided", "locked"}, NEW targets \in SUBSET RowIds
  PROVE  NewRow(s, c, targets) \in Rows
BY DEF NewRow, Rows

\* A row that is replaced by one leaves the others, and none is gone.
LEMMA RowReplaced ==
  ASSUME rows \in [RowIds -> Rows \union {NoRow}], NEW r \in RowIds, NEW v \in Rows,
         rows' = [rows EXCEPT ![r] = v]
  PROVE  /\ rows' \in [RowIds -> Rows \union {NoRow}] /\ Used \subseteq Used'
         /\ rows'[r] = v /\ \A u \in RowIds \ {r} : rows'[u] = rows[u]
         /\ r \in Used => Used' = Used
BY RowFields DEF Used

\* Who has an active row has a row.
LEMMA RowThere ==
  ASSUME rows \in [RowIds -> Rows \union {NoRow}], NEW r \in RowIds, Active(r)
  PROVE  r \in Used /\ rows[r] \in Rows
BY DEF Active, Used

\* learn() absorbs the statement into a row that has it, or mints one and gives the
\* target its edge.
LEMMA LearnRows ==
  ASSUME LearningInv, NEW p \in Savers, NEW locked \in BOOLEAN, LearnSeeing(p, locked)
  PROVE  /\ rows' \in [RowIds -> Rows \union {NoRow}] /\ Used \subseteq Used'
         /\ \A u \in Used : /\ rows'[u].commitment = rows[u].commitment
                            /\ rows'[u].status = rows[u].status
                            /\ \/ rows'[u].supersededBy = rows[u].supersededBy
                               \/ /\ u = saving[p].target /\ ~locked
                                  /\ rows'[u].supersededBy \subseteq rows[u].supersededBy \union Used'
         /\ \E r \in Used' :
              /\ \/ r \in Used /\ held' = held
                 \/ /\ r \notin Used /\ rows'[r].supersededBy = {} /\ rows'[r] \in Rows
                    /\ \/ held' = held
                       \/ held' = held \union {r} /\ rows'[r].commitment = "draft"
                    /\ held' # held => saving[p].plan # "plain" /\ rows'[r].supersedes = {}
              /\ saving' = [saving EXCEPT ![p].at = CASE saving[p].plan = "beside" -> "review"
                                                      [] saving[p].plan = "supersede" -> "readback"
                                                      [] OTHER -> "done",
                                          ![p].id = r, ![p].got = rows'[r]]
<1> DEFINE s == saving[p].statement
           supersede == saving[p].plan = "supersede"
           draft == saving[p].plan = "beside" \/ (supersede /\ locked)
           targets == IF supersede /\ ~locked THEN {saving[p].target} ELSE {}
           then == CASE saving[p].plan = "beside" -> "review"
                     [] supersede -> "readback"
                     [] OTHER -> "done"
<1>t. /\ rows \in [RowIds -> Rows \union {NoRow}] /\ saving[p] \in Saves
      /\ saving[p].at = "learn" /\ s \in Statements
      /\ targets \in SUBSET RowIds /\ targets \subseteq Used
      /\ targets # {} => targets = {saving[p].target} /\ ~locked
  <2>1. rows \in [RowIds -> Rows \union {NoRow}] /\ saving[p] \in Saves /\ saving[p].at = "learn"
    BY DEF LearningInv, LearningTypeOK, LearnSeeing
  <2>2. s \in Statements /\ (supersede => saving[p].target \in Used)
    BY <2>1 DEF LearningInv, SaveKnows, Knows
  <2> QED
    BY <2>1, <2>2 DEF Used
<1>1. ASSUME NEW r \in Same(s), rows' = [rows EXCEPT ![r].count = @ + 1],
             saving' = [saving EXCEPT ![p].at = then, ![p].id = r, ![p].got = rows'[r]], held' = held
      PROVE  /\ rows' \in [RowIds -> Rows \union {NoRow}] /\ Used \subseteq Used'
             /\ \A u \in Used : /\ rows'[u].commitment = rows[u].commitment
                                /\ rows'[u].status = rows[u].status
                                /\ rows'[u].supersededBy = rows[u].supersededBy
             /\ r \in Used /\ r \in Used'
  <2>1. r \in Used /\ rows[r] \in Rows /\ r \in RowIds
    BY <1>t, <1>1, RowThere DEF Same
  <2> DEFINE v == [rows[r] EXCEPT !.count = rows[r].count + 1]
  <2>2. v \in Rows
    <3>1. rows[r].count + 1 \in Int
      BY <2>1, RowFields
    <3> QED
      BY <2>1, <3>1, RowWritten
  <2>3. rows' = [rows EXCEPT ![r] = v]
    BY <1>1
  <2>4. v.commitment = rows[r].commitment /\ v.status = rows[r].status /\ v.supersededBy = rows[r].supersededBy
    BY <2>1 DEF Rows
  <2> HIDE DEF v
  <2> QED
    BY <1>t, <2>1, <2>2, <2>3, <2>4, RowReplaced DEF Used
<1>2. ASSUME NEW r \in RowIds \ Used,
             rows' = [u \in RowIds |->
                  IF u = r THEN NewRow(s, IF draft THEN "draft" ELSE "decided", targets)
                  ELSE IF u \in targets THEN [rows[u] EXCEPT !.supersededBy = @ \union {r}]
                  ELSE rows[u]]
      PROVE  /\ rows' \in [RowIds -> Rows \union {NoRow}] /\ Used \subseteq Used'
             /\ \A u \in Used : /\ rows'[u].commitment = rows[u].commitment
                                /\ rows'[u].status = rows[u].status
                                /\ \/ rows'[u].supersededBy = rows[u].supersededBy
                                   \/ /\ u = saving[p].target /\ ~locked
                                      /\ rows'[u].supersededBy \subseteq rows[u].supersededBy \union Used'
             /\ r \in Used' /\ rows'[r] \in Rows /\ rows'[r].supersededBy = {}
             /\ draft => rows'[r].commitment = "draft" /\ rows'[r].supersedes = {} /\ saving[p].plan # "plain"
  <2> DEFINE c == IF draft THEN "draft" ELSE "decided"
  <2>1. NewRow(s, c, targets) \in Rows
    BY <1>t, RowMinted
  <2>2. rows'[r] = NewRow(s, c, targets)
    BY <1>2
  <2>3. rows'[r].supersededBy = {} /\ rows'[r].commitment = c /\ rows'[r].supersedes = targets
    BY <2>2 DEF NewRow
  <2>4. ASSUME NEW u \in Used
        PROVE  /\ rows'[u] \in Rows
               /\ rows'[u].commitment = rows[u].commitment
               /\ rows'[u].status = rows[u].status
               /\ \/ rows'[u].supersededBy = rows[u].supersededBy
                  \/ u = saving[p].target /\ ~locked /\ rows'[u].supersededBy = rows[u].supersededBy \union {r}
    <3>1. u \in RowIds /\ u # r /\ rows[u] \in Rows
      BY <1>t, <1>2 DEF Used
    <3>2. CASE u \in targets
      <4> DEFINE b == rows[u].supersededBy \union {r}
      <4>1. b \in SUBSET RowIds
        BY <1>2, <3>1, RowFields
      <4>2. rows'[u] = [rows[u] EXCEPT !.supersededBy = b]
        BY <1>2, <3>1, <3>2
      <4>3. [rows[u] EXCEPT !.supersededBy = b] \in Rows
        BY <3>1, <4>1, RowWritten
      <4>4. /\ [rows[u] EXCEPT !.supersededBy = b].commitment = rows[u].commitment
            /\ [rows[u] EXCEPT !.supersededBy = b].status = rows[u].status
            /\ [rows[u] EXCEPT !.supersededBy = b].supersededBy = b
        BY <3>1 DEF Rows
      <4> QED
        BY <1>t, <3>2, <4>2, <4>3, <4>4
    <3>3. CASE u \notin targets
      BY <1>2, <3>1, <3>3
    <3> QED
      BY <3>2, <3>3
  <2>5. \A u \in RowIds \ Used : rows[u] = NoRow
    BY DEF Used
  <2>6. \A u \in RowIds \ Used : u # r => rows'[u] = NoRow
    BY <1>2, <1>t, <2>5
  <2>7. rows' \in [RowIds -> Rows \union {NoRow}]
    <3>1. \A u \in RowIds : rows'[u] \in Rows \union {NoRow}
      BY <2>1, <2>2, <2>4, <2>6
    <3> QED
      BY <1>2, <3>1
  <2>8. Used \subseteq Used' /\ r \in Used'
    BY <2>1, <2>2, <2>4, <1>2, RowFields DEF Used
  <2>9. draft => targets = {}  /\ saving[p].plan # "plain"
    OBVIOUS
  <2> HIDE DEF draft, targets
  <2> QED
    BY <2>1, <2>2, <2>3, <2>4, <2>7, <2>8, <2>9
<1>3. \/ \E r \in Same(s) : /\ rows' = [rows EXCEPT ![r].count = @ + 1]
                            /\ saving' = [saving EXCEPT ![p].at = then, ![p].id = r, ![p].got = rows'[r]]
                            /\ held' = held
      \/ \E r \in RowIds \ Used :
           /\ rows' = [u \in RowIds |->
                  IF u = r THEN NewRow(s, IF draft THEN "draft" ELSE "decided", targets)
                  ELSE IF u \in targets THEN [rows[u] EXCEPT !.supersededBy = @ \union {r}]
                  ELSE rows[u]]
           /\ saving' = [saving EXCEPT ![p].at = then, ![p].id = r, ![p].got = rows'[r]]
           /\ held' = IF draft THEN held \union {r} ELSE held
  BY DEF LearnSeeing
<1>4. CASE \E r \in Same(s) : /\ rows' = [rows EXCEPT ![r].count = @ + 1]
                              /\ saving' = [saving EXCEPT ![p].at = then, ![p].id = r, ![p].got = rows'[r]]
                              /\ held' = held
  <2>1. PICK r \in Same(s) : /\ rows' = [rows EXCEPT ![r].count = @ + 1]
                             /\ saving' = [saving EXCEPT ![p].at = then, ![p].id = r, ![p].got = rows'[r]]
                             /\ held' = held
    BY <1>4
  <2> HIDE DEF then
  <2>2. /\ rows' \in [RowIds -> Rows \union {NoRow}] /\ Used \subseteq Used'
        /\ \A u \in Used : /\ rows'[u].commitment = rows[u].commitment
                           /\ rows'[u].status = rows[u].status
                           /\ rows'[u].supersededBy = rows[u].supersededBy
        /\ r \in Used /\ r \in Used'
    BY <1>1, <2>1
  <2> USE DEF then
  <2> QED
    BY <2>1, <2>2
<1>5. CASE \E r \in RowIds \ Used :
           /\ rows' = [u \in RowIds |->
                  IF u = r THEN NewRow(s, IF draft THEN "draft" ELSE "decided", targets)
                  ELSE IF u \in targets THEN [rows[u] EXCEPT !.supersededBy = @ \union {r}]
                  ELSE rows[u]]
           /\ saving' = [saving EXCEPT ![p].at = then, ![p].id = r, ![p].got = rows'[r]]
           /\ held' = IF draft THEN held \union {r} ELSE held
  <2>1. PICK r \in RowIds \ Used :
           /\ rows' = [u \in RowIds |->
                  IF u = r THEN NewRow(s, IF draft THEN "draft" ELSE "decided", targets)
                  ELSE IF u \in targets THEN [rows[u] EXCEPT !.supersededBy = @ \union {r}]
                  ELSE rows[u]]
           /\ saving' = [saving EXCEPT ![p].at = then, ![p].id = r, ![p].got = rows'[r]]
           /\ held' = IF draft THEN held \union {r} ELSE held
    BY <1>5
  <2>2. /\ rows' \in [RowIds -> Rows \union {NoRow}] /\ Used \subseteq Used'
        /\ \A u \in Used : /\ rows'[u].commitment = rows[u].commitment
                           /\ rows'[u].status = rows[u].status
                           /\ \/ rows'[u].supersededBy = rows[u].supersededBy
                              \/ /\ u = saving[p].target /\ ~locked
                                 /\ rows'[u].supersededBy \subseteq rows[u].supersededBy \union Used'
        /\ r \in Used' /\ rows'[r] \in Rows /\ rows'[r].supersededBy = {}
        /\ draft => rows'[r].commitment = "draft" /\ rows'[r].supersedes = {} /\ saving[p].plan # "plain"
    BY <1>2, <2>1
  <2>3. /\ saving' = [saving EXCEPT ![p].at = then, ![p].id = r, ![p].got = rows'[r]]
        /\ held' = IF draft THEN held \union {r} ELSE held
    BY <2>1
  <2>4. held' # held => draft
    BY <2>3
  <2> HIDE DEF draft
  <2> QED
    BY <2>2, <2>3, <2>4
<1> QED
  BY <1>3, <1>4, <1>5

\* A row that learn() makes has no superseder yet.
LEMMA Minted ==
  ASSUME LearningInv, NEW p \in Savers, NEW locked \in BOOLEAN, LearnSeeing(p, locked)
  PROVE  \A u \in Used' \ Used : rows'[u].supersededBy = {}
<1> SUFFICES ASSUME NEW u \in Used' \ Used PROVE rows'[u].supersededBy = {}
  OBVIOUS
<1>1. u \in RowIds /\ rows[u] = NoRow /\ rows'[u] # NoRow
  BY DEF Used
<1>2. rows \in [RowIds -> Rows \union {NoRow}]
  BY DEF LearningInv, LearningTypeOK
<1>3. ASSUME NEW r \in Same(saving[p].statement), rows' = [rows EXCEPT ![r].count = @ + 1] PROVE FALSE
  <2>1. r # u
    BY <1>1, <1>3 DEF Same, Active
  <2> QED
    BY <1>1, <1>2, <1>3, <2>1
<1>4. ASSUME NEW r \in RowIds \ Used, NEW c, NEW targets,
             targets \subseteq {saving[p].target},
             rows' = [x \in RowIds |-> IF x = r THEN NewRow(saving[p].statement, c, targets)
                                       ELSE IF x \in targets THEN [rows[x] EXCEPT !.supersededBy = @ \union {r}]
                                       ELSE rows[x]],
             targets \subseteq Used
      PROVE  rows'[u].supersededBy = {}
  BY <1>1, <1>4 DEF NewRow
<1>5. saving[p].plan = "supersede" => saving[p].target \in Used
  BY DEF LearnSeeing, LearningInv, SaveKnows, Knows
<1> DEFINE supersede == saving[p].plan = "supersede"
           draft == saving[p].plan = "beside" \/ (supersede /\ locked)
           targets == IF supersede /\ ~locked THEN {saving[p].target} ELSE {}
<1>6. \/ \E r \in Same(saving[p].statement) : rows' = [rows EXCEPT ![r].count = @ + 1]
      \/ \E r \in RowIds \ Used :
           rows' = [x \in RowIds |->
             IF x = r THEN NewRow(saving[p].statement, IF draft THEN "draft" ELSE "decided", targets)
             ELSE IF x \in targets THEN [rows[x] EXCEPT !.supersededBy = @ \union {r}]
             ELSE rows[x]]
  BY DEF LearnSeeing
<1>7. targets \subseteq {saving[p].target} /\ targets \subseteq Used
  BY <1>5
<1> HIDE DEF draft, targets
<1> QED
  BY <1>3, <1>4, <1>6, <1>7

\* HoldWrite turns the row that was read into a draft.
LEMMA HoldRows ==
  ASSUME LearningInv, NEW p \in Savers, HoldWrite(p)
  PROVE  \E v \in Rows : /\ rows' = [rows EXCEPT ![saving[p].id] = v] /\ v.commitment = "draft"
                         /\ v.supersededBy = saving[p].got.supersededBy
<1>1. saving[p].got \in Rows
  BY DEF LearningInv, SaveKnows, Knows, HoldWrite
<1>2. [saving[p].got EXCEPT !.commitment = "draft"] \in Rows
  BY <1>1, RowWritten
<1>3. /\ [saving[p].got EXCEPT !.commitment = "draft"].commitment = "draft"
      /\ [saving[p].got EXCEPT !.commitment = "draft"].supersededBy = saving[p].got.supersededBy
  BY <1>1 DEF Rows
<1> QED
  BY <1>2, <1>3 DEF HoldWrite

\* A decision is of a recorded pair of rows; the loser is one of them.
LEMMA Decided ==
  ASSUME LearningInv, NEW q \in Deciders, Claiming(q)
  PROVE  /\ deciding[q].pair \in Pairs /\ deciding[q].pair \subseteq Used
         /\ deciding[q].winner \in deciding[q].pair /\ Loser(q) \in deciding[q].pair
<1>1. deciding[q].pair \in Pairs /\ deciding[q].winner \in deciding[q].pair
  BY DEF LearningInv, DecisionKnows
<1>2. reviews[deciding[q].pair].status = "resolved"
  BY DEF LearningInv, DecisionKnows
<1>3. deciding[q].pair \subseteq Used
  BY <1>1, <1>2 DEF LearningInv, Reviewed
<1>4. \E r \in deciding[q].pair : r # deciding[q].winner
  BY <1>1 DEF Pairs
<1> QED
  BY <1>1, <1>3, <1>4 DEF Loser

\* Promote and Demote write the winner as it was read, decided or a draft.
LEMMA WinnerRows ==
  ASSUME LearningInv, NEW q \in Deciders, NEW c \in {"draft", "decided"},
         deciding[q].at \in {"promote", "demote"},
         rows' = [rows EXCEPT ![deciding[q].winner] = [deciding[q].seen EXCEPT !.commitment = c]]
  PROVE  \E v \in Rows : /\ rows' = [rows EXCEPT ![deciding[q].winner] = v] /\ v.commitment = c
                         /\ v.supersededBy = deciding[q].seen.supersededBy
<1>1. deciding[q].seen \in Rows
  BY DEF LearningInv, DecisionKnows
<1>2. [deciding[q].seen EXCEPT !.commitment = c] \in Rows
  BY <1>1, RowWritten
<1>3. /\ [deciding[q].seen EXCEPT !.commitment = c].commitment = c
      /\ [deciding[q].seen EXCEPT !.commitment = c].supersededBy = deciding[q].seen.supersededBy
  BY <1>1 DEF Rows
<1> QED
  BY <1>2, <1>3

\* RetireLoser changes the status of the loser.
LEMMA LoserRows ==
  ASSUME LearningInv, NEW q \in Deciders, RetireLoser(q)
  PROVE  \E v \in Rows : /\ rows' = [rows EXCEPT ![Loser(q)] = v] /\ v.status = "retired"
                         /\ v.commitment = rows[Loser(q)].commitment
                         /\ v.supersededBy = rows[Loser(q)].supersededBy
<1>1. Loser(q) \in Used
  BY Decided DEF RetireLoser, Claiming
<1>2. rows[Loser(q)] \in Rows
  BY <1>1 DEF Used, LearningInv, LearningTypeOK
<1>3. [rows[Loser(q)] EXCEPT !.status = "retired"] \in Rows
  BY <1>2, RowWritten
<1>4. LET v == [rows[Loser(q)] EXCEPT !.status = "retired"] IN
        v.status = "retired" /\ v.commitment = rows[Loser(q)].commitment /\ v.supersededBy = rows[Loser(q)].supersededBy
  BY <1>2 DEF Rows
<1>5. rows' = [rows EXCEPT ![Loser(q)] = [rows[Loser(q)] EXCEPT !.status = "retired"]]
  BY DEF RetireLoser
<1> QED
  BY <1>3, <1>4, <1>5

\* The user retires an active row, or changes its count or its commitment.
LEMMA UserRows ==
  ASSUME LearningInv, NEW r \in RowIds, Recur(r) \/ \E force \in BOOLEAN : Forget(r, force)
  PROVE  /\ Active(r)
         /\ \E v \in Rows : /\ rows' = [rows EXCEPT ![r] = v]
                            /\ v.commitment = rows[r].commitment \/ rows[r].commitment = "decided"
                            /\ v.supersededBy = rows[r].supersededBy
<1>1. Active(r)
  BY DEF Recur, Forget
<1>2. rows[r] \in Rows
  BY <1>1, RowThere DEF LearningInv, LearningTypeOK
<1>3. rows[r].count - 1 \in Int /\ rows[r].count + 1 \in Int
  BY <1>2, RowFields
<1>4. CASE rows' = [rows EXCEPT ![r].status = "retired", ![r].count = 0]
  <2> DEFINE v == [rows[r] EXCEPT !.status = "retired", !.count = 0]
  <2>0. 0 \in Int
    OBVIOUS
  <2>1. v \in Rows
    BY <1>2, <2>0, RowWritten
  <2>2. rows' = [rows EXCEPT ![r] = v]
    BY <1>4
  <2>3. v.commitment = rows[r].commitment /\ v.supersededBy = rows[r].supersededBy
    BY <1>2 DEF Rows
  <2> QED
    BY <1>1, <2>1, <2>2, <2>3
<1>5. CASE rows' = [rows EXCEPT ![r].count = @ - 1]
  <2> DEFINE v == [rows[r] EXCEPT !.count = rows[r].count - 1]
  <2>1. v \in Rows
    BY <1>2, <1>3, RowWritten
  <2>2. rows' = [rows EXCEPT ![r] = v]
    BY <1>5
  <2>3. v.commitment = rows[r].commitment /\ v.supersededBy = rows[r].supersededBy
    BY <1>2 DEF Rows
  <2> QED
    BY <1>1, <2>1, <2>2, <2>3
<1>6. CASE Recur(r)
  <2> DEFINE v == [rows[r] EXCEPT !.commitment = "locked", !.count = rows[r].count + 1]
  <2>1. v \in Rows
    BY <1>2, <1>3, RowWritten
  <2>2. rows' = [rows EXCEPT ![r] = v] /\ rows[r].commitment = "decided"
    BY <1>6 DEF Recur
  <2>3. v.supersededBy = rows[r].supersededBy
    BY <1>2 DEF Rows
  <2> QED
    BY <1>1, <2>1, <2>2, <2>3
<1> QED
  BY <1>4, <1>5, <1>6 DEF Forget

----------------------------------------------------------------------------
(* Savers *)

\* What becomes of a call that takes a step.
Becomes(p, v) == saving' = [saving EXCEPT ![p] = v]

\* A step of a save leaves it with what its next stage works with.
LEMMA SaverStep ==
  ASSUME LearningInv, NEW p \in Savers,
         \/ \E s \in Statements : HashCheck(p, s)
         \/ \E answer \in {"ADD", "NOOP", "UPDATE"}, r \in RowIds \union {0} : Ask(p, answer, r)
         \/ Decide(p) \/ Learn(p) \/ ReadBack(p)
         \/ HoldRead(p) \/ HoldWrite(p) \/ HoldFails(p)
         \/ OpenReview(p) \/ OpenReviewFails(p) \/ SaverDies(p)
  PROVE  /\ rows' \in [RowIds -> Rows \union {NoRow}] /\ Used \subseteq Used'
         /\ \E v \in Saves : Becomes(p, v) /\ Knows(v, Used')
<1> DEFINE x == saving[p]
<1>x. x \in Saves /\ Knows(x, Used)
  BY DEF LearningInv, LearningTypeOK, SaveKnows
<1>r. rows \in [RowIds -> Rows \union {NoRow}]
  BY DEF LearningInv, LearningTypeOK
<1>f. /\ x.statement \in Statements \union {NoRow} /\ x.target \in RowIds \union {0}
      /\ x.id \in RowIds \union {0} /\ x.got \in Rows \union {NoRow}
  BY <1>x DEF Saves
<1>s. \A step \in {"hashed", "asked", "learn", "hold", "review", "done", "dead"} :
        [x EXCEPT !.at = step] \in Saves
  BY <1>x DEF Saves
<1>e. /\ \A step : Knows([x EXCEPT !.at = step], Used) <=>
            /\ step # "no" => x.statement \in Statements
            /\ step = "asked" => x.answer = "ADD" \/ x.target \in Used
            /\ step = "learn" => x.plan = "plain" \/ x.target \in Used
            /\ step \in {"readback", "hold", "holding", "review"} => x.id \in Used /\ x.target \in Used
            /\ step \in {"readback", "holding"} => x.got \in Rows
  BY <1>x DEF Saves, Knows
<1>k. ASSUME UNCHANGED rows PROVE Used' = Used
  BY <1>k DEF Used
<1>1. ASSUME NEW s \in Statements, HashCheck(p, s)
      PROVE  UNCHANGED rows /\ \E v \in Saves : Becomes(p, v) /\ Knows(v, Used)
  <2>1. ASSUME NEW r \in Same(s), Becomes(p, [NoSave EXCEPT !.at = "done", !.statement = s, !.id = r])
        PROVE  \E v \in Saves : Becomes(p, v) /\ Knows(v, Used)
    <3>1. [NoSave EXCEPT !.at = "done", !.statement = s, !.id = r] \in Saves
      BY DEF NoSave, Saves, Same
    <3>2. Knows([NoSave EXCEPT !.at = "done", !.statement = s, !.id = r], Used)
      BY DEF NoSave, Knows
    <3> QED
      BY <2>1, <3>1, <3>2
  <2>2. ASSUME Becomes(p, [NoSave EXCEPT !.at = "hashed", !.statement = s])
        PROVE  \E v \in Saves : Becomes(p, v) /\ Knows(v, Used)
    <3>1. [NoSave EXCEPT !.at = "hashed", !.statement = s] \in Saves
      BY DEF NoSave, Saves
    <3>2. Knows([NoSave EXCEPT !.at = "hashed", !.statement = s], Used)
      BY DEF NoSave, Knows
    <3> QED
      BY <2>2, <3>1, <3>2
  <2> QED
    BY <1>1, <2>1, <2>2 DEF HashCheck, store, Becomes
<1>2. ASSUME NEW answer \in {"ADD", "NOOP", "UPDATE"}, NEW r \in RowIds \union {0}, Ask(p, answer, r)
      PROVE  UNCHANGED rows /\ \E v \in Saves : Becomes(p, v) /\ Knows(v, Used)
  <2> DEFINE v == [x EXCEPT !.at = "asked", !.answer = answer, !.target = r]
  <2>1. v \in Saves
    BY <1>x DEF Saves
  <2>2. answer = "ADD" \/ r \in Used
    BY <1>2, <1>r, RowThere DEF Ask
  <2>3. Knows(v, Used)
    BY <1>x, <1>2, <2>2 DEF Knows, Ask, Saves
  <2>4. Becomes(p, v)
    BY <1>2 DEF Ask, Becomes
  <2> QED
    BY <1>2, <2>1, <2>3, <2>4 DEF Ask, store
<1>3. ASSUME Decide(p) PROVE UNCHANGED rows /\ \E v \in Saves : Becomes(p, v) /\ Knows(v, Used)
  <2>1. UNCHANGED rows /\ x.at = "asked"
    BY <1>3 DEF Decide, store
  <2>2. CASE x.answer = "NOOP"
    <3> DEFINE v == [x EXCEPT !.at = "done", !.id = x.target]
    <3>1. v \in Saves
      BY <1>x DEF Saves
    <3>2. Knows(v, Used)
      BY <1>x, <2>1 DEF Knows, Saves
    <3>3. Becomes(p, v)
      BY <1>3, <2>2 DEF Decide, Becomes
    <3> HIDE DEF v
    <3> QED
      BY <2>1, <3>1, <3>2, <3>3
  <2>3. CASE x.answer # "NOOP"
    <3>1. PICK plan \in {"plain", "beside", "supersede"} :
             /\ Becomes(p, [x EXCEPT !.at = "learn", !.plan = plan])
             /\ plan # "plain" => x.answer = "UPDATE"
      BY <1>3, <2>3 DEF Decide, Becomes
    <3> DEFINE v == [x EXCEPT !.at = "learn", !.plan = plan]
    <3>2. v \in Saves
      BY <1>x DEF Saves
    <3>3. Knows(v, Used)
      BY <1>x, <2>1, <3>1 DEF Knows, Saves
    <3>4. Becomes(p, v)
      BY <3>1
    <3> HIDE DEF v
    <3> QED
      BY <2>1, <3>2, <3>3, <3>4
  <2> QED
    BY <2>1, <2>2, <2>3
<1>4. CASE Learn(p)
  <2>0. PICK locked \in BOOLEAN : LearnSeeing(p, locked)
    BY <1>4 DEF Learn, Locked
  <2>1. /\ rows' \in [RowIds -> Rows \union {NoRow}] /\ Used \subseteq Used'
        /\ \E r \in Used' :
              saving' = [saving EXCEPT ![p].at = CASE saving[p].plan = "beside" -> "review"
                                                      [] saving[p].plan = "supersede" -> "readback"
                                                      [] OTHER -> "done",
                                          ![p].id = r, ![p].got = rows'[r]]
    BY <2>0, LearnRows
  <2>2. PICK r \in Used' :
              saving' = [saving EXCEPT ![p].at = CASE saving[p].plan = "beside" -> "review"
                                                      [] saving[p].plan = "supersede" -> "readback"
                                                      [] OTHER -> "done",
                                          ![p].id = r, ![p].got = rows'[r]]
    BY <2>1
  <2>3. PICK step \in {"review", "readback", "done"} :
           /\ Becomes(p, [x EXCEPT !.at = step, !.id = r, !.got = rows'[r]])
           /\ step # "done" => x.plan # "plain"
    BY <2>2 DEF Becomes
  <2> DEFINE v == [x EXCEPT !.at = step, !.id = r, !.got = rows'[r]]
  <2>4. r \in RowIds /\ rows'[r] \in Rows /\ x.at = "learn"
    BY <2>0, <2>1 DEF Used, LearnSeeing
  <2>5. v \in Saves
    BY <1>x, <2>4 DEF Saves
  <2>6. x.plan # "plain" => x.target \in Used'
    BY <1>x, <2>1, <2>4 DEF Knows
  <2>7. v.at = step /\ v.id = r /\ v.got = rows'[r] /\ v.target = x.target /\ v.statement = x.statement
    BY <1>x DEF Saves
  <2>8. x.statement \in Statements
    BY <1>x, <2>4 DEF Knows
  <2>9. Becomes(p, v)
    BY <2>3
  <2> HIDE DEF v
  <2>10. Knows(v, Used')
    BY <2>3, <2>4, <2>6, <2>7, <2>8 DEF Knows
  <2> QED
    BY <2>1, <2>5, <2>9, <2>10
<1>5. ASSUME ReadBack(p) \/ HoldFails(p) \/ SaverDies(p)
      PROVE  UNCHANGED rows /\ \E v \in Saves : Becomes(p, v) /\ Knows(v, Used)
  <2>1. UNCHANGED rows
    BY <1>5 DEF ReadBack, HoldFails, SaverDies, store
  <2>2. \E step \in {"hold", "review", "done", "dead"} :
           /\ Becomes(p, [x EXCEPT !.at = step])
           /\ x.at # "no" /\ (step \in {"hold", "review"} => x.at \in {"readback", "holding"})
    BY <1>5 DEF ReadBack, HoldFails, SaverDies, At, Becomes
  <2>3. PICK step \in {"hold", "review", "done", "dead"} :
           /\ Becomes(p, [x EXCEPT !.at = step])
           /\ x.at # "no" /\ (step \in {"hold", "review"} => x.at \in {"readback", "holding"})
    BY <2>2
  <2>4. Knows([x EXCEPT !.at = step], Used)
    BY <1>x, <1>e, <2>3 DEF Knows
  <2> QED
    BY <2>1, <2>3, <2>4, <1>s
<1>6. CASE HoldRead(p)
  <2>1. UNCHANGED rows /\ x.at = "hold"
    BY <1>6 DEF HoldRead, store
  <2>2. PICK step \in {"review", "holding"} : Becomes(p, [x EXCEPT !.at = step, !.got = rows[x.id]])
    BY <1>6 DEF HoldRead, Becomes
  <2> DEFINE v == [x EXCEPT !.at = step, !.got = rows[x.id]]
  <2>3. rows[x.id] \in Rows
    BY <1>r, <1>x, <2>1 DEF Knows, Used
  <2>4. v \in Saves
    BY <1>x, <2>3 DEF Saves
  <2>5. Knows(v, Used)
    BY <1>x, <2>1, <2>3 DEF Knows, Saves
  <2> QED
    BY <1>r, <1>k, <2>1, <2>2, <2>4, <2>5
<1>7. CASE HoldWrite(p)
  <2>1. x.at = "holding" /\ x.id \in Used
    BY <1>x, <1>7 DEF HoldWrite, Knows
  <2>2. PICK v \in Rows : rows' = [rows EXCEPT ![x.id] = v]
    BY <1>7, HoldRows
  <2>3. rows' \in [RowIds -> Rows \union {NoRow}] /\ Used \subseteq Used'
    BY <1>r, <2>1, <2>2, RowReplaced DEF Used
  <2>4. Becomes(p, [x EXCEPT !.at = "review"])
    BY <1>7 DEF HoldWrite, At, Becomes
  <2>5. Knows([x EXCEPT !.at = "review"], Used')
    BY <1>x, <2>1, <2>3 DEF Knows, Saves
  <2> QED
    BY <1>s, <2>3, <2>4, <2>5
<1>8. ASSUME OpenReview(p) \/ OpenReviewFails(p)
      PROVE  UNCHANGED rows /\ \E v \in Saves : Becomes(p, v) /\ Knows(v, Used)
  <2>1. UNCHANGED rows /\ x.at = "review"
    BY <1>8 DEF OpenReview, OpenReviewFails, OpenReviewFailsTelling, store
  <2>2. \/ Becomes(p, [x EXCEPT !.at = "done"])
        \/ Becomes(p, [x EXCEPT !.tries = 1])
    BY <1>8 DEF OpenReview, OpenReviewFails, OpenReviewFailsTelling, Return, At, Becomes
  <2>3. [x EXCEPT !.tries = 1] \in Saves /\ Knows([x EXCEPT !.tries = 1], Used)
    BY <1>x DEF Knows, Saves
  <2>4. Knows([x EXCEPT !.at = "done"], Used)
    BY <1>x, <1>e, <2>1 DEF Knows
  <2> QED
    BY <2>1, <2>2, <2>3, <2>4, <1>s
<1>9. ASSUME UNCHANGED rows, \E v \in Saves : Becomes(p, v) /\ Knows(v, Used)
      PROVE  /\ rows' \in [RowIds -> Rows \union {NoRow}] /\ Used \subseteq Used'
             /\ \E v \in Saves : Becomes(p, v) /\ Knows(v, Used')
  BY <1>r, <1>k, <1>9
<1> QED
  BY <1>1, <1>2, <1>3, <1>4, <1>5, <1>6, <1>7, <1>8, <1>9

----------------------------------------------------------------------------
(* Deciders *)

\* What becomes of a decision that takes a step.
Turns(q, v) == deciding' = [deciding EXCEPT ![q] = v]

\* A step of a decision writes a row of its pair or none, and keeps what it knows:
\* only its claim and its release change the record.
LEMMA DeciderStep ==
  ASSUME LearningInv, NEW q \in Deciders,
         \/ ReadWinner(q) \/ Promote(q) \/ RetireLoser(q) \/ WriteFails(q)
         \/ DemoteRead(q) \/ Demote(q) \/ UndoFails(q) \/ DeciderDies(q)
  PROVE  /\ rows' \in [RowIds -> Rows \union {NoRow}] /\ Used \subseteq Used'
         /\ UNCHANGED reviews
         /\ \E v \in Decisions :
              /\ Turns(q, v)
              /\ v.pair = deciding[q].pair /\ v.winner = deciding[q].winner /\ v.before = deciding[q].before
              /\ v.at \in {"winner", "promote", "retire", "demoting", "demote", "release"} => Claiming(q)
              /\ v.at \in {"promote", "demote"} => v.seen \in Rows
<1> DEFINE x == deciding[q]
           Good(v) == /\ v \in Decisions /\ Turns(q, v)
                      /\ v.pair = x.pair /\ v.winner = x.winner /\ v.before = x.before
                      /\ v.at \in {"winner", "promote", "retire", "demoting", "demote", "release"} => Claiming(q)
                      /\ v.at \in {"promote", "demote"} => v.seen \in Rows
<1>x. x \in Decisions /\ rows \in [RowIds -> Rows \union {NoRow}]
  BY DEF LearningInv, LearningTypeOK
<1>s. ASSUME NEW step \in {"retire", "demoting", "release", "done", "failed", "dead"},
             Turns(q, [x EXCEPT !.at = step]),
             step \in {"retire", "demoting", "release"} => Claiming(q)
      PROVE  \E v : Good(v)
  <2> DEFINE v == [x EXCEPT !.at = step]
  <2>1. v \in Decisions /\ v.pair = x.pair /\ v.winner = x.winner /\ v.before = x.before /\ v.at = step
    BY <1>x DEF Decisions
  <2>2. Turns(q, v)
    BY <1>s
  <2> HIDE DEF v
  <2>3. Good(v)
    BY <1>s, <2>1, <2>2
  <2> QED
    BY <2>3
<1>w. ASSUME Claiming(q) PROVE x.winner \in RowIds /\ x.winner \in Used /\ rows[x.winner] \in Rows
  <2>1. x.winner \in Used
    BY <1>w, Decided
  <2> QED
    BY <1>x, <2>1 DEF Used
<1>k. ASSUME UNCHANGED rows PROVE rows' \in [RowIds -> Rows \union {NoRow}] /\ Used \subseteq Used'
  BY <1>k, <1>x DEF Used
<1>1. ASSUME ReadWinner(q) PROVE UNCHANGED <<rows, reviews>> /\ \E v : Good(v)
  <2>1. Claiming(q)
    BY <1>1 DEF ReadWinner, Claiming
  <2>2. PICK step \in {"promote", "retire"} : Turns(q, [x EXCEPT !.seen = rows[x.winner], !.at = step])
    BY <1>1 DEF ReadWinner, Turns
  <2> DEFINE v == [x EXCEPT !.seen = rows[x.winner], !.at = step]
  <2>3. /\ v \in Decisions /\ v.pair = x.pair /\ v.winner = x.winner /\ v.before = x.before
        /\ v.at = step /\ v.seen \in Rows
    BY <1>x, <1>w, <2>1 DEF Decisions
  <2>4. Turns(q, v)
    BY <2>2
  <2> HIDE DEF v
  <2>5. Good(v)
    BY <2>1, <2>3, <2>4
  <2> QED
    BY <1>1, <2>5 DEF ReadWinner, store
<1>2. ASSUME DemoteRead(q) PROVE UNCHANGED <<rows, reviews>> /\ \E v : Good(v)
  <2>1. Claiming(q)
    BY <1>2 DEF DemoteRead, Claiming
  <2> DEFINE v == [x EXCEPT !.at = "demote", !.seen = rows[x.winner]]
  <2>2. Turns(q, v)
    BY <1>2 DEF DemoteRead, Turns
  <2>3. /\ v \in Decisions /\ v.pair = x.pair /\ v.winner = x.winner /\ v.before = x.before
        /\ v.seen \in Rows
    BY <1>x, <1>w, <2>1 DEF Decisions
  <2> HIDE DEF v
  <2>5. Good(v)
    BY <2>1, <2>2, <2>3
  <2> QED
    BY <1>2, <2>5 DEF DemoteRead, store
<1>3. ASSUME Promote(q)
      PROVE  rows' \in [RowIds -> Rows \union {NoRow}] /\ Used \subseteq Used' /\ UNCHANGED reviews /\ \E v : Good(v)
  <2>1. Claiming(q) /\ x.at = "promote"
    BY <1>3 DEF Promote, Claiming
  <2>2. PICK r \in Rows : rows' = [rows EXCEPT ![x.winner] = r]
    BY <1>3, <2>1, WinnerRows DEF Promote
  <2>3. rows' \in [RowIds -> Rows \union {NoRow}] /\ Used \subseteq Used'
    BY <1>x, <1>w, <2>1, <2>2, RowReplaced
  <2> DEFINE v == [x EXCEPT !.at = "retire", !.promoted = TRUE]
  <2>4. Turns(q, v)
    BY <1>3 DEF Promote, Turns
  <2>5. v \in Decisions /\ v.pair = x.pair /\ v.winner = x.winner /\ v.before = x.before /\ v.at = "retire"
    BY <1>x DEF Decisions
  <2> HIDE DEF v
  <2>6. Good(v)
    BY <2>1, <2>4, <2>5
  <2> QED
    BY <1>3, <2>3, <2>6 DEF Promote
<1>4. ASSUME Demote(q)
      PROVE  rows' \in [RowIds -> Rows \union {NoRow}] /\ Used \subseteq Used' /\ UNCHANGED reviews /\ \E v : Good(v)
  <2>1. Claiming(q) /\ x.at = "demote"
    BY <1>4 DEF Demote, Claiming
  <2>2. PICK r \in Rows : rows' = [rows EXCEPT ![x.winner] = r]
    BY <1>4, <2>1, WinnerRows DEF Demote
  <2>3. rows' \in [RowIds -> Rows \union {NoRow}] /\ Used \subseteq Used'
    BY <1>x, <1>w, <2>1, <2>2, RowReplaced
  <2>4. Turns(q, [x EXCEPT !.at = "release"]) /\ UNCHANGED reviews
    BY <1>4 DEF Demote, Go, Turns
  <2> QED
    BY <1>s, <2>1, <2>3, <2>4
<1>5. ASSUME RetireLoser(q)
      PROVE  rows' \in [RowIds -> Rows \union {NoRow}] /\ Used \subseteq Used' /\ UNCHANGED reviews /\ \E v : Good(v)
  <2>1. Claiming(q)
    BY <1>5 DEF RetireLoser, Claiming
  <2>2. PICK r \in Rows : rows' = [rows EXCEPT ![Loser(q)] = r]
    BY <1>5, LoserRows
  <2>3. Loser(q) \in RowIds
    BY <2>1, Decided DEF Used
  <2>4. rows' \in [RowIds -> Rows \union {NoRow}] /\ Used \subseteq Used'
    BY <1>x, <2>2, <2>3, RowReplaced
  <2>5. Turns(q, [x EXCEPT !.at = "done"]) /\ UNCHANGED reviews
    BY <1>5 DEF RetireLoser, Go, Turns
  <2> QED
    BY <1>s, <2>4, <2>5
<1>6. ASSUME WriteFails(q) \/ UndoFails(q) \/ DeciderDies(q)
      PROVE  UNCHANGED <<rows, reviews>> /\ \E v : Good(v)
  <2>1. UNCHANGED <<rows, reviews>>
    BY <1>6 DEF WriteFails, WriteFailsTo, UndoFails, DeciderDies, store
  <2>2. \E step \in {"demoting", "release", "failed", "dead"} :
          /\ Turns(q, [x EXCEPT !.at = step])
          /\ step \in {"demoting", "release"} => Claiming(q)
    BY <1>6 DEF WriteFails, WriteFailsTo, UndoFails, DeciderDies, Go, Turns, Claiming
  <2> QED
    BY <1>s, <2>1, <2>2
<1> HIDE DEF Good
<1>7. rows' \in [RowIds -> Rows \union {NoRow}] /\ Used \subseteq Used' /\ UNCHANGED reviews /\ \E v : Good(v)
  BY <1>k, <1>1, <1>2, <1>3, <1>4, <1>5, <1>6
<1> USE DEF Good
<1> QED
  BY <1>7

----------------------------------------------------------------------------
(* The types, and what the calls have in hand *)

\* The first states are good.
LEMMA LearningStarts == LearningInit => LearningInv
<1> SUFFICES ASSUME LearningInit PROVE LearningInv
  OBVIOUS
<1>1. PICK s \in Statements, t \in Statements, c \in {"decided", "locked"} :
        rows = [r \in RowIds |-> CASE r = 1 -> NewRow(s, c, {})
                                [] r = 2 -> NewRow(t, "locked", {})
                                [] OTHER -> NoRow]
  <2>1. PICK a \in Statements, b \in Statements : a # b
    BY LearningAssumption
  <2> DEFINE first == CHOOSE s \in Statements : TRUE
             second == CHOOSE s \in Statements \ {first} : TRUE
  <2>2. first \in Statements
    BY <2>1
  <2>0. \A f : \E x : x \in Statements \ {f}
    BY <2>1
  <2> HIDE DEF first
  <2>3. \E x : x \in Statements \ {first}
    BY <2>0
  <2> USE DEF first
  <2>4. second \in Statements
    BY <2>3
  <2>5. \E c \in {"decided", "locked"} :
          rows = [r \in RowIds |-> CASE r = 1 -> NewRow(first, c, {})
                                  [] r = 2 -> NewRow(second, "locked", {})
                                  [] OTHER -> NoRow]
    BY DEF LearningInit
  <2> HIDE DEF first, second
  <2> QED
    BY <2>2, <2>4, <2>5
<1>2. NewRow(s, c, {}) \in Rows /\ NewRow(t, "locked", {}) \in Rows
  BY RowMinted
<1>3. rows \in [RowIds -> Rows \union {NoRow}]
  BY <1>1, <1>2
<1>4. NoSave \in Saves /\ NoDecision \in Decisions /\ NoReview \in Reviews
  BY DEF NoSave, NoDecision, NoReview, Saves, Decisions, Reviews
<1>5. LearningTypeOK
  BY <1>3, <1>4, LearningAssumption DEF LearningInit, LearningTypeOK
<1>6. SaveKnows
  BY DEF LearningInit, SaveKnows, Knows, NoSave
<1>7. DecisionKnows /\ ClaimedOnce
  BY DEF LearningInit, DecisionKnows, ClaimedOnce, Claiming, NoDecision
<1>8. Reviewed
  BY DEF LearningInit, Reviewed, NoReview
<1> QED
  BY <1>5, <1>6, <1>7, <1>8 DEF LearningInv

\* A record that is not decided is rewritten: those that are claimed are others.
LEMMA ReviewWritten ==
  ASSUME LearningInv, NEW pair \in Pairs, pair \subseteq Used, Used \subseteq Used', UNCHANGED deciding,
         NEW status \in {"detected", "confirmed", "dismissed"},
         reviews[pair].status # "resolved", reviews' = [reviews EXCEPT ![pair].status = status]
  PROVE  /\ reviews' \in [Pairs -> Reviews] /\ DecisionKnows' /\ ClaimedOnce' /\ Reviewed'
         /\ \A other \in Pairs : /\ reviews'[other].winner = reviews[other].winner
                                 /\ reviews[other].status = "resolved" => reviews'[other].status = "resolved"
                                 /\ reviews[other].status # "none" => reviews'[other].status # "none"
<1>1. reviews \in [Pairs -> Reviews]
  BY DEF LearningInv, LearningTypeOK
<1>2. reviews'[pair].status = status /\ reviews'[pair].winner = reviews[pair].winner
  BY <1>1 DEF Reviews
<1>3. \A other \in Pairs \ {pair} : reviews'[other] = reviews[other]
  BY <1>1
<1>4. reviews' \in [Pairs -> Reviews]
  BY <1>1 DEF Reviews
<1>5. DecisionKnows'
  BY <1>2, <1>3 DEF LearningInv, DecisionKnows, Claiming
<1>6. ClaimedOnce'
  BY DEF LearningInv, ClaimedOnce, Claiming
<1>7. Reviewed'
  BY <1>2, <1>3 DEF LearningInv, Reviewed
<1> QED
  BY <1>2, <1>3, <1>4, <1>5, <1>6, <1>7

\* The step of a save, as one action.
SaverActs(p) ==
  \/ \E s \in Statements : HashCheck(p, s)
  \/ \E answer \in {"ADD", "NOOP", "UPDATE"}, r \in RowIds \union {0} : Ask(p, answer, r)
  \/ Decide(p) \/ Learn(p) \/ ReadBack(p)
  \/ HoldRead(p) \/ HoldWrite(p) \/ HoldFails(p)
  \/ OpenReview(p) \/ OpenReviewFails(p) \/ SaverDies(p)

\* The step of a decision that neither claims nor lets go of its record.
DeciderActs(q) ==
  \/ ReadWinner(q) \/ Promote(q) \/ RetireLoser(q) \/ WriteFails(q)
  \/ DemoteRead(q) \/ Demote(q) \/ UndoFails(q) \/ DeciderDies(q)

\* Opening a review records a pair that is not recorded, or changes none.
LEMMA Opened ==
  ASSUME LearningInv, NEW p \in Savers, OpenReview(p)
  PROVE  \/ UNCHANGED reviews
         \/ \E pair \in Pairs : /\ pair = {saving[p].id, saving[p].target}
                                /\ pair \subseteq Used /\ reviews[pair].status = "none"
                                /\ reviews' = [reviews EXCEPT ![pair].status = "detected"]
<1>1. saving[p].id \in Used /\ saving[p].target \in Used
  BY DEF LearningInv, SaveKnows, Knows, OpenReview
<1> QED
  BY <1>1 DEF OpenReview

\* What a save leaves alone, and what it tells.
LEMMA SaverFrame ==
  ASSUME LearningInv, NEW p \in Savers, SaverActs(p)
  PROVE  /\ UNCHANGED <<deciding, retiredFor, brokenUndo>>
         /\ troubles' \in Nat /\ userActs' \in Nat
         /\ reported' \in SUBSET (RowIds \union {0}) /\ reported \subseteq reported'
         /\ OpenReview(p) \/ UNCHANGED reviews
         /\ held' \in SUBSET RowIds
<1>t. saving[p] \in Saves /\ held \in SUBSET RowIds /\ reported \in SUBSET (RowIds \union {0})
      /\ troubles \in Nat /\ userActs \in Nat
  BY DEF LearningInv, LearningTypeOK
<1>1. CASE Learn(p)
  <2>1. PICK locked \in BOOLEAN : LearnSeeing(p, locked)
    BY <1>1 DEF Learn, Locked
  <2>0. Used' \subseteq RowIds
    BY DEF Used
  <2>2. held' \in SUBSET RowIds
    <3>1. \E r \in Used' : held' = held \/ held' = held \union {r}
      BY <2>1, LearnRows
    <3> QED
      BY <1>t, <2>0, <3>1
  <2> QED
    BY <1>t, <2>1, <2>2 DEF LearnSeeing, decisions, calm
<1>2. CASE HoldWrite(p)
  <2>1. saving[p].id \in RowIds
    BY <1>2 DEF HoldWrite, LearningInv, SaveKnows, Knows, Used
  <2> QED
    BY <1>t, <1>2, <2>1 DEF HoldWrite, decisions, calm
<1>3. CASE \/ \E s \in Statements : HashCheck(p, s)
           \/ \E answer \in {"ADD", "NOOP", "UPDATE"}, r \in RowIds \union {0} : Ask(p, answer, r)
           \/ Decide(p) \/ ReadBack(p) \/ HoldRead(p)
  BY <1>t, <1>3 DEF HashCheck, Ask, Decide, ReadBack, HoldRead, decisions, calm, store
<1>4. CASE HoldFails(p) \/ SaverDies(p)
  BY <1>t, <1>4 DEF HoldFails, SaverDies, decisions, store
<1>5. CASE OpenReview(p)
  BY <1>t, <1>5 DEF OpenReview, decisions, calm
<1>6. CASE OpenReviewFails(p)
  <2>1. saving[p].id \in RowIds \union {0}
    BY <1>t DEF Saves
  <2> QED
    BY <1>t, <1>6, <2>1 DEF OpenReviewFails, OpenReviewFailsTelling, decisions, store
<1> QED
  BY <1>1, <1>2, <1>3, <1>4, <1>5, <1>6 DEF SaverActs

\* A save keeps the invariant.
LEMMA SaverKeeps ==
  ASSUME LearningInv, NEW p \in Savers, SaverActs(p)
  PROVE  LearningInv'
<1>1. rows' \in [RowIds -> Rows \union {NoRow}] /\ Used \subseteq Used'
  BY SaverStep DEF SaverActs
<1>2. PICK v \in Saves : Becomes(p, v) /\ Knows(v, Used')
  BY SaverStep DEF SaverActs
<1>3. /\ saving' \in [Savers -> Saves] /\ saving'[p] = v
      /\ \A other \in Savers \ {p} : saving'[other] = saving[other]
  BY <1>2 DEF Becomes, LearningInv, LearningTypeOK
<1>4. SaveKnows'
  BY <1>1, <1>2, <1>3 DEF LearningInv, SaveKnows, Knows
<1>5. /\ UNCHANGED <<deciding, retiredFor, brokenUndo>>
      /\ troubles' \in Nat /\ userActs' \in Nat
      /\ reported' \in SUBSET (RowIds \union {0}) /\ held' \in SUBSET RowIds
  BY SaverFrame
<1>6. reviews' \in [Pairs -> Reviews] /\ DecisionKnows' /\ ClaimedOnce' /\ Reviewed'
  <2>1. CASE UNCHANGED reviews
    BY <1>1, <1>5, <2>1 DEF LearningInv, LearningTypeOK, DecisionKnows, ClaimedOnce, Claiming, Reviewed
  <2>2. ASSUME NEW pair \in Pairs, pair \subseteq Used, reviews[pair].status = "none",
               reviews' = [reviews EXCEPT ![pair].status = "detected"]
        PROVE  reviews' \in [Pairs -> Reviews] /\ DecisionKnows' /\ ClaimedOnce' /\ Reviewed'
    BY <1>1, <1>5, <2>2, ReviewWritten
  <2> QED
    BY <2>1, <2>2, SaverFrame, Opened
<1>7. LearningTypeOK'
  BY <1>1, <1>3, <1>5, <1>6 DEF LearningInv, LearningTypeOK
<1> QED
  BY <1>4, <1>6, <1>7 DEF LearningInv

\* A decision at work keeps the invariant.
LEMMA DeciderKeeps ==
  ASSUME LearningInv, NEW q \in Deciders, DeciderActs(q)
  PROVE  LearningInv'
<1>1. /\ rows' \in [RowIds -> Rows \union {NoRow}] /\ Used \subseteq Used'
      /\ UNCHANGED reviews
  BY DeciderStep DEF DeciderActs
<1>2. PICK v \in Decisions :
        /\ Turns(q, v)
        /\ v.pair = deciding[q].pair /\ v.winner = deciding[q].winner /\ v.before = deciding[q].before
        /\ v.at \in {"winner", "promote", "retire", "demoting", "demote", "release"} => Claiming(q)
        /\ v.at \in {"promote", "demote"} => v.seen \in Rows
  BY DeciderStep DEF DeciderActs
<1>3. /\ deciding' \in [Deciders -> Decisions] /\ deciding'[q] = v
      /\ \A other \in Deciders \ {q} : deciding'[other] = deciding[other]
  BY <1>2 DEF Turns, LearningInv, LearningTypeOK
<1>4. UNCHANGED <<saving, held, reported, userActs>> /\ troubles' \in Nat
  BY DEF LearningInv, LearningTypeOK, DeciderActs, ReadWinner, Promote, RetireLoser, WriteFails, WriteFailsTo,
         DemoteRead, Demote, UndoFails, DeciderDies, saves, calm
<1>5. retiredFor' \in [Pairs -> SUBSET RowIds]
  <2>1. CASE RetireLoser(q)
    <3>1. Loser(q) \in RowIds
      BY <2>1, Decided DEF RetireLoser, Claiming, Used
    <3>2. retiredFor' = [retiredFor EXCEPT ![deciding[q].pair] = @ \union {Loser(q)}]
      BY <2>1 DEF RetireLoser
    <3> QED
      BY <3>1, <3>2 DEF LearningInv, LearningTypeOK
  <2>2. CASE ~RetireLoser(q)
    BY <2>2 DEF LearningInv, LearningTypeOK, DeciderActs, ReadWinner, Promote, WriteFails, WriteFailsTo,
                DemoteRead, Demote, UndoFails, DeciderDies
  <2> QED
    BY <2>1, <2>2
<1>6. brokenUndo' \in SUBSET Pairs
  <2>1. CASE UndoFails(q)
    <3>1. deciding[q].pair \in Pairs
      BY <2>1, Decided DEF UndoFails, Claiming
    <3> QED
      BY <2>1, <3>1 DEF UndoFails, LearningInv, LearningTypeOK
  <2>2. CASE ~UndoFails(q)
    BY <2>2 DEF LearningInv, LearningTypeOK, DeciderActs, ReadWinner, Promote, WriteFails, WriteFailsTo,
                DemoteRead, Demote, RetireLoser, DeciderDies
  <2> QED
    BY <2>1, <2>2
<1>7. SaveKnows'
  BY <1>1, <1>4 DEF LearningInv, SaveKnows, Knows
<1>8. \A e \in Deciders : Claiming(e)' => Claiming(e) /\ deciding'[e].pair = deciding[e].pair
                           /\ deciding'[e].winner = deciding[e].winner /\ deciding'[e].before = deciding[e].before
  BY <1>2, <1>3 DEF Claiming
<1>9. DecisionKnows'
  <2>1. \A e \in Deciders : deciding'[e].at \in {"promote", "demote"} => deciding'[e].seen \in Rows
    BY <1>2, <1>3 DEF LearningInv, DecisionKnows
  <2> QED
    BY <1>1, <1>8, <2>1 DEF LearningInv, DecisionKnows
<1>10. ClaimedOnce'
  BY <1>8 DEF LearningInv, ClaimedOnce
<1>11. Reviewed'
  BY <1>1 DEF LearningInv, Reviewed
<1>12. LearningTypeOK'
  BY <1>1, <1>3, <1>4, <1>5, <1>6 DEF LearningInv, LearningTypeOK
<1> QED
  BY <1>7, <1>9, <1>10, <1>11, <1>12 DEF LearningInv

\* A claim takes an open record that nobody claims.
LEMMA ClaimKeeps ==
  ASSUME LearningInv, NEW q \in Deciders, NEW pair \in Pairs, NEW w \in RowIds, Claim(q, pair, w)
  PROVE  LearningInv'
<1> DEFINE v == [at |-> "winner", pair |-> pair, winner |-> w,
                 before |-> reviews[pair].status, seen |-> NoRow, promoted |-> FALSE]
<1>1. /\ w \in pair /\ reviews[pair].status \in {"detected", "confirmed"}
      /\ reviews' = [reviews EXCEPT ![pair] = [status |-> "resolved", winner |-> w]]
      /\ deciding' = [deciding EXCEPT ![q] = v]
      /\ UNCHANGED <<rows, saving, held, reported, troubles, userActs, retiredFor, brokenUndo>>
  BY DEF Claim, ClaimFrom, saves, calm
<1>2. v \in Decisions /\ v.at = "winner" /\ v.pair = pair /\ v.winner = w
      /\ v.before \in {"detected", "confirmed"}
  BY <1>1 DEF Decisions
<1> HIDE DEF v
<1>3. /\ deciding' \in [Deciders -> Decisions] /\ deciding'[q] = v
      /\ \A other \in Deciders \ {q} : deciding'[other] = deciding[other]
  BY <1>1, <1>2 DEF LearningInv, LearningTypeOK
<1>4. /\ reviews' \in [Pairs -> Reviews] /\ reviews'[pair].status = "resolved" /\ reviews'[pair].winner = w
      /\ \A other \in Pairs \ {pair} : reviews'[other] = reviews[other]
  BY <1>1 DEF LearningInv, LearningTypeOK, Reviews
<1>5. \A e \in Deciders \ {q} : Claiming(e) => deciding[e].pair \in Pairs \ {pair}
  BY <1>1 DEF LearningInv, DecisionKnows
<1>6. LearningTypeOK'
  BY <1>1, <1>3, <1>4 DEF LearningInv, LearningTypeOK
<1>7. SaveKnows'
  BY <1>1 DEF LearningInv, SaveKnows, Knows, Used
<1>8. DecisionKnows'
  <2>1. ASSUME NEW e \in Deciders \ {q}
        PROVE  /\ Claiming(e)' => /\ deciding'[e].pair \in Pairs /\ deciding'[e].winner \in deciding'[e].pair
                                  /\ deciding'[e].before \in {"detected", "confirmed"}
                                  /\ reviews'[deciding'[e].pair].status = "resolved"
                                  /\ reviews'[deciding'[e].pair].winner = deciding'[e].winner
               /\ deciding'[e].at \in {"promote", "demote"} => deciding'[e].seen \in Rows
    BY <1>3, <1>4, <1>5 DEF LearningInv, DecisionKnows, Claiming
  <2> QED
    BY <1>1, <1>2, <1>3, <1>4, <2>1 DEF DecisionKnows, Claiming
<1>9. ClaimedOnce'
  BY <1>2, <1>3, <1>5 DEF LearningInv, ClaimedOnce, Claiming
<1>10. Reviewed'
  <2>1. Used' = Used
    BY <1>1 DEF Used
  <2>2. reviews[pair].status # "none"
    BY <1>1
  <2> QED
    BY <1>4, <2>1, <2>2 DEF LearningInv, Reviewed
<1> QED
  BY <1>6, <1>7, <1>8, <1>9, <1>10 DEF LearningInv

\* A release gives the record back as it was.
LEMMA ReleaseKeeps ==
  ASSUME LearningInv, NEW q \in Deciders, Release(q)
  PROVE  LearningInv'
<1> DEFINE pair == deciding[q].pair
<1>1. /\ Claiming(q) /\ deciding' = [deciding EXCEPT ![q].at = "failed"]
      /\ reviews' = [reviews EXCEPT ![pair] = [status |-> deciding[q].before, winner |-> 0]]
      /\ UNCHANGED <<rows, saving, held, reported, troubles, userActs, retiredFor, brokenUndo>>
  BY DEF Release, Claiming, saves, calm, Go
<1>2. pair \in Pairs /\ deciding[q].before \in {"detected", "confirmed"} /\ pair \subseteq Used
  BY <1>1, Decided DEF LearningInv, DecisionKnows
<1>3. /\ deciding' \in [Deciders -> Decisions] /\ deciding'[q].at = "failed"
      /\ \A other \in Deciders \ {q} : deciding'[other] = deciding[other]
  BY <1>1 DEF LearningInv, LearningTypeOK, Decisions
<1>4. /\ reviews' \in [Pairs -> Reviews] /\ reviews'[pair].winner = 0
      /\ \A other \in Pairs \ {pair} : reviews'[other] = reviews[other]
  BY <1>1, <1>2 DEF LearningInv, LearningTypeOK, Reviews
<1>5. \A e \in Deciders \ {q} : Claiming(e) => deciding[e].pair \in Pairs \ {pair}
  BY <1>1 DEF LearningInv, DecisionKnows, ClaimedOnce
<1> HIDE DEF pair
<1>6. LearningTypeOK'
  BY <1>1, <1>3, <1>4 DEF LearningInv, LearningTypeOK
<1>7. SaveKnows'
  BY <1>1 DEF LearningInv, SaveKnows, Knows, Used
<1>8. DecisionKnows'
  BY <1>3, <1>4, <1>5 DEF LearningInv, DecisionKnows, Claiming
<1>9. ClaimedOnce'
  BY <1>3 DEF LearningInv, ClaimedOnce, Claiming
<1>10. Reviewed'
  <2>1. Used' = Used
    BY <1>1 DEF Used
  <2> QED
    BY <1>2, <1>4, <2>1 DEF LearningInv, Reviewed
<1> QED
  BY <1>6, <1>7, <1>8, <1>9, <1>10 DEF LearningInv

\* The step of the user, as one action.
UserActs ==
  \/ \E pair \in Pairs : Confirm(pair) \/ Dismiss(pair)
  \/ \E r \in RowIds : Recur(r) \/ \E force \in BOOLEAN : Forget(r, force)

\* So does the user.
LEMMA UserKeeps ==
  ASSUME LearningInv, UserActs
  PROVE  LearningInv'
<1>1. UNCHANGED <<saving, held, reported, deciding, retiredFor, brokenUndo, troubles>> /\ userActs' \in Nat
  <2>1. userActs > 0 /\ userActs' = userActs - 1 /\ UNCHANGED others
    BY DEF UserActs, Confirm, Dismiss, Recur, Forget
  <2>2. userActs \in Nat
    BY DEF LearningInv, LearningTypeOK
  <2> QED
    BY <2>1, <2>2 DEF others, saves, decisions
<1>2. ASSUME NEW pair \in Pairs, Confirm(pair) \/ Dismiss(pair) PROVE LearningInv'
  <2>1. UNCHANGED rows /\ reviews[pair].status \in {"detected", "confirmed"}
    BY <1>2 DEF Confirm, Dismiss, Open, others
  <2>2. PICK status \in {"confirmed", "dismissed"} : reviews' = [reviews EXCEPT ![pair].status = status]
    BY <1>2 DEF Confirm, Dismiss
  <2>3. Used' = Used /\ pair \subseteq Used
    BY <2>1 DEF Used, LearningInv, Reviewed
  <2>4. reviews' \in [Pairs -> Reviews] /\ DecisionKnows' /\ ClaimedOnce' /\ Reviewed'
    BY <1>1, <2>1, <2>2, <2>3, ReviewWritten
  <2> QED
    BY <1>1, <2>1, <2>3, <2>4 DEF LearningInv, LearningTypeOK, SaveKnows, Knows
<1>3. ASSUME NEW r \in RowIds, Recur(r) \/ \E force \in BOOLEAN : Forget(r, force) PROVE LearningInv'
  <2>1. PICK v \in Rows : rows' = [rows EXCEPT ![r] = v]
    BY <1>3, UserRows
  <2>2. rows' \in [RowIds -> Rows \union {NoRow}] /\ Used \subseteq Used'
    BY <2>1, RowReplaced DEF LearningInv, LearningTypeOK
  <2>3. UNCHANGED reviews
    BY <1>3 DEF Recur, Forget
  <2>4. SaveKnows'
    BY <1>1, <2>2 DEF LearningInv, SaveKnows, Knows
  <2>5. DecisionKnows' /\ ClaimedOnce' /\ Reviewed'
    BY <1>1, <2>2, <2>3 DEF LearningInv, DecisionKnows, ClaimedOnce, Reviewed, Claiming
  <2> QED
    BY <1>1, <2>2, <2>3, <2>4, <2>5 DEF LearningInv, LearningTypeOK
<1> QED
  BY <1>2, <1>3 DEF UserActs

\* The steps of the system, by who takes them.
LEMMA WhoActs ==
  ASSUME LearningNext
  PROVE  \/ \E p \in Savers : SaverActs(p)
         \/ \E q \in Deciders : DeciderActs(q)
         \/ \E q \in Deciders, pair \in Pairs, w \in RowIds : Claim(q, pair, w)
         \/ \E q \in Deciders : Release(q)
         \/ UserActs
BY DEF LearningNext, SaverActs, DeciderActs, UserActs

\* Every step keeps the invariant.
LEMMA LearningKeeps == LearningInv /\ [LearningNext]_learningVars => LearningInv'
<1> SUFFICES ASSUME LearningInv, [LearningNext]_learningVars PROVE LearningInv'
  OBVIOUS
<1>1. CASE UNCHANGED learningVars
  BY <1>1 DEF learningVars, LearningInv, LearningTypeOK, SaveKnows, Knows, Used, DecisionKnows, ClaimedOnce,
              Claiming, Reviewed
<1>2. CASE LearningNext
  BY <1>2, WhoActs, SaverKeeps, DeciderKeeps, ClaimKeeps, ReleaseKeeps, UserKeeps
<1> QED
  BY <1>1, <1>2

\* The types of the model, and what the calls have in hand, in every state.
THEOREM LearningTypes == LearningSpec => []LearningInv
BY LearningStarts, LearningKeeps, PTL DEF LearningSpec

----------------------------------------------------------------------------
(* One side dies *)

\* A decision at work takes no other record.
LEMMA StillClaims ==
  ASSUME LearningInv, NEW q \in Deciders, DeciderActs(q)
  PROVE  /\ \A e \in Deciders : Claiming(e)' => /\ Claiming(e) /\ deciding'[e].pair = deciding[e].pair
                                                /\ deciding'[e].winner = deciding[e].winner
         /\ \A e \in Deciders \ {q} : deciding'[e] = deciding[e]
         /\ deciding'[q].pair = deciding[q].pair
         /\ UNCHANGED <<reviews, saving, held, reported>>
<1>1. PICK v \in Decisions :
        /\ Turns(q, v)
        /\ v.pair = deciding[q].pair /\ v.winner = deciding[q].winner
        /\ v.at \in {"winner", "promote", "retire", "demoting", "demote", "release"} => Claiming(q)
  BY DeciderStep DEF DeciderActs
<1>2. /\ deciding'[q] = v /\ \A other \in Deciders \ {q} : deciding'[other] = deciding[other]
  BY <1>1 DEF Turns, LearningInv, LearningTypeOK
<1>3. UNCHANGED <<saving, held, reported, reviews>>
  BY DEF DeciderActs, ReadWinner, Promote, RetireLoser, WriteFails, WriteFailsTo,
         DemoteRead, Demote, UndoFails, DeciderDies, saves, store
<1> QED
  BY <1>1, <1>2, <1>3 DEF Claiming

\* What a claim does to the records and the decisions.
LEMMA Claimed ==
  ASSUME LearningInv, NEW q \in Deciders, NEW pair \in Pairs, NEW w \in RowIds, Claim(q, pair, w)
  PROVE  /\ reviews[pair].status \in {"detected", "confirmed"} /\ reviews[pair].winner = 0
         /\ reviews'[pair].status = "resolved" /\ reviews'[pair].winner = w
         /\ \A other \in Pairs \ {pair} : reviews'[other] = reviews[other]
         /\ deciding'[q].pair = pair /\ deciding'[q].at = "winner"
         /\ \A e \in Deciders \ {q} : deciding'[e] = deciding[e]
         /\ UNCHANGED <<rows, saving, held, reported, retiredFor, brokenUndo>>
<1>1. /\ reviews[pair].status \in {"detected", "confirmed"}
      /\ reviews' = [reviews EXCEPT ![pair] = [status |-> "resolved", winner |-> w]]
      /\ UNCHANGED <<rows, saving, held, reported, retiredFor, brokenUndo>>
      /\ deciding' = [deciding EXCEPT ![q] = [at |-> "winner", pair |-> pair, winner |-> w,
                    before |-> reviews[pair].status, seen |-> NoRow, promoted |-> FALSE]]
  BY DEF Claim, ClaimFrom, saves
<1>2. /\ deciding'[q].pair = pair /\ deciding'[q].at = "winner"
      /\ \A e \in Deciders \ {q} : deciding'[e] = deciding[e]
  BY <1>1 DEF LearningInv, LearningTypeOK
<1>3. /\ reviews'[pair].status = "resolved" /\ reviews'[pair].winner = w
      /\ \A other \in Pairs \ {pair} : reviews'[other] = reviews[other]
  BY <1>1 DEF LearningInv, LearningTypeOK
<1>4. reviews[pair].winner = 0
  BY <1>1 DEF LearningInv, Reviewed
<1> QED
  BY <1>1, <1>2, <1>3, <1>4

\* What a release does to the records and the decisions.
LEMMA Released ==
  ASSUME LearningInv, NEW q \in Deciders, Release(q)
  PROVE  /\ Claiming(q) /\ deciding[q].at = "release" /\ deciding[q].pair \in Pairs
         /\ reviews'[deciding[q].pair].status \in {"detected", "confirmed"}
         /\ \A other \in Pairs \ {deciding[q].pair} : reviews'[other] = reviews[other]
         /\ ~Claiming(q)' /\ \A e \in Deciders \ {q} : deciding'[e] = deciding[e]
         /\ UNCHANGED <<rows, saving, held, reported, retiredFor, brokenUndo>>
<1> DEFINE pair == deciding[q].pair
<1>1. /\ Claiming(q) /\ deciding[q].at = "release" /\ deciding' = [deciding EXCEPT ![q].at = "failed"]
      /\ reviews' = [reviews EXCEPT ![pair] = [status |-> deciding[q].before, winner |-> 0]]
      /\ UNCHANGED <<rows, saving, held, reported, retiredFor, brokenUndo>>
  BY DEF Release, Claiming, saves, Go
<1>2. pair \in Pairs /\ deciding[q].before \in {"detected", "confirmed"}
  BY <1>1 DEF LearningInv, DecisionKnows
<1>3. ~Claiming(q)' /\ \A e \in Deciders \ {q} : deciding'[e] = deciding[e]
  BY <1>1 DEF LearningInv, LearningTypeOK, Decisions, Claiming
<1> HIDE DEF pair
<1>4. /\ reviews'[pair].status = deciding[q].before
      /\ \A other \in Pairs \ {pair} : reviews'[other] = reviews[other]
  BY <1>1, <1>2 DEF LearningInv, LearningTypeOK
<1> USE DEF pair
<1> QED
  BY <1>1, <1>2, <1>3, <1>4

\* What a save or the user may do to the records: nobody's claim is touched.
LEMMA RecordsKept ==
  ASSUME LearningInv, (\E p \in Savers : SaverActs(p)) \/ UserActs
  PROVE  /\ \A pair \in Pairs :
              /\ reviews'[pair].winner = reviews[pair].winner
              /\ reviews[pair].status = "resolved" => reviews'[pair].status = "resolved"
              /\ reviews[pair].status # "none" => reviews'[pair].status # "none"
         /\ UNCHANGED <<deciding, retiredFor, brokenUndo>>
<1>1. ASSUME NEW p \in Savers, SaverActs(p)
      PROVE  /\ UNCHANGED <<deciding, retiredFor, brokenUndo>>
             /\ \/ UNCHANGED reviews
                \/ \E pair \in Pairs, status \in {"detected", "confirmed", "dismissed"} :
                     /\ reviews[pair].status # "resolved"
                     /\ reviews' = [reviews EXCEPT ![pair].status = status]
  BY <1>1, SaverFrame, Opened
<1>2. ASSUME UserActs
      PROVE  /\ UNCHANGED <<deciding, retiredFor, brokenUndo>>
             /\ \/ UNCHANGED reviews
                \/ \E pair \in Pairs, status \in {"detected", "confirmed", "dismissed"} :
                     /\ reviews[pair].status # "resolved"
                     /\ reviews' = [reviews EXCEPT ![pair].status = status]
  BY <1>2 DEF UserActs, Confirm, Dismiss, Open, Recur, Forget, others, decisions
<1>3. ASSUME NEW pair \in Pairs, NEW status \in {"detected", "confirmed", "dismissed"},
             reviews[pair].status # "resolved", reviews' = [reviews EXCEPT ![pair].status = status]
      PROVE  \A other \in Pairs :
              /\ reviews'[other].winner = reviews[other].winner
              /\ reviews[other].status = "resolved" => reviews'[other].status = "resolved"
              /\ reviews[other].status # "none" => reviews'[other].status # "none"
  <2>1. reviews \in [Pairs -> Reviews]
    BY DEF LearningInv, LearningTypeOK
  <2>2. reviews'[pair].winner = reviews[pair].winner /\ reviews'[pair].status = status
    BY <1>3, <2>1 DEF Reviews
  <2>3. \A other \in Pairs \ {pair} : reviews'[other] = reviews[other]
    BY <1>3, <2>1
  <2> QED
    BY <1>3, <2>2, <2>3
<1> QED
  BY <1>1, <1>2, <1>3

\* A memory is retired by the decision that has the record; it lets go of the record
\* only by another way.
LEMMA RetiredKeeps ==
  ASSUME LearningInv, RetiredOnce, [LearningNext]_learningVars
  PROVE  RetiredOnce'
<1>1. CASE UNCHANGED learningVars
  BY <1>1 DEF learningVars, RetiredOnce, Claiming
<1>2. CASE (\E p \in Savers : SaverActs(p)) \/ UserActs
  BY <1>2, RecordsKept DEF RetiredOnce, Claiming
<1>3. ASSUME NEW q \in Deciders, DeciderActs(q), ~RetireLoser(q) PROVE RetiredOnce'
  <2>1. UNCHANGED retiredFor
    BY <1>3 DEF DeciderActs, ReadWinner, Promote, WriteFails, WriteFailsTo,
                DemoteRead, Demote, UndoFails, DeciderDies
  <2> QED
    BY <1>3, <2>1, StillClaims DEF RetiredOnce
<1>4. ASSUME NEW q \in Deciders, RetireLoser(q) PROVE RetiredOnce'
  <2> DEFINE mine == deciding[q].pair
  <2>1. Claiming(q) /\ mine \in Pairs /\ reviews[mine].status = "resolved"
    BY <1>4 DEF RetireLoser, Claiming, LearningInv, DecisionKnows
  <2>2. retiredFor[mine] = {}
    BY <2>1 DEF RetiredOnce
  <2>3. /\ retiredFor' = [retiredFor EXCEPT ![mine] = @ \union {Loser(q)}]
        /\ deciding' = [deciding EXCEPT ![q].at = "done"]
    BY <1>4 DEF RetireLoser, Go
  <2>4. /\ \A e \in Deciders : Claiming(e)' => Claiming(e) /\ deciding'[e].pair = deciding[e].pair
        /\ UNCHANGED reviews
    BY <1>4, StillClaims DEF DeciderActs
  <2>5. ~Claiming(q)'
    BY <2>3 DEF Claiming, LearningInv, LearningTypeOK, Decisions
  <2>6. \A e \in Deciders : Claiming(e)' => deciding'[e].pair # mine
    BY <2>1, <2>4, <2>5 DEF LearningInv, ClaimedOnce
  <2> HIDE DEF mine
  <2>7. retiredFor'[mine] = {Loser(q)} /\ \A pair \in Pairs \ {mine} : retiredFor'[pair] = retiredFor[pair]
    BY <2>1, <2>2, <2>3 DEF LearningInv, LearningTypeOK
  <2> QED
    BY <2>1, <2>4, <2>6, <2>7 DEF RetiredOnce
<1>5. ASSUME NEW q \in Deciders, NEW pair \in Pairs, NEW w \in RowIds, Claim(q, pair, w) PROVE RetiredOnce'
  <2>1. retiredFor[pair] = {} /\ UNCHANGED retiredFor
    BY <1>5, Claimed DEF RetiredOnce
  <2> QED
    BY <1>5, <2>1, Claimed DEF RetiredOnce, Claiming
<1>6. ASSUME NEW q \in Deciders, Release(q) PROVE RetiredOnce'
  <2>1. retiredFor[deciding[q].pair] = {} /\ UNCHANGED retiredFor
    BY <1>6, Released DEF RetiredOnce
  <2> QED
    BY <1>6, <2>1, Released DEF RetiredOnce, Claiming
<1> QED
  BY <1>1, <1>2, <1>3, <1>4, <1>5, <1>6, WhoActs DEF DeciderActs

\* Deciding one review never retires both of its memories, whoever decides it, and
\* however often it is claimed, fails and is given back.
THEOREM OneSideOnly == LearningSpec => []OneSideDies
<1>1. LearningInit => RetiredOnce
  BY DEF LearningInit, RetiredOnce
<1>2. LearningInv /\ RetiredOnce => OneSideDies
  <2> SUFFICES ASSUME LearningInv, RetiredOnce, NEW pair \in Pairs PROVE Cardinality(retiredFor[pair]) <= 1
    BY DEF OneSideDies
  <2>1. CASE retiredFor[pair] = {}
    BY <2>1, FS_EmptySet
  <2>2. CASE retiredFor[pair] # {}
    <3>1. PICK r : retiredFor[pair] = {r}
      BY <2>2 DEF RetiredOnce
    <3> QED
      BY <3>1, FS_Singleton
  <2> QED
    BY <2>1, <2>2
<1> QED
  BY LearningTypes, <1>1, <1>2, RetiredKeeps, PTL DEF LearningSpec

----------------------------------------------------------------------------
(* A locked memory stands *)

\* The copy a save takes is of a row as it then stands.
LEMMA GotFresh ==
  ASSUME LearningInv, NEW p \in Savers, SaverActs(p)
  PROVE  /\ saving'[p].at \in {"readback", "holding"}
              => saving'[p].id \in Used' /\ saving'[p].got = rows'[saving'[p].id]
         /\ \A other \in Savers \ {p} : saving'[other] = saving[other]
<1>1. PICK v \in Saves : Becomes(p, v) /\ Knows(v, Used')
  BY SaverStep DEF SaverActs
<1>2. saving'[p] = v /\ \A other \in Savers \ {p} : saving'[other] = saving[other]
  BY <1>1 DEF Becomes, LearningInv, LearningTypeOK
<1>3. saving \in [Savers -> Saves]
  BY DEF LearningInv, LearningTypeOK
<1>4. CASE Learn(p)
  <2>1. PICK locked \in BOOLEAN : LearnSeeing(p, locked)
    BY <1>4 DEF Learn, Locked
  <2>2. PICK r \in Used', step \in {"review", "readback", "done"} :
          saving' = [saving EXCEPT ![p].at = step, ![p].id = r, ![p].got = rows'[r]]
    <3>1. \E r \in Used' :
              saving' = [saving EXCEPT ![p].at = CASE saving[p].plan = "beside" -> "review"
                                                   [] saving[p].plan = "supersede" -> "readback"
                                                   [] OTHER -> "done",
                                       ![p].id = r, ![p].got = rows'[r]]
      BY <2>1, LearnRows
    <3>2. PICK r \in Used' :
              saving' = [saving EXCEPT ![p].at = CASE saving[p].plan = "beside" -> "review"
                                                   [] saving[p].plan = "supersede" -> "readback"
                                                   [] OTHER -> "done",
                                       ![p].id = r, ![p].got = rows'[r]]
      BY <3>1
    <3> DEFINE step == CASE saving[p].plan = "beside" -> "review"
                         [] saving[p].plan = "supersede" -> "readback"
                         [] OTHER -> "done"
    <3>3. step \in {"review", "readback", "done"}
      OBVIOUS
    <3>4. saving' = [saving EXCEPT ![p].at = step, ![p].id = r, ![p].got = rows'[r]]
      BY <3>2
    <3> HIDE DEF step
    <3> QED
      BY <3>3, <3>4
  <2>3. saving'[p].id = r /\ saving'[p].got = rows'[r]
    BY <1>3, <2>2 DEF Saves
  <2> QED
    BY <1>2, <2>3
<1>5. CASE HoldRead(p)
  <2>1. saving'[p].id = saving[p].id /\ saving'[p].got = rows[saving[p].id] /\ UNCHANGED rows
    BY <1>3, <1>5 DEF HoldRead, Saves, store
  <2>2. saving[p].id \in Used
    BY <1>5 DEF HoldRead, LearningInv, SaveKnows, Knows
  <2> QED
    BY <1>2, <2>1, <2>2 DEF Used
<1>6. CASE ~Learn(p) /\ ~HoldRead(p)
  <2>1. saving'[p].at \notin {"readback", "holding"}
    <3>1. CASE HoldFails(p) \/ HoldWrite(p) \/ SaverDies(p) \/ ReadBack(p) \/ OpenReview(p) \/ OpenReviewFails(p)
      BY <1>3, <3>1 DEF HoldFails, HoldWrite, SaverDies, ReadBack, OpenReview, OpenReviewFails,
              OpenReviewFailsTelling, Return, At, Saves
    <3>2. CASE Decide(p) \/ \E answer \in {"ADD", "NOOP", "UPDATE"}, r \in RowIds \union {0} : Ask(p, answer, r)
      BY <1>3, <3>2 DEF Decide, Ask, Saves
    <3>3. CASE \E s \in Statements : HashCheck(p, s)
      BY <1>3, <3>3 DEF HashCheck, NoSave
    <3> QED
      BY <1>6, <3>1, <3>2, <3>3 DEF SaverActs
  <2> QED
    BY <1>2, <2>1
<1> QED
  BY <1>4, <1>5, <1>6

\* The copy a decision takes is of its winner as it then stands.
LEMMA SeenFresh ==
  ASSUME LearningInv, NEW q \in Deciders, DeciderActs(q)
  PROVE  deciding'[q].at \in {"promote", "demote"}
           => \E w \in Used : deciding'[q].seen = rows[w] /\ UNCHANGED rows
<1>1. deciding[q] \in Decisions /\ deciding \in [Deciders -> Decisions]
  BY DEF LearningInv, LearningTypeOK
<1>2. CASE ReadWinner(q) \/ DemoteRead(q)
  <2>1. deciding[q].winner \in Used
    BY <1>2, Decided DEF ReadWinner, DemoteRead, Claiming
  <2>2. deciding'[q].seen = rows[deciding[q].winner] /\ UNCHANGED rows
    BY <1>1, <1>2 DEF ReadWinner, DemoteRead, Decisions, store
  <2> QED
    BY <2>1, <2>2
<1>3. CASE Promote(q) \/ RetireLoser(q) \/ WriteFails(q) \/ Demote(q) \/ UndoFails(q) \/ DeciderDies(q)
  <2>1. \E step \in {"retire", "done", "demoting", "release", "failed", "dead"} :
          \/ deciding' = [deciding EXCEPT ![q].at = step]
          \/ deciding' = [deciding EXCEPT ![q].at = step, ![q].promoted = TRUE]
    BY <1>3 DEF Promote, RetireLoser, WriteFails, WriteFailsTo, Demote, UndoFails, DeciderDies, Go
  <2>2. deciding'[q].at \notin {"promote", "demote"}
    BY <1>1, <2>1 DEF Decisions
  <2> QED
    BY <2>2
<1> QED
  BY <1>2, <1>3 DEF DeciderActs

\* One row that is written, with the superseders it had or those of a copy.
Copied(b) ==
  \/ \E u \in Used : b = rows[u].supersededBy
  \/ \E p \in Savers : saving[p].at = "holding" /\ b = saving[p].got.supersededBy
  \/ \E q \in Deciders : deciding[q].at \in {"promote", "demote"} /\ b = deciding[q].seen.supersededBy

\* Only learn() makes rows; every other step leaves the superseders of a row alone, or
\* writes those of a copy back.
LEMMA RowsOf ==
  ASSUME LearningInv, LearningNext, \A p \in Savers : ~Learn(p)
  PROVE  Used' = Used /\ \A u \in Used : Copied(rows'[u].supersededBy)
<1> DEFINE Written == \E r \in Used, v \in Rows : rows' = [rows EXCEPT ![r] = v] /\ Copied(v.supersededBy)
<1>1. CASE UNCHANGED rows
  BY <1>1 DEF Used, Copied
<1>2. ASSUME NEW p \in Savers, HoldWrite(p) PROVE Written
  <2>1. saving[p].at = "holding" /\ saving[p].id \in Used
    BY <1>2 DEF HoldWrite, LearningInv, SaveKnows, Knows
  <2> QED
    BY <1>2, <2>1, HoldRows DEF Copied
<1>3. ASSUME NEW q \in Deciders, Promote(q) \/ Demote(q) PROVE Written
  <2>1. deciding[q].at \in {"promote", "demote"} /\ deciding[q].winner \in Used
    BY <1>3, Decided DEF Promote, Demote, Claiming
  <2>2. PICK v \in Rows : /\ rows' = [rows EXCEPT ![deciding[q].winner] = v]
                          /\ v.supersededBy = deciding[q].seen.supersededBy
    BY <1>3, WinnerRows DEF Promote, Demote
  <2> QED
    BY <2>1, <2>2 DEF Copied
<1>4. ASSUME NEW q \in Deciders, RetireLoser(q) PROVE Written
  <2>1. Loser(q) \in Used
    BY <1>4, Decided DEF RetireLoser, Claiming
  <2> QED
    BY <1>4, <2>1, LoserRows DEF Copied
<1>5. ASSUME NEW r \in RowIds, Recur(r) \/ \E force \in BOOLEAN : Forget(r, force) PROVE Written
  <2>1. r \in Used
    BY <1>5, UserRows, RowThere DEF LearningInv, LearningTypeOK
  <2> QED
    BY <1>5, <2>1, UserRows DEF Copied
<1>6. UNCHANGED rows \/ Written
  <2>1. ASSUME NEW p \in Savers, SaverActs(p) PROVE UNCHANGED rows \/ Written
    <3>1. CASE HoldWrite(p)
      BY <1>2, <3>1
    <3>2. CASE ~HoldWrite(p)
      BY <2>1, <3>2 DEF SaverActs, HashCheck, Ask, Decide, ReadBack, HoldRead, HoldFails, OpenReview,
                        OpenReviewFails, OpenReviewFailsTelling, SaverDies, store
    <3> QED
      BY <3>1, <3>2
  <2>2. ASSUME NEW q \in Deciders, DeciderActs(q) PROVE UNCHANGED rows \/ Written
    <3>1. CASE Promote(q) \/ Demote(q) \/ RetireLoser(q)
      BY <1>3, <1>4, <3>1
    <3>2. CASE ~(Promote(q) \/ Demote(q) \/ RetireLoser(q))
      BY <2>2, <3>2 DEF DeciderActs, ReadWinner, WriteFails, WriteFailsTo, DemoteRead, UndoFails, DeciderDies, store
    <3> QED
      BY <3>1, <3>2
  <2>3. ASSUME UserActs PROVE UNCHANGED rows \/ Written
    BY <1>5, <2>3 DEF UserActs, Confirm, Dismiss
  <2>4. ASSUME NEW q \in Deciders, Release(q) \/ \E pair \in Pairs, w \in RowIds : Claim(q, pair, w)
        PROVE  UNCHANGED rows
    BY <2>4 DEF Release, Claim, ClaimFrom
  <2> HIDE DEF Written
  <2> QED
    BY <2>1, <2>2, <2>3, <2>4, WhoActs
<1>7. ASSUME NEW r \in Used, NEW v \in Rows, rows' = [rows EXCEPT ![r] = v], Copied(v.supersededBy)
      PROVE  Used' = Used /\ \A u \in Used : Copied(rows'[u].supersededBy)
  <2>1. r \in RowIds /\ rows \in [RowIds -> Rows \union {NoRow}]
    BY DEF Used, LearningInv, LearningTypeOK
  <2>2. Used' = Used /\ rows'[r] = v /\ \A u \in Used \ {r} : rows'[u] = rows[u]
    BY <1>7, <2>1, RowReplaced DEF Used
  <2> QED
    BY <1>7, <2>2 DEF Copied
<1> QED
  BY <1>1, <1>6, <1>7

\* The superseders of a row, and of a copy, stay rows.
LEMMA SourcesKept ==
  ASSUME LearningInv, Sources, [LearningNext]_learningVars
  PROVE  Sources'
<1>1. CASE UNCHANGED learningVars
  BY <1>1 DEF learningVars, Sources, Used
<1>2. ASSUME LearningNext PROVE /\ Used \subseteq Used'
                                /\ \A u \in Used' : rows'[u].supersededBy \subseteq Used'
  <2>1. ASSUME NEW p \in Savers, Learn(p)
        PROVE  /\ Used \subseteq Used' /\ \A u \in Used' : rows'[u].supersededBy \subseteq Used'
    <3>1. PICK locked \in BOOLEAN : LearnSeeing(p, locked)
      BY <2>1 DEF Learn, Locked
    <3>2. /\ Used \subseteq Used'
          /\ \A u \in Used : \/ rows'[u].supersededBy = rows[u].supersededBy
                             \/ rows'[u].supersededBy \subseteq rows[u].supersededBy \union Used'
      BY <3>1, LearnRows
    <3>3. \A u \in Used' \ Used : rows'[u].supersededBy = {}
      BY <2>1, <3>1, Minted
    <3> QED
      BY <3>2, <3>3 DEF Sources
  <2>2. CASE \A p \in Savers : ~Learn(p)
    BY <1>2, <2>2, RowsOf DEF Sources, Copied
  <2> QED
    BY <2>1, <2>2
<1>3. CASE LearningNext
  <2>1. ASSUME NEW p \in Savers, SaverActs(p) PROVE Sources'
    <3>1. UNCHANGED deciding
      BY <2>1, SaverFrame
    <3>2. \A e \in Savers : saving'[e].at \in {"readback", "holding"} => saving'[e].got.supersededBy \subseteq Used'
      BY <1>2, <1>3, <2>1, GotFresh DEF Sources
    <3> QED
      BY <1>2, <1>3, <3>1, <3>2 DEF Sources
  <2>2. ASSUME NEW q \in Deciders, DeciderActs(q) PROVE Sources'
    <3>1. UNCHANGED saving /\ \A e \in Deciders \ {q} : deciding'[e] = deciding[e]
      BY <2>2, StillClaims
    <3>2. \A e \in Deciders : deciding'[e].at \in {"promote", "demote"} => deciding'[e].seen.supersededBy \subseteq Used'
      BY <1>2, <1>3, <2>2, <3>1, SeenFresh DEF Sources
    <3> QED
      BY <1>2, <1>3, <3>1, <3>2 DEF Sources
  <2>3. ASSUME UserActs PROVE Sources'
    <3>1. UNCHANGED <<saving, deciding>>
      BY <2>3 DEF UserActs, Confirm, Dismiss, Recur, Forget, others, saves, decisions
    <3> QED
      BY <1>2, <1>3, <3>1 DEF Sources
  <2>4. ASSUME NEW q \in Deciders, NEW pair \in Pairs, NEW w \in RowIds, Claim(q, pair, w) PROVE Sources'
    BY <1>2, <1>3, <2>4, Claimed DEF Sources
  <2>5. ASSUME NEW q \in Deciders, Release(q) PROVE Sources'
    <3>1. /\ UNCHANGED saving /\ ~Claiming(q)'
          /\ \A e \in Deciders \ {q} : deciding'[e] = deciding[e]
      BY <2>5, Released
    <3> QED
      BY <1>2, <1>3, <3>1 DEF Sources, Claiming
  <2> QED
    BY <1>3, <2>1, <2>2, <2>3, <2>4, <2>5, WhoActs
<1> QED
  BY <1>1, <1>3

\* A step of learn() that sees the lock gives a locked memory no superseder; any other
\* step can only bring one back that was saved before.
LEMMA LockedStep ==
  ASSUME LearningInv, Sources, [LearningNext]_learningVars
  PROVE  \A r \in RowIds : Active(r) /\ rows[r].commitment = "locked"
           => rows'[r].supersededBy \subseteq rows[r].supersededBy \union Used
<1> SUFFICES ASSUME NEW r \in RowIds, Active(r), rows[r].commitment = "locked"
             PROVE  rows'[r].supersededBy \subseteq rows[r].supersededBy \union Used
  OBVIOUS
<1>r. r \in Used
  BY DEF Active, Used
<1>1. CASE UNCHANGED learningVars
  BY <1>1 DEF learningVars
<1>2. ASSUME NEW p \in Savers, Learn(p)
      PROVE  rows'[r].supersededBy \subseteq rows[r].supersededBy \union Used
  <2>1. PICK locked \in BOOLEAN : LearnSeeing(p, locked) /\ locked = Locked(saving[p].target)
    BY <1>2 DEF Learn, Locked
  <2>0. r # 0
    BY DEF RowIds
  <2>2. r = saving[p].target => locked
    BY <2>0, <2>1, Zenon DEF Locked
  <2>3. rows'[r].supersededBy = rows[r].supersededBy
    BY <1>r, <2>1, <2>2, LearnRows
  <2> QED
    BY <2>3
<1>3. CASE LearningNext /\ \A p \in Savers : ~Learn(p)
  <2>1. Copied(rows'[r].supersededBy)
    BY <1>r, <1>3, RowsOf
  <2> QED
    BY <2>1 DEF Copied, Sources
<1> QED
  BY <1>1, <1>2, <1>3

\* No save that the duplicate checker directs supersedes a memory that is locked when
\* it lands.
THEOREM LockHolds == LearningSpec => LockedStands
<1>1. LearningInit => Sources
  <2> SUFFICES ASSUME LearningInit PROVE Sources
    OBVIOUS
  <2>1. \A r \in RowIds : rows[r] # NoRow => rows[r].supersededBy = {}
    BY DEF LearningInit, NewRow
  <2> QED
    BY <2>1 DEF LearningInit, Sources, Used, NoSave, NoDecision
<1>2. LearningInv /\ Sources /\ [LearningNext]_learningVars
        => [\A r \in RowIds : Active(r) /\ rows[r].commitment = "locked"
              => rows'[r].supersededBy \subseteq rows[r].supersededBy \union Used]_learningVars
  BY LockedStep
<1> QED
  BY LearningTypes, <1>1, <1>2, SourcesKept, PTL DEF LearningSpec, LockedStands

----------------------------------------------------------------------------
(* What is proposed waits *)

\* Only a promotion gives the agent a row that is held.
LEMMA Gives ==
  ASSUME LearningInv, held \subseteq Used, LearningNext, NEW r \in held', Given(r)'
  PROVE  \/ r \in held /\ Given(r)
         \/ \E q \in Deciders : Promote(q) /\ r = deciding[q].winner
<1>t. rows \in [RowIds -> Rows \union {NoRow}]
  BY DEF LearningInv, LearningTypeOK
<1>0. ASSUME UNCHANGED <<rows, held>> PROVE r \in held /\ Given(r)
  BY <1>0 DEF Given, Active
<1>w. ASSUME NEW u \in RowIds, NEW v \in Rows, rows' = [rows EXCEPT ![u] = v], r # u, r \in held
      PROVE  Given(r)
  <2>1. r \in RowIds
    BY <1>w DEF Used
  <2> QED
    BY <1>t, <1>w, <2>1, RowReplaced DEF Given, Active
<1>1. ASSUME NEW p \in Savers, Learn(p) PROVE r \in held /\ Given(r)
  <2>1. PICK locked \in BOOLEAN : LearnSeeing(p, locked)
    BY <1>1 DEF Learn, Locked
  <2>2. /\ \A u \in Used : rows'[u].commitment = rows[u].commitment /\ rows'[u].status = rows[u].status
        /\ \E u \in Used' : \/ u \in Used /\ held' = held
                            \/ u \notin Used /\ held' = held
                            \/ u \notin Used /\ held' = held \union {u} /\ rows'[u].commitment = "draft"
    BY <2>1, LearnRows
  <2>3. r \in held
    BY <2>2 DEF Given
  <2>4. r \in Used /\ rows[r] # NoRow
    BY <2>3 DEF Used
  <2> QED
    BY <2>2, <2>3, <2>4 DEF Given, Active
<1>2. ASSUME NEW p \in Savers, HoldWrite(p) PROVE r \in held /\ Given(r)
  <2>1. saving[p].id \in RowIds /\ held' = held \union {saving[p].id}
    BY <1>2 DEF HoldWrite, LearningInv, SaveKnows, Knows, Used
  <2>2. PICK v \in Rows : rows' = [rows EXCEPT ![saving[p].id] = v] /\ v.commitment = "draft"
    BY <1>2, HoldRows
  <2>3. r # saving[p].id
    BY <1>t, <2>1, <2>2, RowReplaced DEF Given
  <2> QED
    BY <1>w, <2>1, <2>2, <2>3
<1>3. ASSUME NEW p \in Savers, SaverActs(p), ~Learn(p), ~HoldWrite(p) PROVE r \in held /\ Given(r)
  BY <1>0, <1>3 DEF SaverActs, HashCheck, Ask, Decide, ReadBack, HoldRead, HoldFails, OpenReview,
                    OpenReviewFails, OpenReviewFailsTelling, SaverDies, store
<1>4. ASSUME NEW q \in Deciders, Promote(q), r # deciding[q].winner PROVE r \in held /\ Given(r)
  <2>1. deciding[q].winner \in RowIds /\ UNCHANGED held
    BY <1>4, Decided DEF Promote, Claiming, Used, saves
  <2>2. PICK v \in Rows : rows' = [rows EXCEPT ![deciding[q].winner] = v]
    BY <1>4, WinnerRows DEF Promote
  <2> QED
    BY <1>w, <1>4, <2>1, <2>2
<1>5. ASSUME NEW q \in Deciders, Demote(q) PROVE r \in held /\ Given(r) /\ r # deciding[q].winner
  <2>1. deciding[q].winner \in RowIds /\ UNCHANGED held
    BY <1>5, Decided DEF Demote, Claiming, Used, saves
  <2>2. PICK v \in Rows : rows' = [rows EXCEPT ![deciding[q].winner] = v] /\ v.commitment = "draft"
    BY <1>5, WinnerRows DEF Demote
  <2>3. r # deciding[q].winner
    BY <1>t, <2>1, <2>2, RowReplaced DEF Given
  <2> QED
    BY <1>w, <2>1, <2>2, <2>3
<1>6. ASSUME NEW q \in Deciders, RetireLoser(q) PROVE r \in held /\ Given(r)
  <2>1. Loser(q) \in RowIds /\ UNCHANGED held
    BY <1>6, Decided DEF RetireLoser, Claiming, Used, saves
  <2>2. PICK v \in Rows : rows' = [rows EXCEPT ![Loser(q)] = v] /\ v.status = "retired"
    BY <1>6, LoserRows
  <2>3. r # Loser(q)
    BY <1>t, <2>1, <2>2, RowReplaced DEF Given, Active
  <2> QED
    BY <1>w, <2>1, <2>2, <2>3
<1>7. ASSUME NEW q \in Deciders, DeciderActs(q), ~Promote(q), ~Demote(q), ~RetireLoser(q)
      PROVE  r \in held /\ Given(r)
  BY <1>0, <1>7 DEF DeciderActs, ReadWinner, WriteFails, WriteFailsTo, DemoteRead, UndoFails, DeciderDies, store, saves
<1>8. ASSUME NEW u \in RowIds, Recur(u) \/ \E force \in BOOLEAN : Forget(u, force) PROVE r \in held /\ Given(r)
  <2>1. PICK v \in Rows : /\ rows' = [rows EXCEPT ![u] = v]
                          /\ v.commitment = rows[u].commitment \/ rows[u].commitment = "decided"
    BY <1>8, UserRows
  <2>2. UNCHANGED held /\ Active(u)
    BY <1>8, UserRows DEF Recur, Forget, others, saves
  <2>3. CASE r = u
    BY <1>t, <2>1, <2>2, <2>3, RowReplaced DEF Given
  <2> QED
    BY <1>w, <2>1, <2>2, <2>3
<1>9. ASSUME NEW pair \in Pairs, Confirm(pair) \/ Dismiss(pair) PROVE r \in held /\ Given(r)
  BY <1>0, <1>9 DEF Confirm, Dismiss, others, saves
<1>10. ASSUME NEW q \in Deciders, Release(q) \/ \E pair \in Pairs, w \in RowIds : Claim(q, pair, w)
       PROVE  r \in held /\ Given(r)
  BY <1>0, <1>10 DEF Release, Claim, ClaimFrom, saves
<1>11. ASSUME NEW p \in Savers, SaverActs(p) PROVE r \in held /\ Given(r)
  BY <1>1, <1>2, <1>3, <1>11
<1>12. ASSUME NEW q \in Deciders, DeciderActs(q)
       PROVE  \/ r \in held /\ Given(r)
              \/ Promote(q) /\ r = deciding[q].winner
  BY <1>4, <1>5, <1>6, <1>7, <1>12
<1>13. ASSUME UserActs PROVE r \in held /\ Given(r)
  BY <1>8, <1>9, <1>13 DEF UserActs
<1> QED
  BY <1>10, <1>11, <1>12, <1>13, WhoActs

\* What allows a held row to be given lasts until the row is demoted.
LEMMA AllowedKept ==
  ASSUME LearningInv, LearningNext, NEW pair \in Pairs, NEW r \in RowIds, Allowed(pair, r)
  PROVE  Allowed(pair, r)' \/ \E q \in Deciders : Demote(q) /\ deciding[q].winner = r
<1>1. CASE (\E p \in Savers : SaverActs(p)) \/ UserActs
  BY <1>1, RecordsKept DEF Allowed, Claiming
<1>2. ASSUME NEW q \in Deciders, DeciderActs(q)
      PROVE  Allowed(pair, r)' \/ (Demote(q) /\ deciding[q].winner = r)
  <2>1. brokenUndo \subseteq brokenUndo'
    BY <1>2 DEF DeciderActs, ReadWinner, Promote, RetireLoser, WriteFails, WriteFailsTo,
                DemoteRead, Demote, UndoFails, DeciderDies
  <2>2. CASE pair \in brokenUndo
    BY <2>1, <2>2 DEF Allowed
  <2>3. CASE pair \notin brokenUndo
    <3>0. deciding[q] \in Decisions /\ deciding \in [Deciders -> Decisions]
      BY DEF LearningInv, LearningTypeOK
    <3>1. /\ reviews[pair].winner = r /\ reviews' = reviews
          /\ \A e \in Deciders : Claiming(e) /\ deciding[e].pair = pair
               => deciding[e].promoted /\ deciding[e].at \in {"retire", "demoting", "demote"}
      BY <1>2, <2>3, StillClaims DEF Allowed
    <3>2. /\ \A e \in Deciders : Claiming(e)' => Claiming(e) /\ deciding'[e].pair = deciding[e].pair
          /\ \A e \in Deciders \ {q} : deciding'[e] = deciding[e]
      BY <1>2, StillClaims
    <3>3. CASE Claiming(q) /\ deciding[q].pair = pair
      <4>1. deciding[q].promoted /\ deciding[q].at \in {"retire", "demoting", "demote"}
        BY <3>1, <3>3
      <4>2. deciding[q].winner = r
        BY <3>1, <3>3 DEF LearningInv, DecisionKnows
      <4>3. CASE Demote(q)
        BY <4>2, <4>3
      <4>4. CASE UndoFails(q)
        BY <3>3, <4>4 DEF UndoFails, Allowed
      <4>5. CASE RetireLoser(q) \/ DeciderDies(q)
        <5>1. ~Claiming(q)'
          BY <3>0, <4>5 DEF RetireLoser, DeciderDies, Go, Claiming, Decisions
        <5>2. \A e \in Deciders : Claiming(e)' => e # q
          BY <5>1
        <5>3. \A e \in Deciders : Claiming(e)' /\ deciding'[e].pair = pair
                => deciding'[e].promoted /\ deciding'[e].at \in {"retire", "demoting", "demote"}
          BY <3>1, <3>2, <5>2
        <5> QED
          BY <3>1, <5>3 DEF Allowed
      <4>6. CASE WriteFails(q) \/ DemoteRead(q)
        <5>1. deciding'[q].promoted /\ deciding'[q].at \in {"demoting", "demote"}
          BY <3>0, <4>1, <4>6 DEF WriteFails, WriteFailsTo, DemoteRead, Go, Decisions
        <5>2. \A e \in Deciders : Claiming(e)' /\ deciding'[e].pair = pair
                => deciding'[e].promoted /\ deciding'[e].at \in {"retire", "demoting", "demote"}
          BY <3>1, <3>2, <5>1
        <5> QED
          BY <3>1, <5>2 DEF Allowed
      <4>7. ~ReadWinner(q) /\ ~Promote(q)
        BY <4>1 DEF ReadWinner, Promote
      <4> QED
        BY <1>2, <4>3, <4>4, <4>5, <4>6, <4>7 DEF DeciderActs
    <3>4. CASE ~(Claiming(q) /\ deciding[q].pair = pair)
      <4>1. \A e \in Deciders : Claiming(e)' /\ deciding'[e].pair = pair
              => deciding'[e].promoted /\ deciding'[e].at \in {"retire", "demoting", "demote"}
        BY <3>1, <3>2, <3>4
      <4> QED
        BY <3>1, <4>1 DEF Allowed
    <3> QED
      BY <3>3, <3>4
  <2> QED
    BY <2>2, <2>3
<1>3. ASSUME NEW q \in Deciders, NEW other \in Pairs, NEW w \in RowIds, Claim(q, other, w)
      PROVE  Allowed(pair, r)'
  <2>1. /\ reviews[other].winner = 0
        /\ \A x \in Pairs \ {other} : reviews'[x] = reviews[x]
        /\ deciding'[q].pair = other /\ \A e \in Deciders \ {q} : deciding'[e] = deciding[e]
        /\ UNCHANGED brokenUndo
    BY <1>3, Claimed
  <2>2. r # 0
    BY DEF RowIds
  <2>3. CASE pair \in brokenUndo
    BY <2>1, <2>3 DEF Allowed
  <2>4. CASE pair \notin brokenUndo
    BY <2>1, <2>2, <2>4 DEF Allowed, Claiming
  <2> QED
    BY <2>3, <2>4
<1>4. ASSUME NEW q \in Deciders, Release(q) PROVE Allowed(pair, r)'
  <2>1. /\ Claiming(q) /\ deciding[q].at = "release"
        /\ \A x \in Pairs \ {deciding[q].pair} : reviews'[x] = reviews[x]
        /\ ~Claiming(q)' /\ \A e \in Deciders \ {q} : deciding'[e] = deciding[e]
        /\ UNCHANGED brokenUndo
    BY <1>4, Released
  <2>2. CASE pair \in brokenUndo
    BY <2>1, <2>2 DEF Allowed
  <2>3. CASE pair \notin brokenUndo
    <3>1. pair # deciding[q].pair
      BY <2>1, <2>3 DEF Allowed
    <3> QED
      BY <2>1, <2>3, <3>1 DEF Allowed, Claiming
  <2> QED
    BY <2>2, <2>3
<1> QED
  BY <1>1, <1>2, <1>3, <1>4, WhoActs

\* A held row that is given has been decided for, or its undoing failed.
LEMMA WaitsKept ==
  ASSUME LearningInv, LearningInv', Waits, [LearningNext]_learningVars
  PROVE  Waits'
<1>1. CASE UNCHANGED learningVars
  BY <1>1 DEF learningVars, Waits, Allowed, Claiming, Given, Active, Used
<1>2. CASE LearningNext
  <2>1. held' \subseteq Used'
    <3>1. ASSUME NEW p \in Savers, Learn(p) PROVE held' \subseteq Used'
      <4>1. PICK locked \in BOOLEAN : LearnSeeing(p, locked)
        BY <3>1 DEF Learn, Locked
      <4>2. Used \subseteq Used' /\ \E r \in Used' : held' = held \/ held' = held \union {r}
        BY <4>1, LearnRows
      <4> QED
        BY <4>2 DEF Waits
    <3>2. CASE \A p \in Savers : ~Learn(p)
      <4>1. Used' = Used
        BY <1>2, <3>2, RowsOf
      <4>2. ASSUME NEW p \in Savers, SaverActs(p) PROVE held' \subseteq Used
        <5>1. CASE HoldWrite(p)
          BY <5>1 DEF HoldWrite, LearningInv, SaveKnows, Knows, Waits
        <5>2. CASE ~HoldWrite(p)
          BY <3>2, <4>2, <5>2 DEF SaverActs, HashCheck, Ask, Decide, ReadBack, HoldRead, HoldFails, OpenReview,
                    OpenReviewFails, OpenReviewFailsTelling, SaverDies, Waits
        <5> QED
          BY <5>1, <5>2
      <4>3. ASSUME NEW q \in Deciders, DeciderActs(q) \/ Release(q) \/ \E pair \in Pairs, w \in RowIds : Claim(q, pair, w)
            PROVE  UNCHANGED held
        BY <4>3, StillClaims, Released, Claimed
      <4>4. ASSUME UserActs PROVE UNCHANGED held
        BY <4>4 DEF UserActs, Confirm, Dismiss, Recur, Forget, others, saves
      <4> QED
        BY <1>2, <4>1, <4>2, <4>3, <4>4, WhoActs DEF Waits
    <3> QED
      BY <3>1, <3>2
  <2>2. ASSUME NEW r \in held', Given(r)' PROVE \E pair \in Pairs : r \in pair /\ Allowed(pair, r)'
    <3>1. CASE r \in held /\ Given(r)
      <4>1. PICK pair \in Pairs : r \in pair /\ Allowed(pair, r)
        BY <3>1 DEF Waits
      <4>2. r \in RowIds
        BY <3>1 DEF Waits, Used
      <4>3. ASSUME NEW q \in Deciders, Demote(q), deciding[q].winner = r PROVE FALSE
        <5>1. PICK v \in Rows : rows' = [rows EXCEPT ![r] = v] /\ v.commitment = "draft"
          BY <4>3, WinnerRows DEF Demote
        <5>2. rows'[r].commitment = "draft"
          BY <4>2, <5>1 DEF LearningInv, LearningTypeOK
        <5> QED
          BY <2>2, <5>2 DEF Given
      <4> QED
        BY <1>2, <4>1, <4>2, <4>3, AllowedKept
    <3>2. ASSUME NEW q \in Deciders, Promote(q), r = deciding[q].winner
          PROVE  \E pair \in Pairs : r \in pair /\ Allowed(pair, r)'
      <4>1. Claiming(q)
        BY <3>2 DEF Promote, Claiming
      <4>2. deciding[q].pair \in Pairs /\ r \in deciding[q].pair /\ reviews[deciding[q].pair].winner = r
        BY <3>2, <4>1 DEF LearningInv, DecisionKnows
      <4>3. deciding'[q].promoted /\ deciding'[q].at = "retire"
        BY <3>2 DEF Promote, LearningInv, LearningTypeOK, Decisions
      <4>4. /\ \A e \in Deciders : Claiming(e)' => Claiming(e) /\ deciding'[e].pair = deciding[e].pair
            /\ UNCHANGED reviews
        BY <3>2, StillClaims DEF DeciderActs
      <4>5. \A e \in Deciders : Claiming(e)' /\ deciding'[e].pair = deciding[q].pair => e = q
        BY <4>1, <4>4 DEF LearningInv, ClaimedOnce
      <4> DEFINE pair == deciding[q].pair
      <4>6. reviews'[pair].winner = r /\ \A e \in Deciders : Claiming(e)' /\ deciding'[e].pair = pair => e = q
        BY <4>2, <4>4, <4>5
      <4>7. pair \in Pairs /\ r \in pair
        BY <4>2
      <4> SUFFICES ASSUME NEW x \in Pairs, r \in x, reviews'[x].winner = r,
                          \A e \in Deciders : Claiming(e)' /\ deciding'[e].pair = x => e = q
                   PROVE  Allowed(x, r)'
        BY <4>6, <4>7
      <4> QED
        BY <4>3 DEF Allowed
    <3> QED
      BY <1>2, <2>2, <3>1, <3>2, Gives DEF Waits
  <2> QED
    BY <2>1, <2>2 DEF Waits
<1> QED
  BY <1>1, <1>2

\* What was proposed onto a locked memory is not given to the agent before a review of it
\* is decided for it.
THEOREM ProposalsWait == LearningSpec => []ProposalWaits
<1>1. LearningInit => Waits
  BY DEF LearningInit, Waits
<1>2. LearningInv /\ Waits => ProposalWaits
  BY DEF Waits, Allowed, ProposalWaits
<1> QED
  BY LearningTypes, <1>1, <1>2, WaitsKept, PTL DEF LearningSpec

----------------------------------------------------------------------------
(* What is held is queued *)

\* A recorded review stays recorded.
LEMMA RecordedKept ==
  ASSUME LearningInv, LearningNext, NEW r, Recorded(r)
  PROVE  Recorded(r)'
<1> SUFFICES \A pair \in Pairs : reviews[pair].status # "none" => reviews'[pair].status # "none"
  BY DEF Recorded
<1>1. CASE (\E p \in Savers : SaverActs(p)) \/ UserActs
  BY <1>1, RecordsKept
<1>2. ASSUME NEW q \in Deciders, DeciderActs(q) PROVE reviews' = reviews
  BY <1>2, StillClaims
<1>3. ASSUME NEW q \in Deciders, NEW pair \in Pairs, NEW w \in RowIds, Claim(q, pair, w)
      PROVE  \A x \in Pairs : reviews[x].status # "none" => reviews'[x].status # "none"
  <2>1. reviews'[pair].status = "resolved" /\ \A x \in Pairs \ {pair} : reviews'[x] = reviews[x]
    BY <1>3, Claimed
  <2> QED
    BY <2>1
<1>4. ASSUME NEW q \in Deciders, Release(q)
      PROVE  \A x \in Pairs : reviews[x].status # "none" => reviews'[x].status # "none"
  <2>1. /\ reviews'[deciding[q].pair].status \in {"detected", "confirmed"}
        /\ \A x \in Pairs \ {deciding[q].pair} : reviews'[x] = reviews[x]
    BY <1>4, Released
  <2> QED
    BY <2>1
<1> QED
  BY <1>1, <1>2, <1>3, <1>4, WhoActs

\* A save goes on to the review of the row it has held, until the review is recorded or
\* the caller is told that it is not.
LEMMA OpeningStep ==
  ASSUME LearningInv, NEW p \in Savers, SaverActs(p), NEW r \in Used, Opening(p, r)
  PROVE  Opening(p, r)' \/ Recorded(r)' \/ r \in reported'
<1> DEFINE t == saving[p].target
<1>t. saving[p] \in Saves /\ saving \in [Savers -> Saves] /\ reviews \in [Pairs -> Reviews]
  BY DEF LearningInv, LearningTypeOK
<1>1. CASE ReadBack(p)
  <2>1. r # t /\ saving[p].got.commitment = "draft" /\ t \notin saving[p].got.supersedes /\ saving[p].id = r
    BY <1>1 DEF Opening, ReadBack
  <2>2. saving' = [saving EXCEPT ![p].at = "review"]
    BY <1>1, <2>1 DEF ReadBack, At
  <2> QED
    BY <1>t, <2>1, <2>2 DEF Opening, Saves
<1>2. CASE HoldRead(p) \/ HoldWrite(p) \/ HoldFails(p)
  <2>1. saving[p].id = r /\ r # t
    BY <1>2 DEF Opening, HoldRead, HoldWrite, HoldFails
  <2>2. \E step \in {"holding", "review"} :
          \/ saving' = [saving EXCEPT ![p].at = step]
          \/ saving' = [saving EXCEPT ![p].at = step, ![p].got = rows[r]]
    BY <1>2, <2>1 DEF HoldRead, HoldWrite, HoldFails, At
  <2>3. saving'[p].id = r /\ saving'[p].target = t /\ saving'[p].at \in {"holding", "review"}
    BY <1>t, <2>1, <2>2 DEF Saves
  <2> QED
    BY <2>1, <2>3 DEF Opening
<1>3. CASE OpenReview(p)
  <2>1. saving[p].id = r /\ r # t /\ t \in Used
    BY <1>3 DEF Opening, OpenReview, LearningInv, SaveKnows, Knows
  <2>2. {r, t} \in Pairs
    BY <2>1 DEF Pairs, Used
  <2>3. reviews' = IF reviews[{r, t}].status = "none"
                   THEN [reviews EXCEPT ![{r, t}].status = "detected"] ELSE reviews
    BY <1>3, <2>1, <2>2 DEF OpenReview
  <2>4. \A x \in Pairs : reviews' = (IF reviews[x].status = "none"
                                     THEN [reviews EXCEPT ![x].status = "detected"] ELSE reviews)
                         => reviews'[x].status # "none"
    BY <1>t DEF Reviews
  <2>5. reviews'[{r, t}].status # "none"
    BY <2>2, <2>3, <2>4
  <2> QED
    BY <2>2, <2>5 DEF Recorded
<1>4. CASE OpenReviewFails(p)
  <2>1. saving[p].id = r /\ saving[p].at = "review" /\ r # t
    BY <1>4 DEF OpenReviewFails, OpenReviewFailsTelling, Opening
  <2>2. \/ saving' = [saving EXCEPT ![p].tries = 1]
        \/ reported' = reported \union {r}
    BY <1>4, <2>1 DEF OpenReviewFails, OpenReviewFailsTelling
  <2>3. CASE saving' = [saving EXCEPT ![p].tries = 1]
    BY <1>t, <2>1, <2>3 DEF Opening, Saves
  <2> QED
    BY <2>2, <2>3
<1>5. CASE SaverDies(p)
  <2>1. saving' = [saving EXCEPT ![p].at = "dead"] /\ saving[p].id = r
    BY <1>5 DEF SaverDies, At, Opening
  <2> QED
    BY <1>t, <2>1 DEF Opening, Saves
<1>6. ASSUME \/ \E s \in Statements : HashCheck(p, s)
             \/ \E answer \in {"ADD", "NOOP", "UPDATE"}, u \in RowIds \union {0} : Ask(p, answer, u)
             \/ Decide(p)
             \/ Learn(p)
      PROVE  FALSE
  BY <1>6 DEF HashCheck, Ask, Decide, Learn, LearnSeeing, Opening
<1> QED
  BY <1>1, <1>2, <1>3, <1>4, <1>5, <1>6 DEF SaverActs

\* A row becomes held in a save that goes on to open its review.
LEMMA HeldBy ==
  ASSUME LearningInv, Queued, NEW p \in Savers, SaverActs(p), NEW r \in held' \ held
  PROVE  Opening(p, r)'
<1>t. saving[p] \in Saves /\ saving \in [Savers -> Saves]
  BY DEF LearningInv, LearningTypeOK
<1>1. CASE Learn(p)
  <2>1. PICK locked \in BOOLEAN : LearnSeeing(p, locked) /\ saving[p].at = "learn"
    <3>1. Locked(saving[p].target) \in BOOLEAN
      BY DEF Locked
    <3>2. LearnSeeing(p, Locked(saving[p].target))
      BY <1>1 DEF Learn
    <3>3. \A seen : LearnSeeing(p, seen) => saving[p].at = "learn"
      BY DEF LearnSeeing
    <3> QED
      BY <3>1, <3>2, <3>3
  <2>2. PICK u \in Used' :
          /\ \/ u \in Used /\ held' = held
             \/ /\ u \notin Used /\ rows'[u].supersededBy = {} /\ rows'[u] \in Rows
                /\ \/ held' = held
                   \/ held' = held \union {u} /\ rows'[u].commitment = "draft"
                /\ held' # held => saving[p].plan # "plain" /\ rows'[u].supersedes = {}
          /\ saving' = [saving EXCEPT ![p].at = CASE saving[p].plan = "beside" -> "review"
                                                  [] saving[p].plan = "supersede" -> "readback"
                                                  [] OTHER -> "done",
                                      ![p].id = u, ![p].got = rows'[u]]
    BY <2>1, LearnRows, ZenonT(60)
  <2>3. u = r /\ r \notin Used /\ rows'[r].commitment = "draft"
        /\ saving[p].plan # "plain" /\ rows'[r].supersedes = {}
    BY <2>2
  <2>4. r # saving[p].target
    BY <2>1, <2>3 DEF LearningInv, SaveKnows, Knows
  <2>5. CASE saving[p].plan = "beside"
    <3>1. saving' = [saving EXCEPT ![p].at = "review", ![p].id = r, ![p].got = rows'[r]]
      BY <2>2, <2>3, <2>5
    <3> QED
      BY <1>t, <2>4, <3>1 DEF Opening, Saves
  <2>6. CASE saving[p].plan = "supersede"
    <3>1. saving' = [saving EXCEPT ![p].at = "readback", ![p].id = r, ![p].got = rows'[r]]
      BY <2>2, <2>3, <2>6
    <3>2. /\ saving'[p].at = "readback" /\ saving'[p].id = r /\ saving'[p].got = rows'[r]
          /\ saving'[p].target = saving[p].target
      BY <1>t, <3>1 DEF Saves
    <3> QED
      BY <2>3, <2>4, <3>2 DEF Opening
  <2> QED
    BY <1>t, <2>3, <2>5, <2>6 DEF Saves
<1>2. CASE HoldWrite(p)
  <2>1. /\ saving[p].at = "holding" /\ r = saving[p].id
        /\ saving' = [saving EXCEPT ![p].at = "review"]
    BY <1>2 DEF HoldWrite, At
  <2>2. r # saving[p].target
    BY <2>1 DEF Queued
  <2> QED
    BY <1>t, <2>1, <2>2 DEF Opening, Saves
<1>3. CASE ~Learn(p) /\ ~HoldWrite(p)
  <2>1. UNCHANGED held
    BY <1>3 DEF SaverActs, HashCheck, Ask, Decide, ReadBack, HoldRead, HoldFails, OpenReview,
                OpenReviewFails, OpenReviewFailsTelling, SaverDies
  <2> QED
    BY <2>1
<1> QED
  BY <1>1, <1>2, <1>3

\* A save holds another row than its target.
LEMMA HoldsAnother ==
  ASSUME LearningInv, Queued, NEW p \in Savers, SaverActs(p), saving'[p].at \in {"hold", "holding"}
  PROVE  saving'[p].id # saving'[p].target
<1>t. saving[p] \in Saves /\ saving \in [Savers -> Saves]
  BY DEF LearningInv, LearningTypeOK
<1>1. CASE ReadBack(p)
  <2>1. \E step \in {"done", "review", "hold"} :
          /\ saving' = [saving EXCEPT ![p].at = step]
          /\ step = "hold" => saving[p].id # saving[p].target
    BY <1>1 DEF ReadBack, At
  <2> QED
    BY <1>t, <2>1 DEF Saves
<1>2. CASE HoldRead(p)
  <2>1. saving[p].id # saving[p].target
    BY <1>2 DEF HoldRead, Queued
  <2>2. saving'[p].id = saving[p].id /\ saving'[p].target = saving[p].target
    BY <1>t, <1>2 DEF HoldRead, Saves
  <2> QED
    BY <2>1, <2>2
<1>3. CASE Learn(p)
  <2>1. PICK locked \in BOOLEAN : LearnSeeing(p, locked)
    BY <1>3 DEF Learn, Locked
  <2>2. PICK u \in Used' :
          saving' = [saving EXCEPT ![p].at = CASE saving[p].plan = "beside" -> "review"
                                                  [] saving[p].plan = "supersede" -> "readback"
                                                  [] OTHER -> "done",
                                      ![p].id = u, ![p].got = rows'[u]]
    BY <2>1, LearnRows
  <2>3. saving'[p].at \in {"review", "readback", "done"}
    BY <1>t, <2>2 DEF Saves
  <2> QED
    BY <2>3
<1>4. CASE HoldWrite(p) \/ HoldFails(p) \/ SaverDies(p) \/ OpenReview(p) \/ OpenReviewFails(p)
  <2>1. saving'[p].at \in {"review", "dead", "done"}
    BY <1>t, <1>4 DEF HoldWrite, HoldFails, SaverDies, OpenReview, OpenReviewFails, OpenReviewFailsTelling,
                      Return, At, Saves
  <2> QED
    BY <2>1
<1>5. CASE Decide(p) \/ \E answer \in {"ADD", "NOOP", "UPDATE"}, u \in RowIds \union {0} : Ask(p, answer, u)
  <2>1. saving'[p].at \in {"asked", "learn", "done"}
    BY <1>t, <1>5 DEF Ask, Decide, Saves
  <2> QED
    BY <2>1
<1>6. CASE \E s \in Statements : HashCheck(p, s)
  <2>1. saving'[p].at \in {"hashed", "done"}
    BY <1>t, <1>6 DEF HashCheck, NoSave
  <2> QED
    BY <2>1
<1> QED
  BY <1>1, <1>2, <1>3, <1>4, <1>5, <1>6 DEF SaverActs

\* Every held row has its review recorded, a save that goes on to open it or died, or
\* a caller who was told.
LEMMA QueuedKept ==
  ASSUME LearningInv, Waits, Queued, [LearningNext]_learningVars
  PROVE  Queued'
<1>1. CASE UNCHANGED learningVars
  BY <1>1 DEF learningVars, Queued, Recorded, Opening
<1>2. ASSUME NEW p \in Savers, SaverActs(p), LearningNext PROVE Queued'
  <2>1. /\ reported \subseteq reported'
        /\ \A e \in Savers \ {p} : saving'[e] = saving[e]
    BY <1>2, SaverFrame, GotFresh
  <2>2. ASSUME NEW r \in held' \ reported' PROVE Recorded(r)' \/ \E e \in Savers : Opening(e, r)'
    <3>1. CASE r \in held
      <4>1. r \in Used /\ (Recorded(r) \/ \E e \in Savers : Opening(e, r))
        BY <2>1, <2>2, <3>1 DEF Queued, Waits
      <4>2. ASSUME NEW e \in Savers \ {p}, Opening(e, r) PROVE Opening(e, r)'
        BY <2>1, <4>2 DEF Opening
      <4>3. Opening(p, r) => Opening(p, r)' \/ Recorded(r)'
        BY <1>2, <2>2, <4>1, OpeningStep
      <4> QED
        BY <1>2, <4>1, <4>2, <4>3, RecordedKept
    <3>2. CASE r \notin held
      BY <1>2, <2>2, <3>2, HeldBy
    <3> QED
      BY <3>1, <3>2
  <2>3. \A e \in Savers : saving'[e].at \in {"hold", "holding"} => saving'[e].id # saving'[e].target
    BY <1>2, <2>1, HoldsAnother DEF Queued
  <2> QED
    BY <2>2, <2>3 DEF Queued
<1>3. ASSUME UNCHANGED <<saving, held, reported>>, LearningNext PROVE Queued'
  <2>1. \A e \in Savers, r \in held : Opening(e, r) => Opening(e, r)'
    BY <1>3 DEF Opening
  <2>2. \A r \in held : Recorded(r) => Recorded(r)'
    BY <1>3, RecordedKept
  <2>3. \A e \in Savers : saving'[e].at \in {"hold", "holding"} => saving'[e].id # saving'[e].target
    BY <1>3 DEF Queued
  <2> QED
    BY <1>3, <2>1, <2>2, <2>3 DEF Queued
<1>4. ASSUME NEW q \in Deciders, DeciderActs(q) \/ Release(q) \/ \E pair \in Pairs, w \in RowIds : Claim(q, pair, w)
      PROVE  UNCHANGED <<saving, held, reported>>
  BY <1>4, StillClaims, Released, Claimed
<1>5. ASSUME UserActs PROVE UNCHANGED <<saving, held, reported>>
  BY <1>5 DEF UserActs, Confirm, Dismiss, Recur, Forget, others, saves
<1> QED
  BY <1>1, <1>2, <1>3, <1>4, <1>5, WhoActs

\* A draft made because of a lock can be reached.
THEOREM HeldAreQueued == LearningSpec => []HeldIsQueued
<1>1. LearningInit => Waits /\ Queued
  BY DEF LearningInit, Waits, Queued, NoSave
<1>2. Queued => HeldIsQueued
  BY DEF Queued, Recorded, Opening, HeldIsQueued
<1> QED
  BY LearningTypes, <1>1, <1>2, WaitsKept, QueuedKept, PTL DEF LearningSpec

=============================================================================
