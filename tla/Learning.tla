------------------------------ MODULE Learning ------------------------------
(***************************************************************************)
(* Saving with the duplicate checker, and the review queue it feeds        *)
(* (learn-async.ts; learn, updateEngram, forget and the tension operations *)
(* of index.ts).  The checker's answer arrives long after the rows it was  *)
(* shown were read; every read and every locked write of a call is a step  *)
(* of its own, and other calls, in this process or another, run between    *)
(* them.  One scope, one writable store; a MERGE answer saves as ADD does. *)
(***************************************************************************)
EXTENDS FiniteSets, Integers

CONSTANTS
  Savers,       \* learnAsync calls
  Deciders,     \* resolveTension calls
  Statements,
  MaxRows,      \* rows the store may come to hold
  MaxFaults,    \* writes that may fail, and processes that may die
  MaxUser,      \* the user's own forgets, recurrences and judgements
  NoRow

RowIds == 1..MaxRows
Pairs == {{a, b} : a, b \in RowIds} \ {{a} : a \in RowIds}
Rows == [statement : Statements, status : {"active", "retired"},
         commitment : {"draft", "decided", "locked"}, count : Int,
         supersedes : SUBSET RowIds, supersededBy : SUBSET RowIds]

ASSUME LearningAssumption ==
  /\ MaxRows \in Nat /\ MaxFaults \in Nat /\ MaxUser \in Nat
  /\ NoRow \notin Rows
  /\ \E s, t \in Statements : s # t

VARIABLES
  rows,       \* engrams.yaml: per id a row, or NoRow
  reviews,    \* tensions.yaml: per pair the record
  saving, deciding,
  troubles,   \* faults left
  userActs,   \* acts of the user left
  held,       \* history: rows saved or turned into drafts because a target is locked
  reported,   \* history: rows whose review the caller was told could not be opened
  retiredFor, \* history: per pair the rows retired by resolving it
  brokenUndo  \* history: pairs whose resolution failed and could not be undone

learningVars == <<rows, reviews, saving, deciding, troubles, userActs, held, reported,
                  retiredFor, brokenUndo>>

Active(r) == rows[r] # NoRow /\ rows[r].status = "active"
\* What injection gives the agent.
Given(r) == Active(r) /\ rows[r].commitment # "draft"
Used == {r \in RowIds : rows[r] # NoRow}
Same(s) == {r \in RowIds : Active(r) /\ rows[r].statement = s}

NewRow(s, commitment, targets) ==
  [statement |-> s, status |-> "active", commitment |-> commitment, count |-> 1,
   supersedes |-> targets, supersededBy |-> {}]
NoReview == [status |-> "none", winner |-> 0]
Open(pair) == reviews[pair].status \in {"detected", "confirmed"}

NoSave == [at |-> "no", statement |-> NoRow, answer |-> "ADD", target |-> 0,
           plan |-> "plain", id |-> 0, got |-> NoRow, tries |-> 0]
NoDecision == [at |-> "no", pair |-> {}, winner |-> 0, before |-> "none",
               seen |-> NoRow, promoted |-> FALSE]
Loser(q) == CHOOSE r \in deciding[q].pair : r # deciding[q].winner

LearningInit ==
  /\ LET first == CHOOSE s \in Statements : TRUE
         second == CHOOSE s \in Statements \ {first} : TRUE IN
     \E c \in {"decided", "locked"} :
       rows = [r \in RowIds |-> CASE r = 1 -> NewRow(first, c, {})
                               [] r = 2 -> NewRow(second, "locked", {})
                               [] OTHER -> NoRow]
  /\ reviews = [pair \in Pairs |-> NoReview]
  /\ saving = [p \in Savers |-> NoSave]
  /\ deciding = [q \in Deciders |-> NoDecision]
  /\ troubles = MaxFaults /\ userActs = MaxUser
  /\ held = {} /\ reported = {} /\ brokenUndo = {}
  /\ retiredFor = [pair \in Pairs |-> {}]

----------------------------------------------------------------------------
(* learnAsync *)

store == <<rows, reviews>>
decisions == <<deciding, retiredFor, brokenUndo>>
calm == <<troubles, userActs>>

At(p, step) == saving' = [saving EXCEPT ![p].at = step]
Return(p) == At(p, "done")

\* The hash fast path, before anything is asked; a hit is the answer.
HashCheck(p, s) ==
  /\ saving[p].at = "no"
  /\ \/ \E r \in Same(s) :
          saving' = [saving EXCEPT ![p] = [NoSave EXCEPT !.at = "done", !.statement = s, !.id = r]]
     \/ /\ Same(s) = {}
        /\ saving' = [saving EXCEPT ![p] = [NoSave EXCEPT !.at = "hashed", !.statement = s]]
  /\ UNCHANGED <<store, decisions, calm, held, reported>>

\* The candidates are read and the checker is asked.  What it will say depends on
\* nothing else, so the answer is chosen here; it arrives with Decide.
Ask(p, answer, r) ==
  /\ saving[p].at = "hashed"
  /\ IF r = 0 THEN answer = "ADD" ELSE answer # "ADD" /\ Active(r)
  /\ saving' = [saving EXCEPT ![p].at = "asked", ![p].answer = answer, ![p].target = r]
  /\ UNCHANGED <<store, decisions, calm, held, reported>>

\* The answer is there: the target is read as it is now, whatever its status.
Decide(p) ==
  LET r == saving[p].target
      update == saving[p].answer = "UPDATE" /\ Active(r) IN
  /\ saving[p].at = "asked"
  /\ IF saving[p].answer = "NOOP"
       THEN saving' = [saving EXCEPT ![p].at = "done", ![p].id = r]
       ELSE saving' = [saving EXCEPT ![p].at = "learn",
              ![p].plan = CASE ~update -> "plain"
                            [] update /\ rows[r].commitment = "locked" -> "beside"
                            [] OTHER -> "supersede"]
  /\ UNCHANGED <<store, decisions, calm, held, reported>>

\* learn(), under the store lock: the hash is looked up again, a locked target is
\* seen, the row is minted and the target gets its edge.
LearnSeeing(p, locked) ==
  LET s == saving[p].statement
      supersede == saving[p].plan = "supersede"
      draft == saving[p].plan = "beside" \/ (supersede /\ locked)
      targets == IF supersede /\ ~locked THEN {saving[p].target} ELSE {}
      then == CASE saving[p].plan = "beside" -> "review"
                [] supersede -> "readback"
                [] OTHER -> "done" IN
  /\ saving[p].at = "learn"
  /\ \/ \E r \in Same(s) :
          /\ rows' = [rows EXCEPT ![r].count = @ + 1]
          /\ saving' = [saving EXCEPT ![p].at = then, ![p].id = r, ![p].got = rows'[r]]
          /\ UNCHANGED held
     \/ /\ Same(s) = {}
        /\ \E r \in RowIds \ Used :
             /\ \A u \in RowIds \ Used : r <= u
             /\ rows' = [u \in RowIds |->
                  IF u = r THEN NewRow(s, IF draft THEN "draft" ELSE "decided", targets)
                  ELSE IF u \in targets THEN [rows[u] EXCEPT !.supersededBy = @ \cup {r}]
                  ELSE rows[u]]
             /\ saving' = [saving EXCEPT ![p].at = then, ![p].id = r, ![p].got = rows'[r]]
             /\ held' = IF draft THEN held \cup {r} ELSE held
  /\ UNCHANGED <<reviews, decisions, calm, reported>>

Locked(r) == r # 0 /\ rows[r].commitment = "locked"
\* Mutant: the lock is not looked at again.
LearnBlind(p) == LearnSeeing(p, FALSE)
Learn(p) == LearnSeeing(p, Locked(saving[p].target))

\* UPDATE is judged by effect: both edges, or the lock was seen, or a plain ADD.
ReadBack(p) ==
  LET id == saving[p].id
      t == saving[p].target
      forward == id # t /\ t \in saving[p].got.supersedes
      landed == forward /\ id \in rows[t].supersededBy
      beside == id # t /\ (rows[t].commitment = "locked"
                           \/ (~forward /\ saving[p].got.commitment = "draft"))
  IN
  /\ saving[p].at = "readback"
  /\ At(p, CASE landed \/ ~beside -> "done"
             [] saving[p].got.commitment = "draft" -> "review"
             [] OTHER -> "hold")
  /\ UNCHANGED <<store, decisions, calm, held, reported>>

\* holdAsDraft reads the row, and writes the whole of what it read.
HoldRead(p) ==
  LET r == saving[p].id IN
  /\ saving[p].at = "hold"
  /\ saving' = [saving EXCEPT ![p].at = IF rows[r].commitment = "draft" THEN "review" ELSE "holding",
                              ![p].got = rows[r]]
  /\ UNCHANGED <<store, decisions, calm, held, reported>>

HoldWrite(p) ==
  LET r == saving[p].id IN
  /\ saving[p].at = "holding"
  /\ rows' = [rows EXCEPT ![r] = [saving[p].got EXCEPT !.commitment = "draft"]]
  /\ held' = held \cup {r}
  /\ At(p, "review")
  /\ UNCHANGED <<reviews, decisions, calm, reported>>

HoldFails(p) ==
  /\ saving[p].at = "holding" /\ troubles > 0
  /\ At(p, "review")
  /\ troubles' = troubles - 1
  /\ UNCHANGED <<store, decisions, userActs, held, reported>>

\* recordTensions, under the tensions lock: a recorded pair is returned as it is.
OpenReview(p) ==
  LET pair == {saving[p].id, saving[p].target} IN
  /\ saving[p].at = "review"
  /\ reviews' = IF pair \in Pairs /\ reviews[pair].status = "none"
                THEN [reviews EXCEPT ![pair].status = "detected"] ELSE reviews
  /\ Return(p)
  /\ UNCHANGED <<rows, decisions, calm, held, reported>>

\* It is tried twice, and then the caller is told.
OpenReviewFailsTelling(p, told) ==
  /\ saving[p].at = "review" /\ troubles > 0
  /\ troubles' = troubles - 1
  /\ IF saving[p].tries = 0
       THEN saving' = [saving EXCEPT ![p].tries = 1] /\ UNCHANGED reported
       ELSE Return(p) /\ reported' = reported \cup told
  /\ UNCHANGED <<store, decisions, userActs, held>>

\* Mutant: the failure is only logged.
OpenReviewFailsQuietly(p) == OpenReviewFailsTelling(p, {})
OpenReviewFails(p) == OpenReviewFailsTelling(p, {saving[p].id})

SaverDies(p) ==
  /\ saving[p].at \notin {"no", "done", "dead"} /\ troubles > 0
  /\ At(p, "dead")
  /\ troubles' = troubles - 1
  /\ UNCHANGED <<store, decisions, userActs, held, reported>>

----------------------------------------------------------------------------
(* resolveTension *)

saves == <<saving, held, reported>>
Go(q, step) == deciding' = [deciding EXCEPT ![q].at = step]

\* The record is claimed first, under the tensions lock.
ClaimFrom(q, pair, w, status) ==
  /\ deciding[q].at = "no" /\ w \in pair /\ reviews[pair].status \in status
  /\ reviews' = [reviews EXCEPT ![pair] = [status |-> "resolved", winner |-> w]]
  /\ deciding' = [deciding EXCEPT ![q] = [at |-> "winner", pair |-> pair, winner |-> w,
                    before |-> reviews[pair].status, seen |-> NoRow, promoted |-> FALSE]]
  /\ UNCHANGED <<rows, saves, calm, retiredFor, brokenUndo>>

\* Mutant: the record is not judged again under the lock.
ClaimStale(q, pair, w) == ClaimFrom(q, pair, w, {"detected", "confirmed", "resolved"})
Claim(q, pair, w) == ClaimFrom(q, pair, w, {"detected", "confirmed"})

ReadWinner(q) ==
  LET w == deciding[q].winner IN
  /\ deciding[q].at = "winner"
  /\ deciding' = [deciding EXCEPT
       ![q].seen = rows[w],
       ![q].at = IF Active(w) /\ rows[w].commitment = "draft" THEN "promote" ELSE "retire"]
  /\ UNCHANGED <<store, saves, calm, retiredFor, brokenUndo>>

\* updateEngram({...winner, commitment: 'decided'}): the row as it was read.
Promote(q) ==
  /\ deciding[q].at = "promote"
  /\ rows' = [rows EXCEPT ![deciding[q].winner] = [deciding[q].seen EXCEPT !.commitment = "decided"]]
  /\ deciding' = [deciding EXCEPT ![q].at = "retire", ![q].promoted = TRUE]
  /\ UNCHANGED <<reviews, saves, calm, retiredFor, brokenUndo>>

RetireLoser(q) ==
  LET l == Loser(q) IN
  /\ deciding[q].at = "retire"
  /\ rows' = [rows EXCEPT ![l].status = "retired"]
  /\ retiredFor' = [retiredFor EXCEPT ![deciding[q].pair] = @ \cup {l}]
  /\ Go(q, "done")
  /\ UNCHANGED <<reviews, saves, calm, brokenUndo>>

WriteFailsTo(q, step) ==
  /\ deciding[q].at \in {"promote", "retire"} /\ troubles > 0
  /\ troubles' = troubles - 1
  /\ Go(q, step)
  /\ UNCHANGED <<store, saves, userActs, retiredFor, brokenUndo>>

\* Mutant: the claim is given back and the winner left as it is.
WriteFailsKeeps(q) == WriteFailsTo(q, "release")
WriteFails(q) == WriteFailsTo(q, IF deciding[q].promoted THEN "demoting" ELSE "release")

DemoteRead(q) ==
  /\ deciding[q].at = "demoting"
  /\ deciding' = [deciding EXCEPT ![q].at = "demote", ![q].seen = rows[deciding[q].winner]]
  /\ UNCHANGED <<store, saves, calm, retiredFor, brokenUndo>>

Demote(q) ==
  /\ deciding[q].at = "demote"
  /\ rows' = [rows EXCEPT ![deciding[q].winner] = [deciding[q].seen EXCEPT !.commitment = "draft"]]
  /\ Go(q, "release")
  /\ UNCHANGED <<reviews, saves, calm, retiredFor, brokenUndo>>

\* Every step of the way back is best effort.
Release(q) ==
  /\ deciding[q].at = "release"
  /\ reviews' = [reviews EXCEPT ![deciding[q].pair] = [status |-> deciding[q].before, winner |-> 0]]
  /\ Go(q, "failed")
  /\ UNCHANGED <<rows, saves, calm, retiredFor, brokenUndo>>

UndoFails(q) ==
  /\ deciding[q].at \in {"demote", "release"} /\ troubles > 0
  /\ troubles' = troubles - 1
  /\ brokenUndo' = brokenUndo \cup {deciding[q].pair}
  /\ Go(q, IF deciding[q].at = "demote" THEN "release" ELSE "failed")
  /\ UNCHANGED <<store, saves, userActs, retiredFor>>

DeciderDies(q) ==
  /\ deciding[q].at \notin {"no", "done", "failed", "dead"} /\ troubles > 0
  /\ troubles' = troubles - 1
  /\ Go(q, "dead")
  /\ UNCHANGED <<store, saves, userActs, retiredFor, brokenUndo>>

----------------------------------------------------------------------------
(* The user *)

others == <<saves, decisions, troubles>>

Confirm(pair) ==
  /\ userActs > 0 /\ reviews[pair].status = "detected"
  /\ reviews' = [reviews EXCEPT ![pair].status = "confirmed"]
  /\ userActs' = userActs - 1
  /\ UNCHANGED <<rows, others>>

Dismiss(pair) ==
  /\ userActs > 0 /\ Open(pair)
  /\ reviews' = [reviews EXCEPT ![pair].status = "dismissed"]
  /\ userActs' = userActs - 1
  /\ UNCHANGED <<rows, others>>

\* forget() takes one reference, or, forced, all of them.
Forget(r, force) ==
  /\ userActs > 0 /\ Active(r)
  /\ rows' = IF force \/ rows[r].count = 1
             THEN [rows EXCEPT ![r].status = "retired", ![r].count = 0]
             ELSE [rows EXCEPT ![r].count = @ - 1]
  /\ userActs' = userActs - 1
  /\ UNCHANGED <<reviews, others>>

\* The statement is learned again in another scope: the ladder's last step, which
\* an open review of the row holds back.
Recur(r) ==
  /\ userActs > 0 /\ Active(r) /\ rows[r].commitment = "decided"
  /\ \A pair \in Pairs : r \in pair => ~Open(pair)
  /\ rows' = [rows EXCEPT ![r].commitment = "locked", ![r].count = @ + 1]
  /\ userActs' = userActs - 1
  /\ UNCHANGED <<reviews, others>>

LearningNext ==
  \/ \E p \in Savers :
       \/ \E s \in Statements : HashCheck(p, s)
       \/ \E answer \in {"ADD", "NOOP", "UPDATE"}, r \in RowIds \cup {0} : Ask(p, answer, r)
       \/ Decide(p) \/ Learn(p) \/ ReadBack(p)
       \/ HoldRead(p) \/ HoldWrite(p) \/ HoldFails(p)
       \/ OpenReview(p) \/ OpenReviewFails(p) \/ SaverDies(p)
  \/ \E q \in Deciders :
       \/ \E pair \in Pairs, w \in RowIds : Claim(q, pair, w)
       \/ ReadWinner(q) \/ Promote(q) \/ RetireLoser(q) \/ WriteFails(q)
       \/ DemoteRead(q) \/ Demote(q) \/ Release(q) \/ UndoFails(q) \/ DeciderDies(q)
  \/ \E pair \in Pairs : Confirm(pair) \/ Dismiss(pair)
  \/ \E r \in RowIds : Recur(r) \/ \E force \in BOOLEAN : Forget(r, force)

LearningSpec == LearningInit /\ [][LearningNext]_learningVars

----------------------------------------------------------------------------
(* Properties *)

\* A save that the duplicate checker directs never supersedes a memory that is locked
\* when the save lands, however long ago the checker was shown it (LRN-9): what is new
\* among the superseders of a locked memory was saved before.
LockedStands ==
  [][\A r \in RowIds : Active(r) /\ rows[r].commitment = "locked"
       => rows'[r].supersededBy \subseteq rows[r].supersededBy \union Used]_learningVars

\* What was proposed onto a locked memory is not given to the agent until a review of
\* it has been decided for it: not between its save and its review, and not after a
\* decision that failed and was undone.
ProposalWaits ==
  \A r \in held : Given(r) =>
    \E pair \in Pairs : r \in pair /\ (reviews[pair].winner = r \/ pair \in brokenUndo)

\* Deciding one review never retires both of its memories, in any order of decisions,
\* failures and new decisions.
OneSideDies == \A pair \in Pairs : Cardinality(retiredFor[pair]) <= 1

\* A draft made because of a lock can be reached: its review is recorded, the save is
\* still at work (or its process died), or the caller was told.
HeldIsQueued ==
  \A r \in held \ reported :
    \/ \E pair \in Pairs : r \in pair /\ reviews[pair].status # "none"
    \/ \E p \in Savers : saving[p].id = r
         /\ saving[p].at \in {"readback", "hold", "holding", "review", "dead"}

=============================================================================
