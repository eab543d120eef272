---------------------------- MODULE VerifyChain ----------------------------
(***************************************************************************)
(* What `plur verify` says of the history log (verify-chain.ts): whether it *)
(* can read it, which links are broken, and which events claim the same    *)
(* predecessor.  A log is one sequence of lines per month, or NoFile.      *)
(***************************************************************************)
EXTENDS Naturals, Sequences, FiniteSets

CONSTANT NoFile

\* An event stands for its hash, which no two share; Null is the prev of an
\* event that declares a gap, or is the first.
Null == 0
Event(e, p) == [kind |-> "event", id |-> e, prev |-> p]
\* A line that does not parse: an incomplete one at the end of its file
\* (no newline), or one that is closed.
Torn == [kind |-> "torn", id |-> Null, prev |-> Null]
Bad == [kind |-> "bad", id |-> Null, prev |-> Null]
Line == [kind : {"event", "torn", "bad"}, id : Nat, prev : Nat]

ASSUME FileAssumption == NoFile \notin Seq(Line)

Lines(log, m) == IF log[m] = NoFile THEN <<>> ELSE log[m]

\* The places of the events, in the order verifyChain walks them.
Events(log) ==
  UNION {{<<m, i>> : i \in {j \in 1..Len(Lines(log, m)) : log[m][j].kind = "event"}} :
           m \in DOMAIN log}
At(log, x) == log[x[1]][x[2]]
Before(x, y) == x[1] < y[1] \/ (x[1] = y[1] /\ x[2] < y[2])
Last(S) == CHOOSE x \in S : \A y \in S \ {x} : Before(y, x)
Earlier(log, x) == {y \in Events(log) : Before(y, x)}

\* The verifier refuses a log with a line it cannot parse, but for an
\* incomplete last line of the newest month.
Refuses(log) ==
  \E m \in DOMAIN log : \E i \in 1..Len(Lines(log, m)) :
    /\ log[m][i].kind # "event"
    /\ ~(i = Len(log[m]) /\ \A n \in DOMAIN log : n > m => log[n] = NoFile)

\* The event a link may skip to: the last one before x that is not a declared
\* gap (the first event counts as none).
BeforeGap(log, x) ==
  LET first(y) == Earlier(log, y) = {}
  IN Last({y \in Earlier(log, x) : first(y) \/ At(log, y).prev # Null})

\* prev_mismatch: the link names neither the event before it nor the one
\* before the declared gaps.
Mismatched(log) ==
  {x \in Events(log) :
     /\ Earlier(log, x) # {}
     /\ At(log, x).prev \notin {Null, At(log, Last(Earlier(log, x))).id,
                                At(log, BeforeGap(log, x)).id}}

\* declared_gap.
Gaps(log) == {x \in Events(log) : Earlier(log, x) # {} /\ At(log, x).prev = Null}

\* Mutant: the first event of the log is not looked at.
DanglingLater(log) ==
  {x \in Events(log) : /\ At(log, x).prev # Null /\ Earlier(log, x) # {}
                       /\ \A y \in Events(log) : At(log, y).id # At(log, x).prev}

\* dangling_prev: the link names no event of the log.
Dangling(log) ==
  {x \in Events(log) : /\ At(log, x).prev # Null
                       /\ \A y \in Events(log) : At(log, y).id # At(log, x).prev}

\* A fork: two events claim one predecessor.  An event without one claims to be
\* the first as long as no event before it has a link.
Claims(log, x) ==
  At(log, x).prev # Null \/ \A y \in Earlier(log, x) : At(log, y).prev = Null
Forks(log) ==
  {p \in {At(log, x).prev : x \in Events(log)} :
     \E x, y \in Events(log) : /\ x # y /\ Claims(log, x) /\ Claims(log, y)
                               /\ At(log, x).prev = p /\ At(log, y).prev = p}

Broken(log) == Mismatched(log) \union Dangling(log)
Verified(log) ==
  /\ ~Refuses(log) /\ Dangling(log) = {} /\ Gaps(log) = {}
  /\ Mismatched(log) = {} /\ Forks(log) = {}
=============================================================================
