---------------------------- MODULE OutboxClaim ----------------------------
(***************************************************************************)
(* The push claim of one outbox entry (_claimOutboxEntry and               *)
(* _releaseOutboxClaim in index.ts): a file created with O_EXCL, replaced  *)
(* under a takeover marker once its owner is gone, and removed by its      *)
(* owner.  Outbox takes a claim in one step; here every file operation that*)
(* another process can see is a step of its own.                           *)
(***************************************************************************)
EXTENDS Naturals, Sequences, FiniteSets

CONSTANTS
  Flushers,      \* processes that flush the outbox
  Tokens,        \* bound: claim tokens in use at once (a number of them)
  HardLinks,     \* does the filesystem have hard links?
  MayLapse,      \* can a live owner's claim lapse (other host, 15-minute cap)?
  AtomicSweep,   \* does nobody act while a release looks for markers to sweep?
  MaxDepth,      \* OUTBOX_TAKEOVER_MAX_DEPTH
  MaxFaults,     \* bound: processes that die, and files the folder refuses
  Nil

Empty == 0       \* the text of a file between its create and its write

ASSUME ClaimAssumption ==
  /\ Tokens \subseteq Nat \ {Empty}
  /\ HardLinks \in BOOLEAN /\ MayLapse \in BOOLEAN /\ AtomicSweep \in BOOLEAN
  /\ MaxDepth \in Nat \ {0} /\ MaxFaults \in Nat
  /\ Nil \notin Nat \union Flushers

VARIABLES
  claimFile,  \* the claim file, or Nil
  markers,    \* the takeover markers beside it
  stage,      \* where each process stands
  tok,        \* per process: the token of its attempt, or of the claim it holds
  name,       \* per process: the name of the marker it is after
  cur,        \* per process: the claim its release saw on file
  list,       \* per process: markers it is about to remove
  faults      \* processes that died, and files refused

claimVars == <<claimFile, markers, stage, tok, name, cur, list, faults>>

----------------------------------------------------------------------------
(* Files.  A token is unique: one is used again when nothing refers to it. *)

Texts == Tokens \union {Empty}
\* `dead`: its owner died; `lapsed`: a reader judges it not held any more.
Files == [tok : Tokens, by : Flushers, full : BOOLEAN, dead : BOOLEAN, lapsed : BOOLEAN]
ASSUME NilAssumption == Nil \notin Files
NewFile(p, full) ==
  [tok |-> tok[p], by |-> p, full |-> full, dead |-> FALSE, lapsed |-> FALSE]

TextOf(f) == IF f = Nil THEN Nil ELSE IF f.full THEN f.tok ELSE Empty

\* A marker is named after the stale claim it guards and the dead markers its
\* creator walked past.
Names == UNION {[1..n -> Texts] : n \in 1..MaxDepth}
MarkersAt(n) == {m \in markers : m.name = n}
Prefixes(n) == {SubSeq(n, 1, i) : i \in 1..(Len(n) - 1)}

SeqToks(n) == {n[i] : i \in 1..Len(n)}
Used ==
  (IF claimFile = Nil THEN {} ELSE {claimFile.tok})
    \union (UNION {SeqToks(m.name) \union {m.file.tok} : m \in markers})
    \union (UNION {{tok[p], cur[p]} \union SeqToks(name[p])
                     \union (UNION {SeqToks(n) : n \in list[p]}) : p \in Flushers})
Fresh == Tokens \ Used
NewToken == CHOOSE t \in Fresh : \A u \in Fresh : t <= u

ClaimInit ==
  /\ claimFile = Nil
  /\ markers = {}
  /\ stage = [p \in Flushers |-> "idle"]
  /\ tok = [p \in Flushers |-> Nil]
  /\ name = [p \in Flushers |-> <<>>]
  /\ cur = [p \in Flushers |-> Nil]
  /\ list = [p \in Flushers |-> {}]
  /\ faults = 0

Move(p, l) == stage' = [stage EXCEPT ![p] = l]
Forgotten(p) ==
  /\ tok' = [tok EXCEPT ![p] = Nil]
  /\ name' = [name EXCEPT ![p] = <<>>]
  /\ cur' = [cur EXCEPT ![p] = Nil]
  /\ list' = [list EXCEPT ![p] = {}]
Busy(p) == Forgotten(p) /\ Move(p, "idle")
memory == <<tok, name, cur, list>>

----------------------------------------------------------------------------
(* _claimOutboxEntry *)

\* The claim on file is read and judged; nothing happens while it is held.
Look(p) ==
  /\ stage[p] = "idle" /\ Fresh # {}
  /\ tok' = [tok EXCEPT ![p] = NewToken]
  /\ \/ claimFile = Nil /\ Move(p, "publish") /\ UNCHANGED name
     \/ /\ claimFile # Nil /\ claimFile.lapsed
        /\ name' = [name EXCEPT ![p] = <<TextOf(claimFile)>>]
        /\ Move(p, "mark")
  /\ UNCHANGED <<claimFile, markers, cur, list, faults>>

\* publishExclusive of a free claim: one step with hard links, else create and
\* write.  Somebody else's file makes it busy.
Publish(p) ==
  /\ stage[p] = "publish"
  /\ \/ /\ claimFile = Nil
        /\ claimFile' = NewFile(p, HardLinks)
        /\ Move(p, IF HardLinks THEN "holding" ELSE "write")
        /\ UNCHANGED memory
     \/ claimFile # Nil /\ Busy(p) /\ UNCHANGED claimFile
  /\ UNCHANGED <<markers, faults>>

\* The folder refuses the file (full, read-only): busy, and nothing to clean up.
Refused(p) ==
  /\ stage[p] \in {"publish", "mark"} /\ faults < MaxFaults
  /\ faults' = faults + 1
  /\ Busy(p)
  /\ UNCHANGED <<claimFile, markers>>

\* The write goes to the file that was created, wherever that is by now.
WriteClaim(p) ==
  /\ stage[p] = "write"
  /\ claimFile' = IF claimFile # Nil /\ claimFile.tok = tok[p]
                    THEN [claimFile EXCEPT !.full = TRUE]
                    ELSE claimFile
  /\ Move(p, "holding")
  /\ UNCHANGED <<markers, memory, faults>>

\* publishExclusive of the marker.
Mark(p) ==
  /\ stage[p] = "mark"
  /\ \/ /\ MarkersAt(name[p]) = {}
        /\ markers' = markers \union {[name |-> name[p], file |-> NewFile(p, HardLinks)]}
        /\ Move(p, IF HardLinks THEN "recheck" ELSE "markWrite")
        /\ UNCHANGED memory
     \/ /\ MarkersAt(name[p]) # {}
        /\ Move(p, "look")
        /\ UNCHANGED <<markers, memory>>
  /\ UNCHANGED <<claimFile, faults>>

MarkWrite(p) ==
  /\ stage[p] = "markWrite"
  /\ markers' = {IF m.file.tok = tok[p] THEN [m EXCEPT !.file.full = TRUE] ELSE m : m \in markers}
  /\ Move(p, "recheck")
  /\ UNCHANGED <<claimFile, memory, faults>>

\* Mutant: a marker that is there makes it busy, also a dead racer's.
LookAtMarkerNever(p) ==
  /\ stage[p] = "look"
  /\ Busy(p)
  /\ UNCHANGED <<claimFile, markers, faults>>

\* Whose marker is there?  Gone or held: busy.  A dead racer's: go for the
\* marker named after it.
LookAtMarker(p) ==
  /\ stage[p] = "look"
  /\ LET there == MarkersAt(name[p])
         dead  == {m \in there : m.file.lapsed}
     IN \/ /\ dead = {} \/ Len(name[p]) >= MaxDepth
           /\ Busy(p)
        \/ /\ Len(name[p]) < MaxDepth
           /\ \E m \in dead : name' = [name EXCEPT ![p] = Append(@, TextOf(m.file))]
           /\ Move(p, "mark")
           /\ UNCHANGED <<tok, cur, list>>
  /\ UNCHANGED <<claimFile, markers, faults>>

\* Under the marker: is it still the claim that was judged stale?
Recheck(p) ==
  /\ stage[p] = "recheck"
  /\ IF TextOf(claimFile) = name[p][1]
       THEN Move(p, "rename") /\ UNCHANGED memory
       ELSE /\ tok' = [tok EXCEPT ![p] = Nil]
            /\ list' = [list EXCEPT ![p] = {name[p]} \union Prefixes(name[p])]
            /\ Move(p, "clear")
            /\ UNCHANGED <<name, cur>>
  /\ UNCHANGED <<claimFile, markers, faults>>

\* A claim that cannot be recorded is no claim (B1).
RenameFails(p) ==
  /\ stage[p] = "rename" /\ faults < MaxFaults
  /\ faults' = faults + 1
  /\ tok' = [tok EXCEPT ![p] = Nil]
  /\ list' = [list EXCEPT ![p] = {name[p]}]
  /\ Move(p, "clear")
  /\ UNCHANGED <<claimFile, markers, name, cur>>

Rename(p) ==
  /\ stage[p] = "rename"
  /\ claimFile' = NewFile(p, TRUE)
  /\ list' = [list EXCEPT ![p] = {name[p]} \union Prefixes(name[p])]
  /\ Move(p, "clear")
  /\ UNCHANGED <<markers, tok, name, cur, faults>>

\* removeQuietly, one marker at a time, and then the answer.
Clear(p) ==
  /\ stage[p] = "clear"
  /\ \/ \E n \in list[p] :
          /\ markers' = markers \ MarkersAt(n)
          /\ list' = [list EXCEPT ![p] = @ \ {n}]
          /\ UNCHANGED <<stage, tok, name, cur>>
     \/ /\ list[p] = {}
        /\ IF tok[p] = Nil THEN Busy(p)
           ELSE Move(p, "holding") /\ name' = [name EXCEPT ![p] = <<>>] /\ UNCHANGED <<tok, cur, list>>
        /\ UNCHANGED markers
  /\ UNCHANGED <<claimFile, faults>>

----------------------------------------------------------------------------
(* _releaseOutboxClaim *)

\* The claim on file is compared with the token ...
Release(p) ==
  /\ stage[p] = "holding"
  /\ tok' = [tok EXCEPT ![p] = Nil]
  /\ Move(p, IF TextOf(claimFile) = tok[p] THEN "remove" ELSE "sweep")
  /\ UNCHANGED <<claimFile, markers, name, cur, list, faults>>

\* ... and removed.
Remove(p) ==
  /\ stage[p] = "remove"
  /\ claimFile' = Nil
  /\ Move(p, "sweep")
  /\ UNCHANGED <<markers, memory, faults>>

Guarding(t) == {m \in markers : m.name[1] = t}
Swept(t) == {m.name : m \in markers \ Guarding(t)}

\* Mutant: every marker is swept.
SweepAll(p) ==
  /\ stage[p] = "sweep"
  /\ list' = [list EXCEPT ![p] = {m.name : m \in markers}]
  /\ Move(p, "clear")
  /\ UNCHANGED <<claimFile, markers, tok, name, cur, faults>>

\* The markers of claims that are not in place are swept: the claim is read,
\* then the folder, then they go one by one.
Sweep(p) ==
  /\ stage[p] = "sweep"
  /\ IF AtomicSweep
       THEN /\ list' = [list EXCEPT ![p] = Swept(TextOf(claimFile))]
            /\ Move(p, "clear")
            /\ UNCHANGED cur
       ELSE /\ cur' = [cur EXCEPT ![p] = TextOf(claimFile)]
            /\ Move(p, "list")
            /\ UNCHANGED list
  /\ UNCHANGED <<claimFile, markers, tok, name, faults>>

List(p) ==
  /\ stage[p] = "list"
  /\ list' = [list EXCEPT ![p] = Swept(cur[p])]
  /\ cur' = [cur EXCEPT ![p] = Nil]
  /\ Move(p, "clear")
  /\ UNCHANGED <<claimFile, markers, tok, name, faults>>

----------------------------------------------------------------------------
(* Crashes and clocks *)

\* The process of the owner can be probed; a half-written file says nothing of
\* its owner, and counts as live for the length of a lease.
Orphaned(f, p) ==
  IF f.by = p THEN [f EXCEPT !.dead = TRUE, !.lapsed = @ \/ f.full] ELSE f

ClaimerDies(p) ==
  /\ stage[p] # "idle" /\ faults < MaxFaults
  /\ faults' = faults + 1
  /\ claimFile' = IF claimFile = Nil THEN Nil ELSE Orphaned(claimFile, p)
  /\ markers' = {[m EXCEPT !.file = Orphaned(m.file, p)] : m \in markers}
  /\ Busy(p)

CanLapse(f) == ~f.lapsed /\ (f.dead \/ MayLapse)
Lapse ==
  /\ \/ /\ claimFile # Nil /\ CanLapse(claimFile)
        /\ claimFile' = [claimFile EXCEPT !.lapsed = TRUE]
        /\ UNCHANGED markers
     \/ \E m \in markers :
          /\ CanLapse(m.file)
          /\ markers' = (markers \ {m}) \union {[m EXCEPT !.file.lapsed = TRUE]}
          /\ UNCHANGED claimFile
  /\ UNCHANGED <<stage, memory, faults>>

----------------------------------------------------------------------------
Claim(p) ==
  \/ Look(p) \/ Publish(p) \/ Refused(p) \/ WriteClaim(p) \/ Mark(p) \/ MarkWrite(p) \/ LookAtMarker(p)
  \/ Recheck(p) \/ Rename(p) \/ RenameFails(p) \/ Clear(p)
Free(p) == Release(p) \/ Remove(p) \/ Sweep(p) \/ List(p)

ClaimNext == (\E p \in Flushers : Claim(p) \/ Free(p) \/ ClaimerDies(p)) \/ Lapse

ClaimSpec == ClaimInit /\ [][ClaimNext]_claimVars

\* A process that has begun goes on, every flush looks at the entry again, a
\* push ends, and leases run out.  No folder refuses files for good (MaxFaults).
ClaimFairness == WF_claimVars(Lapse) /\ \A p \in Flushers : WF_claimVars(Claim(p) \/ Free(p))


----------------------------------------------------------------------------
(* Properties *)

\* Decision C3: two writers never hold the claim at once.
OneClaimant ==
  \A p, q \in Flushers : stage[p] = "holding" /\ stage[q] = "holding" => p = q

\* A claim in force is never replaced, and only its owner removes it.
LiveClaimStands ==
  [][claimFile # Nil /\ ~claimFile.lapsed /\ (claimFile' = Nil \/ claimFile'.tok # claimFile.tok)
       => Remove(claimFile.by)]_claimVars

\* The claim implements StoreMutex.
StageOf(p) ==
  CASE stage[p] = "holding" -> "in"
    [] stage[p] # "holding" /\ tok[p] # Nil -> "waiting"
    [] OTHER -> "out"
Abs == INSTANCE StoreMutex
         WITH Procs <- Flushers, stage <- [p \in Flushers |-> StageOf(p)]
ImplementsMutex == Abs!AbsSpec

\* Dead claims and dead takeover markers never wedge an entry.
DeadClaimIsReplaced ==
  (claimFile # Nil /\ claimFile.dead) ~> (claimFile = Nil \/ ~claimFile.dead)
=============================================================================
