---------------------------- MODULE PackRegistry ----------------------------
(***************************************************************************)
(* Packs and their baselines (packs.ts): installs that swap a staged copy  *)
(* into a directory and then record its hash, uninstalls that drop the row *)
(* and then the directory, the migration of v1 hashes, and the verdict of  *)
(* a listing.  A registry write holds the registry lock and is one step;   *)
(* what goes on in the directories is not under that lock.                 *)
(***************************************************************************)
EXTENDS Naturals, Sequences

CONSTANTS
  Installers,   \* processes that install, uninstall, migrate
  Names,        \* manifest names
  Dirs,         \* directories of the packs folder; a source folder has the name of one
  Fallbacks,    \* per manifest name: the directory called like it, then <name>-2, -3, ...
  Vers,         \* versions of a pack
  Overlap,      \* may two installs or uninstalls be at work in one directory?
  MaxJobs,      \* bound: installs, uninstalls and migrations
  MaxEdits,     \* bound: changes behind PLUR's back
  MaxMishaps,   \* bound: processes that die, renames that fail
  NoPack

ASSUME PackAssumption ==
  /\ Fallbacks \in [Names -> Seq(Dirs)]
  /\ Overlap \in BOOLEAN /\ MaxJobs \in Nat /\ MaxEdits \in Nat /\ MaxMishaps \in Nat
  /\ NoPack \notin Dirs \union Names

VARIABLES
  dirs,     \* what each directory holds
  own,      \* registry rows with a `dir`
  legacy,   \* registry rows from before `dir`, by manifest name
  job,      \* what each process is at
  placed,   \* history: the content an install last put into each directory
  intact,   \* history: directories whose last install ended with its row written
  jobs, edits, mishaps

packVars == <<dirs, own, legacy, job, placed, intact, jobs, edits, mishaps>>
registry == <<own, legacy>>
bounds == <<jobs, edits, mishaps>>

----------------------------------------------------------------------------
(* Packs, hashes and rows *)

\* `moved`: bytes moved between the hashed parts, which v1 cannot see.
Hashes == [name : Names, ver : Vers, moved : BOOLEAN]
HashOf(c) == [name |-> c.name, ver |-> c.ver, moved |-> c.moved]
SameV1(h, g) == h.name = g.name /\ h.ver = g.ver
Contents == [name : Names, ver : Vers, moved : BOOLEAN, readable : BOOLEAN]
Content(n, v) == [name |-> n, ver |-> v, moved |-> FALSE, readable |-> TRUE]

\* `asked`: the name of the source folder, NoPack for a URL.
RegistryRows == [hash : Hashes, v2 : BOOLEAN, carried : BOOLEAN, ambiguous : BOOLEAN,
         asked : Dirs \union {NoPack}]
NewRow(c, asked) ==
  [hash |-> HashOf(c), v2 |-> TRUE, carried |-> FALSE, ambiguous |-> FALSE, asked |-> asked]
OldRow(c, asked) == [NewRow(c, asked) EXCEPT !.v2 = FALSE]
ASSUME RowAssumption == NoPack \notin Contents \union Hashes \union RegistryRows

Matches(row, c) == IF row.v2 THEN row.hash = HashOf(c) ELSE SameV1(row.hash, HashOf(c))

Holds(d, n) == dirs[d] # NoPack /\ dirs[d].readable /\ dirs[d].name = n

----------------------------------------------------------------------------
(* Which row is whose *)

\* otherDirsNamed: who else could own the legacy row of the name.
Others(d, n) == {e \in Dirs \ {d} : own[e] = NoPack /\ Holds(e, n)}

\* findRegistryRowIndex
RowFor(d, n) ==
  IF own[d] # NoPack THEN own[d] ELSE IF n \in Names THEN legacy[n] ELSE NoPack
\* isAmbiguousLegacyRow
Ambiguous(d, n) ==
  own[d] = NoPack /\ RowFor(d, n) # NoPack /\ (legacy[n].ambiguous \/ Others(d, n) # {})

\* addToRegistry: its own row, or a legacy row that only it can own, is replaced.
AddRow(d, n, row) ==
  /\ own' = [own EXCEPT ![d] = row]
  /\ legacy' = IF own[d] = NoPack /\ Others(d, n) = {} THEN [legacy EXCEPT ![n] = NoPack]
               ELSE legacy

\* removeFromRegistry: a legacy row that another could own stays, marked.
RemoveRow(d, n) ==
  IF own[d] # NoPack THEN own' = [own EXCEPT ![d] = NoPack] /\ UNCHANGED legacy
  ELSE /\ legacy' = IF RowFor(d, n) = NoPack THEN legacy
                     ELSE [legacy EXCEPT ![n] = IF Others(d, n) = {} THEN NoPack
                                                ELSE [@ EXCEPT !.ambiguous = TRUE]]
       /\ UNCHANGED own

\* listPacks
Verdict(d) ==
  LET row == RowFor(d, dirs[d].name)
  IN IF ~dirs[d].readable \/ row = NoPack \/ Ambiguous(d, dirs[d].name) THEN "unverified"
     ELSE IF Matches(row, dirs[d]) THEN "ok" ELSE "modified"

----------------------------------------------------------------------------
(* Which directory is whose *)

\* pickInstallDirName: where the pack is already, else the first directory that is
\* free, damaged, or holds the same pack.
Candidates(f, n) == <<f>> \o Fallbacks[n]
Accepts(d, n) == dirs[d] = NoPack \/ ~dirs[d].readable \/ dirs[d].name = n
Holding(f, n) == {i \in DOMAIN Candidates(f, n) : Holds(Candidates(f, n)[i], n)}
Open(f, n) == {i \in DOMAIN Candidates(f, n) : Accepts(Candidates(f, n)[i], n)}
Least(S) == {i \in S : \A j \in S : i <= j}
\* Mutant: the directory is taken whatever it holds.
PickedBlind(f, n) == {f}
Picked(f, n) ==
  {Candidates(f, n)[i] : i \in Least(IF Holding(f, n) # {} THEN Holding(f, n) ELSE Open(f, n))}

\* staleCollisionCopies: copies of the pack displaced from `d`, or that `d` was
\* displaced from.
AskedFor(d) ==
  IF own[d] = NoPack \/ own[d].asked = d THEN NoPack ELSE own[d].asked
StaleCopies(d, n) == {e \in Dirs \ {d} : Holds(e, n) /\ (AskedFor(e) = d \/ AskedFor(d) = e)}

----------------------------------------------------------------------------
(* Jobs *)

NoJob == [at |-> "idle", dir |-> NoPack, name |-> NoPack, pack |-> NoPack, asked |-> NoPack,
         aside |-> NoPack, copies |-> {}, copy |-> NoPack, plan |-> {}]

\* An empty folder.
Fresh ==
  /\ dirs = [d \in Dirs |-> NoPack] /\ own = [d \in Dirs |-> NoPack]
  /\ legacy = [n \in Names |-> NoPack]
\* What the registry without `dir` left: one row per name, of the last installed.
OldFolder ==
  /\ own = [d \in Dirs |-> NoPack]
  /\ \E n \in Names, v, w \in Vers : \E d, e \in Dirs :
       /\ dirs = [x \in Dirs |-> IF x = e THEN Content(n, w)
                                  ELSE IF x = d THEN Content(n, v) ELSE NoPack]
       /\ legacy = [m \in Names |-> IF m = n THEN OldRow(Content(n, w), e) ELSE NoPack]
\* What the collision of folder names left: a pack that was displaced from a
\* directory, and installed into it once it was free.
Displaced ==
  /\ legacy = [n \in Names |-> NoPack]
  /\ \E n \in Names, v \in Vers : \E f \in Dirs \ {Head(Fallbacks[n])} :
       /\ dirs = [d \in Dirs |-> IF d \in {f, Head(Fallbacks[n])} THEN Content(n, v) ELSE NoPack]
       /\ own = [d \in Dirs |-> IF dirs[d] = NoPack THEN NoPack ELSE OldRow(dirs[d], f)]

PackInit ==
  /\ Fresh \/ OldFolder \/ Displaced
  /\ job = [p \in Installers |-> NoJob]
  /\ intact = {d \in Dirs : own[d] # NoPack}
  /\ placed = [d \in Dirs |-> IF dirs[d] = NoPack THEN NoPack ELSE HashOf(dirs[d])]
  /\ jobs = 0 /\ edits = 0 /\ mishaps = 0

Touched(p) ==
  IF job[p].at \in {"idle", "write"} THEN {} ELSE {job[p].dir} \union job[p].copies
Quiet(d) == \A p \in Installers : d \notin Touched(p)
May(p, D) == job[p].at = "idle" /\ (Overlap \/ \A d \in D : Quiet(d))
Goes(p, l) == job' = [job EXCEPT ![p].at = l]
Ends(p) == job' = [job EXCEPT ![p] = NoJob]
\* What is left of an install: the stale copies, then the source.
GoesOn(p, copies) ==
  job' = [job EXCEPT ![p] =
    IF copies # {} THEN [job[p] EXCEPT !.at = "copies", !.copies = copies]
    ELSE [job[p] EXCEPT !.at = "source", !.copies = {}]]

----------------------------------------------------------------------------
(* _installPackDir *)

\* The directory is chosen and the copy staged; nothing is seen of it yet.
StartInstall(p) ==
  /\ jobs < MaxJobs /\ jobs' = jobs + 1
  /\ \E f \in Dirs, n \in Names, v \in Vers :
       \E d \in Picked(f, n) :
         /\ May(p, {d} \union StaleCopies(d, n))
         /\ job' = [job EXCEPT ![p] = [NoJob EXCEPT !.at = "swap", !.dir = d, !.name = n,
                      !.pack = Content(n, v), !.asked = f, !.copies = StaleCopies(d, n)]]
  /\ UNCHANGED <<dirs, registry, placed, intact, edits, mishaps>>

\* What is in the directory is moved aside ...
MoveAside(p) ==
  LET d == job[p].dir IN
  /\ job[p].at = "swap"
  /\ job' = [job EXCEPT ![p].at = "place", ![p].aside = dirs[d]]
  /\ dirs' = [dirs EXCEPT ![d] = NoPack]
  /\ UNCHANGED <<registry, placed, intact, bounds>>

\* ... and the staged copy takes its place, unless somebody else's is there by now.
Place(p) ==
  LET d == job[p].dir IN
  /\ job[p].at = "place"
  /\ IF dirs[d] = NoPack
       THEN /\ dirs' = [dirs EXCEPT ![d] = job[p].pack]
            /\ placed' = [placed EXCEPT ![d] = HashOf(job[p].pack)]
            /\ job' = [job EXCEPT ![p].at = "record", ![p].aside = NoPack]
       ELSE Ends(p) /\ UNCHANGED <<dirs, placed>>
  /\ UNCHANGED <<registry, intact, bounds>>

\* The rename fails: the previous install is put back.
PlaceFails(p) ==
  LET d == job[p].dir IN
  /\ job[p].at = "place" /\ mishaps < MaxMishaps
  /\ mishaps' = mishaps + 1
  /\ dirs' = IF dirs[d] = NoPack THEN [dirs EXCEPT ![d] = job[p].aside] ELSE dirs
  /\ Ends(p)
  /\ UNCHANGED <<registry, placed, intact, jobs, edits>>

\* The row is written.
Record(p) ==
  LET d == job[p].dir IN
  /\ job[p].at = "record"
  /\ AddRow(d, job[p].name, NewRow(job[p].pack, job[p].asked))
  /\ intact' = intact \union {d}
  /\ GoesOn(p, job[p].copies)
  /\ UNCHANGED <<dirs, placed, bounds>>

\* A stale copy is moved aside, if it is still there ...
DropCopy(p) ==
  /\ job[p].at = "copies"
  /\ \E c \in job[p].copies :
       IF dirs[c] = NoPack
         THEN GoesOn(p, job[p].copies \ {c}) /\ UNCHANGED <<dirs, intact>>
         ELSE /\ job' = [job EXCEPT ![p].at = "copyRow", ![p].copy = c]
              /\ dirs' = [dirs EXCEPT ![c] = NoPack]
              /\ intact' = intact \ {c}
  /\ UNCHANGED <<registry, placed, bounds>>

\* ... and its row removed.
DropCopyRow(p) ==
  LET c == job[p].copy IN
  /\ job[p].at = "copyRow"
  /\ RemoveRow(c, job[p].name)
  /\ GoesOn(p, job[p].copies \ {c})
  /\ UNCHANGED <<dirs, placed, intact, bounds>>

\* setRegistrySource, for a pack from a URL: the URL for the folder it was unpacked to.
SetSource(p) ==
  LET d == job[p].dir IN
  /\ job[p].at = "source"
  /\ \E url \in BOOLEAN :
       own' = IF url /\ own[d] # NoPack THEN [own EXCEPT ![d].asked = NoPack] ELSE own
  /\ Ends(p)
  /\ UNCHANGED <<dirs, legacy, placed, intact, bounds>>

----------------------------------------------------------------------------
(* uninstallPack *)

\* The manifest name, or the name of the directory when it cannot be read.
NameAt(d) ==
  IF dirs[d].readable THEN dirs[d].name
  ELSE IF \E n \in Names : Head(Fallbacks[n]) = d THEN CHOOSE n \in Names : Head(Fallbacks[n]) = d
  ELSE NoPack

StartUninstall(p) ==
  /\ jobs < MaxJobs /\ jobs' = jobs + 1
  /\ \E d \in Dirs :
       /\ dirs[d] # NoPack /\ May(p, {d})
       /\ job' = [job EXCEPT ![p] = [NoJob EXCEPT !.at = "unrow", !.dir = d, !.name = NameAt(d)]]
  /\ UNCHANGED <<dirs, registry, placed, intact, edits, mishaps>>

Unrow(p) ==
  LET d == job[p].dir IN
  /\ job[p].at = "unrow"
  /\ RemoveRow(d, job[p].name)
  /\ intact' = intact \ {d}
  /\ Goes(p, "remove")
  /\ UNCHANGED <<dirs, placed, bounds>>

Remove(p) ==
  /\ job[p].at = "remove"
  /\ dirs' = [dirs EXCEPT ![job[p].dir] = NoPack]
  /\ Ends(p)
  /\ UNCHANGED <<registry, placed, intact, bounds>>

----------------------------------------------------------------------------
(* migratePackIntegrity *)

\* A pack that still matches its v1 row gets the v2 hash of what was read: carried
\* forward when the source is gone, else only if the source installs to the same.
Migrates(d, gone) ==
  LET n == dirs[d].name row == RowFor(d, n)
  IN /\ dirs[d] # NoPack /\ dirs[d].readable
     /\ row # NoPack /\ ~Ambiguous(d, n) /\ ~row.v2 /\ Matches(row, dirs[d])
     /\ gone \/ HashOf(dirs[d]) = placed[d]

PlanMigration(p) ==
  /\ job[p].at = "idle" /\ jobs < MaxJobs /\ jobs' = jobs + 1
  /\ \E gone \in [Dirs -> BOOLEAN] :
       LET D == {d \in Dirs : dirs[d] # NoPack /\ Migrates(d, gone[d])}
       IN /\ D # {}
          /\ job' = [job EXCEPT ![p] = [NoJob EXCEPT !.at = "write",
               !.plan = {[dir |-> d, to |-> HashOf(dirs[d]), carried |-> gone[d]] : d \in D}]]
  /\ UNCHANGED <<dirs, registry, placed, intact, edits, mishaps>>

Rebased(row, s) == [row EXCEPT !.hash = s.to, !.v2 = TRUE, !.carried = s.carried]
\* Mutant: the row is rewritten whatever has become of it.
UnmovedAny(row, s) == row # NoPack

\* The row is still the one that was planned from.
Unmoved(row, s) == row # NoPack /\ ~row.v2 /\ SameV1(row.hash, s.to)

WriteMigration(p) ==
  LET S == job[p].plan
      ForDir(d) == {s \in S : s.dir = d /\ Unmoved(own[d], s)}
      ForName(n) == {s \in S : own[s.dir] = NoPack /\ s.to.name = n /\ Unmoved(legacy[n], s)}
  IN /\ job[p].at = "write"
     /\ own' = [d \in Dirs |->
          IF ForDir(d) = {} THEN own[d] ELSE Rebased(own[d], CHOOSE s \in ForDir(d) : TRUE)]
     /\ legacy' = [n \in Names |->
          IF ForName(n) = {} THEN legacy[n] ELSE Rebased(legacy[n], CHOOSE s \in ForName(n) : TRUE)]
     /\ Ends(p)
     /\ UNCHANGED <<dirs, placed, intact, bounds>>

----------------------------------------------------------------------------
(* Users and crashes *)

\* A pack is changed by hand: another version, bytes moved, a manifest damaged.
EditPack(d) ==
  /\ dirs[d] # NoPack /\ edits < MaxEdits
  /\ edits' = edits + 1
  /\ \/ \E v \in Vers \ {dirs[d].ver} : dirs' = [dirs EXCEPT ![d].ver = v]
     \/ ~dirs[d].moved /\ dirs' = [dirs EXCEPT ![d].moved = TRUE]
     \/ dirs[d].readable /\ dirs' = [dirs EXCEPT ![d].readable = FALSE]
  /\ UNCHANGED <<registry, job, placed, intact, jobs, mishaps>>

\* What was moved aside stays there, under a name that no reader looks at.
PackDies(p) ==
  /\ job[p].at # "idle" /\ mishaps < MaxMishaps
  /\ mishaps' = mishaps + 1
  /\ intact' = IF job[p].at \in {"place", "record"} THEN intact \ {job[p].dir} ELSE intact
  /\ Ends(p)
  /\ UNCHANGED <<dirs, registry, placed, jobs, edits>>

PackNext ==
  \/ \E p \in Installers :
       \/ StartInstall(p) \/ MoveAside(p) \/ Place(p) \/ PlaceFails(p) \/ Record(p)
       \/ DropCopy(p) \/ DropCopyRow(p) \/ SetSource(p)
       \/ StartUninstall(p) \/ Unrow(p) \/ Remove(p)
       \/ PlanMigration(p) \/ WriteMigration(p) \/ PackDies(p)
  \/ \E d \in Dirs : EditPack(d)

PackSpec == PackInit /\ [][PackNext]_packVars

----------------------------------------------------------------------------
(* Properties *)

\* Whatever happened in other directories, to rows of the same name or in a
\* migration that was under way, a pack whose install was completed has a row, and
\* the row's hash is of what that install put there, as far as its format can tell.
BaselineStands == \A d \in intact : Quiet(d) =>
  /\ own[d] # NoPack /\ SameV1(own[d].hash, placed[d])
  /\ own[d].v2 /\ ~own[d].carried => own[d].hash = placed[d]

\* An install removes no readable pack of another name, neither from the directory it
\* was given nor among the stale copies it clears.
NeighboursStay ==
  [][\A p \in Installers, d \in Dirs :
       (MoveAside(p) \/ DropCopy(p)) /\ dirs[d] # NoPack /\ dirs'[d] = NoPack /\ dirs[d].readable
         => dirs[d].name = job[p].name]_packVars

\* While nobody is at work, an untouched pack is not reported as modified: a row that
\* may be its neighbour's is not its baseline.
UntouchedIsNotModified ==
  (\A p \in Installers : job[p] = NoJob) =>
    \A d \in Dirs : dirs[d] # NoPack /\ HashOf(dirs[d]) = placed[d] => Verdict(d) # "modified"
=============================================================================
