---------------------------- MODULE HistoryProofs ----------------------------
(***************************************************************************)
(* The history log, for any number of processes, months, events and deaths. *)
(***************************************************************************)
EXTENDS HistoryChain, WellFoundedInduction, TLAPS

Heads == [id : Nat, file : Months, size : Nat]
Inside == {"drop", "truncate", "find", "write", "record", "unlock"}
Bare == {"gapWrite", "gapDone"}
Unwritten == {"lock", "drop", "truncate", "find", "write", "gapWrite"}

HistoryTypes ==
  /\ log \in [Months -> Seq(Line) \union {NoFile}] /\ now \in Months
  /\ holder \in Procs \union {None} /\ pc \in [Procs -> {"idle", "lock"} \union Inside \union Bare]
  /\ batch \in [Procs -> Seq(Nat)] /\ stamp \in [Procs -> Months] /\ file \in [Procs -> Months]
  /\ fresh \in [Procs -> BOOLEAN] /\ keep \in [Procs -> Nat] /\ prev \in [Procs -> Nat]
  /\ mem \in [Procs -> Heads \union {NoHead}] /\ side \in Heads \union {NoHead}
  /\ begun \in Nat /\ done \in SUBSET Nat /\ torn \in BOOLEAN /\ hollow \in BOOLEAN
  /\ bare \in Nat /\ crashes \in Nat

\* One process is inside, an append has events, and no file is of a month to come.
Locking ==
  /\ \A p \in Procs : pc[p] \in Inside => holder = p
  /\ \A p \in Procs : pc[p] # "idle" => Len(batch[p]) >= 1
  /\ \A p \in Procs : pc[p] \in Bare => Len(batch[p]) <= bare
  /\ \A p \in Procs : stamp[p] <= now /\ file[p] <= now
  /\ \A m \in Months : log[m] # NoFile => m <= now
  /\ \A p \in Procs : pc[p] = "truncate" => keep[p] < Size(file[p])

\* The event in line i of month m, and the order of two.
Ev(m, i) == m \in Months /\ i \in 1..Size(m) /\ log[m][i].kind = "event"
Later(n, j, m, i) == m < n \/ (m = n /\ i < j)

\* No event is in two appends, in two places, or in the log before it is written.
Unique ==
  /\ \A p \in Procs : \A i \in 1..Len(batch[p]) :
       /\ batch[p][i] \in 1..begun
       /\ \A q \in Procs : \A j \in 1..Len(batch[q]) : batch[p][i] = batch[q][j] => p = q /\ i = j
  /\ \A m \in Months : \A i \in 1..Size(m) : Ev(m, i) => log[m][i].id \in 1..begun
  /\ \A m, n \in Months : \A i \in 1..Size(m), j \in 1..Size(n) :
       Ev(m, i) /\ Ev(n, j) /\ log[m][i].id = log[n][j].id => m = n /\ i = j
  /\ \A p \in Procs : pc[p] \in Unwritten =>
       \A k \in 1..Len(batch[p]) : \A m \in Months : \A i \in 1..Size(m) : Ev(m, i) => log[m][i].id # batch[p][k]

\* Every line is whole, but for the last of a file whose writer died in it.
Clean ==
  \A m \in Months : \A i \in 1..Size(m) :
    log[m][i].kind # "event" => log[m][i].kind = "torn" /\ torn /\ i = Size(m)

\* What the holder of the lock knows of the file it appends to.
Placed(p) ==
  /\ pc[p] \in {"find", "write"} => ~EndsMidLine(file[p])
  /\ pc[p] = "truncate" => torn /\ EndsMidLine(file[p]) /\ keep[p] = Size(file[p]) - 1
  /\ pc[p] \in {"drop", "truncate", "find", "write"} => \A n \in Months : n > file[p] => Size(n) = 0

\* An event with nothing but declared gaps after it.
Leads(m, i) ==
  Ev(m, i) /\ \A n \in Months : \A j \in 1..Size(n) : Ev(n, j) /\ Later(n, j, m, i) => log[n][j].prev = Null

\* A remembered head was the last of its file but for gaps, when the file had the size it names.
HeadOK(h) ==
  /\ h.size \in 1..Size(h.file) /\ Ev(h.file, h.size)
  /\ \E i \in 1..h.size :
       /\ Ev(h.file, i) /\ log[h.file][i].id = h.id
       /\ \A j \in 1..h.size : i < j /\ Ev(h.file, j) => log[h.file][j].prev = Null

Remembered(p) ==
  /\ mem[p] # NoHead => HeadOK(mem[p])
  /\ pc[p] = "record" /\ Len(batch[p]) = 1 =>
       HeadOK([id |-> batch[p][1], file |-> file[p], size |-> Size(file[p])])

\* A predecessor that was found leads the log until the append.
Found(p) ==
  pc[p] = "write" /\ prev[p] # Null => \E m \in Months : \E i \in 1..Size(m) : Leads(m, i) /\ log[m][i].id = prev[p]

\* An event and the one it names, with nothing but declared gaps in between.
Follows(m, i, n, j) ==
  /\ Ev(n, j) /\ Later(m, i, n, j) /\ log[n][j].id = log[m][i].prev
  /\ \A k \in Months : \A l \in 1..Size(k) :
       Ev(k, l) /\ Later(k, l, n, j) /\ Later(m, i, k, l) => log[k][l].prev = Null
Chain ==
  \A m \in Months : \A i \in 1..Size(m) : Ev(m, i) /\ log[m][i].prev # Null =>
    \E n \in Months : \E j \in 1..Size(n) : Follows(m, i, n, j)

Logged(e) == \E m \in Months : \E i \in 1..Size(m) : Ev(m, i) /\ log[m][i].id = e
Landed(p) ==
  pc[p] \in {"record", "unlock", "gapDone"} => \A k \in 1..Len(batch[p]) : Logged(batch[p][k])

Knows(p) == Placed(p) /\ Remembered(p) /\ Found(p) /\ Landed(p)
CoveredLog ==
  /\ Clean /\ Chain /\ (side # NoHead => HeadOK(side)) /\ (\A e \in done : Logged(e))
  /\ \A p \in Procs : Knows(p)
CoveredInv == Covered => CoveredLog

\* With the lock, only the first event of all has no predecessor.
Strict == ~torn /\ bare = 0 /\ (hollow => now < 3)
StrictInv ==
  /\ ~torn /\ bare = 0 => \A m \in Months : log[m] = <<>> => hollow
  /\ Strict =>
       /\ \A m \in Months : \A i \in 1..Size(m) : Ev(m, i) /\ log[m][i].prev = Null =>
            \A n \in Months : \A j \in 1..Size(n) : Ev(n, j) => ~Later(m, i, n, j)
       /\ \A p \in Procs : pc[p] = "write" /\ prev[p] = Null =>
            \A n \in Months : \A j \in 1..Size(n) : ~Ev(n, j)

----------------------------------------------------------------------------
(* Lines *)

\* What the types say of a file.
LEMMA LinesTyped ==
  ASSUME HistoryTypes, NEW m \in Months
  PROVE  /\ Lines(log, m) \in Seq(Line) /\ Size(m) \in Nat /\ Size(m) = Len(Lines(log, m))
         /\ log[m] = NoFile => Size(m) = 0
         /\ log[m] # NoFile => Lines(log, m) = log[m] /\ log[m] \in Seq(Line)
         /\ \A i \in 1..Size(m) : log[m][i] \in Line /\ log[m][i] = Lines(log, m)[i]
<1>1. log[m] \in Seq(Line) \union {NoFile}
  BY DEF HistoryTypes
<1>2. CASE log[m] = NoFile
  <2>1. Lines(log, m) = <<>>
    BY <1>2 DEF Lines
  <2> QED
    BY <1>2, <2>1 DEF Size
<1>3. CASE log[m] # NoFile
  <2>1. Lines(log, m) = log[m] /\ log[m] \in Seq(Line)
    BY <1>1, <1>3 DEF Lines
  <2>2. Size(m) = Len(log[m]) /\ Size(m) \in Nat
    BY <2>1 DEF Size
  <2> QED
    BY <1>3, <2>1, <2>2
<1> QED
  BY <1>2, <1>3

\* A set of ids has a least one.
LEMMA Least ==
  ASSUME NEW T \in SUBSET Nat, T # {}
  PROVE  \E x \in T : \A y \in T : x <= y
<1> DEFINE R == OpToRel(<, Nat)
<1>1. IsWellFoundedOn(R, Nat)
  BY NatLessThanWellFounded
<1>2. \A x, y \in Nat : <<y, x>> \notin R => ~(y < x)
  BY DEF OpToRel
<1> HIDE DEF R
<1>3. \E x \in T : \A y \in T : ~(<<y, x>> \in R)
  BY <1>1, WFMin
<1>4. PICK x \in T : \A y \in T : ~(<<y, x>> \in R)
  BY <1>3
<1>5. \A y \in T : x \in Nat /\ y \in Nat /\ ~(y < x)
  BY <1>2, <1>4
<1>6. \A y \in T : x <= y
  BY <1>5
<1> QED
  BY <1>6

\* Of some months one is the newest.
LEMMA Newest ==
  ASSUME NEW S \in SUBSET Months, S # {}
  PROVE  \E m \in S : \A n \in S : n <= m
<1>0. MaxMonth \in Nat /\ \A n \in S : n \in Nat /\ 1 <= n /\ n <= MaxMonth
  BY HistoryAssumption DEF Months
<1> DEFINE T == {MaxMonth - n : n \in S}
<1>1. T \in SUBSET Nat
  BY <1>0
<1>2. T # {}
  OBVIOUS
<1>3. PICK x \in T : \A y \in T : x <= y
  BY <1>1, <1>2, Least
<1>4. PICK m \in S : x = MaxMonth - m
  OBVIOUS
<1>5. \A n \in S : MaxMonth - m <= MaxMonth - n
  BY <1>3, <1>4
<1>6. \A n \in S : n <= m
  BY <1>0, <1>5
<1> QED
  BY <1>6

\* An append goes to a month that has begun and that no later one with events follows.
LEMMA TargetIs ==
  ASSUME HistoryTypes, Locking, NEW s \in Months, s <= now
  PROVE  /\ TargetMonthFile(s) \in Months /\ TargetMonthFile(s) <= now
         /\ \A n \in Months : n > TargetMonthFile(s) => Size(n) = 0
<1> DEFINE later == {m \in Months : s <= m /\ m <= now /\ (m = s \/ Size(m) > 0)}
           t == TargetMonthFile(s)
<1>0. \A m \in Months : m \in Nat
  BY DEF Months
<1>1. s \in later /\ later \in SUBSET Months
  BY <1>0
<1>2. \E m \in later : \A n \in later : n <= m
  BY <1>1, Newest
<1>3. t \in later /\ \A n \in later : n <= t
  BY <1>2 DEF TargetMonthFile
<1>4. ASSUME NEW n \in Months, n > t PROVE Size(n) = 0
  <2>1. n \notin later
    BY <1>0, <1>1, <1>3, <1>4
  <2>2. t \in Nat /\ s <= t /\ t <= now /\ now \in Nat
    BY <1>0, <1>1, <1>3 DEF HistoryTypes
  <2> HIDE DEF t
  <2>3. s <= n /\ n \in Nat /\ s \in Nat
    BY <1>0, <1>4, <2>2
  <2>4. CASE n <= now
    <3>1. ~(Size(n) > 0)
      BY <2>1, <2>3, <2>4
    <3> QED
      BY <3>1, LinesTyped
  <2>5. CASE ~(n <= now)
    BY <2>5, LinesTyped DEF Locking
  <2> QED
    BY <2>4, <2>5
<1> QED
  BY <1>1, <1>3, <1>4

\* The lines of an append.
LEMMA ChainedIs ==
  ASSUME NEW b \in Seq(Nat), NEW x \in Nat
  PROVE  /\ Chained(b, x) \in Seq(Line) /\ Len(Chained(b, x)) = Len(b)
         /\ \A i \in 1..Len(b) : /\ Chained(b, x)[i].kind = "event" /\ Chained(b, x)[i].id = b[i]
                                  /\ Chained(b, x)[i].prev = IF i = 1 THEN x ELSE b[i - 1]
<1> DEFINE f == [i \in 1..Len(b) |-> Event(b[i], IF i = 1 THEN x ELSE b[i - 1])]
<1>1. Chained(b, x) = f
  BY DEF Chained
<1>2. \A i \in 1..Len(b) : b[i] \in Nat /\ (IF i = 1 THEN x ELSE b[i - 1]) \in Nat
  OBVIOUS
<1>3. \A i \in 1..Len(b) : f[i] \in Line /\ f[i].kind = "event" /\ f[i].id = b[i]
                           /\ f[i].prev = IF i = 1 THEN x ELSE b[i - 1]
  BY <1>2 DEF Event, Line
<1>4. Len(b) \in Nat /\ DOMAIN f = 1..Len(b)
  OBVIOUS
<1>5. f \in [1..Len(b) -> Line]
  BY <1>3
<1> HIDE DEF f
<1>6. f \in Seq(Line) /\ Len(f) = Len(b)
  BY <1>4, <1>5
<1> QED
  BY <1>1, <1>3, <1>6

\* Two pieces of a file.
LEMMA JoinIs ==
  ASSUME NEW a \in Seq(Line), NEW b \in Seq(Line)
  PROVE  /\ a \o b \in Seq(Line) /\ Len(a \o b) = Len(a) + Len(b) /\ Len(a) \in Nat /\ Len(b) \in Nat
         /\ \A i \in 1..Len(a) : (a \o b)[i] = a[i]
         /\ \A i \in 1..Len(a \o b) : i \notin 1..Len(a) => i - Len(a) \in 1..Len(b) /\ (a \o b)[i] = b[i - Len(a)]
         /\ \A k \in 1..Len(b) : (a \o b)[Len(a) + k] = b[k]
<1>1. a \o b \in Seq(Line) /\ Len(a \o b) = Len(a) + Len(b) /\ Len(a) \in Nat /\ Len(b) \in Nat
  OBVIOUS
<1>2. \A i \in 1..Len(a) : (a \o b)[i] = a[i]
  OBVIOUS
<1>3. \A i \in 1..Len(a \o b) : i \notin 1..Len(a) => i - Len(a) \in 1..Len(b) /\ (a \o b)[i] = b[i - Len(a)]
  BY <1>1
<1>4. \A k \in 1..Len(b) : (a \o b)[Len(a) + k] = b[k]
  OBVIOUS
<1> QED
  BY <1>1, <1>2, <1>3, <1>4

\* An event of the file r is that of the same line of `old`, or that of the line d above of ls.
Grew(r, old, ls, d) ==
  \A i \in 1..Len(r) : r[i].kind = "event" =>
    \/ i \in 1..Len(old) /\ r[i] = old[i]
    \/ i - d \in 1..Len(ls) /\ r[i] = ls[i - d]

\* An append keeps the whole lines there are, and adds its own at the end, all of them or,
\* glued to a fragment, all but the first.
LEMMA AppendedIs ==
  ASSUME HistoryTypes, NEW m \in Months, NEW newline \in BOOLEAN, NEW ls \in Seq(Line)
  PROVE  /\ Appended(m, newline, ls) \in Seq(Line) /\ Len(Appended(m, newline, ls)) >= Size(m)
         /\ \E d \in Nat : Grew(Appended(m, newline, ls), Lines(log, m), ls, d)
<1> DEFINE r == Appended(m, newline, ls)
           old == Lines(log, m)
<1>1. /\ old \in Seq(Line) /\ Size(m) \in Nat /\ Size(m) = Len(old)
      /\ \A i \in 1..Size(m) : log[m][i] = old[i]
  BY LinesTyped
<1> SUFFICES r \in Seq(Line) /\ Len(r) >= Size(m) /\ \E d \in Nat : Grew(r, old, ls, d)
  OBVIOUS
<1>2. CASE ls = <<>>
  <2>1. r = old
    BY <1>2 DEF Appended
  <2> HIDE DEF r, old
  <2>2. Grew(r, old, ls, 0)
    BY <2>1 DEF Grew
  <2> QED
    BY <1>1, <2>1, <2>2
<1>3. CASE ls # <<>> /\ ~EndsMidLine(m)
  <2>1. r = old \o ls
    BY <1>3 DEF Appended
  <2> HIDE DEF r, old
  <2>2. r \in Seq(Line) /\ Len(r) >= Size(m)
    BY <1>1, <2>1, JoinIs
  <2>3. Grew(r, old, ls, Len(old))
    BY <1>1, <2>1, JoinIs DEF Grew
  <2> QED
    BY <1>1, <2>2, <2>3
<1>4. CASE ls # <<>> /\ EndsMidLine(m)
  <2> DEFINE k == Size(m) - 1
             whole == SubSeq(log[m], 1, k)
             x == IF ls[1] = Torn THEN Torn ELSE Bad
  <2>1. Size(m) > 0 /\ k \in Nat /\ log[m] \in Seq(Line) /\ Len(log[m]) = Size(m)
    BY <1>1, <1>4, LinesTyped DEF EndsMidLine
  <2>2. whole \in Seq(Line) /\ Len(whole) = k /\ \A i \in 1..k : whole[i] = log[m][i]
    BY <1>1, <2>1
  <2>3. Bad \in Line /\ x \in Line /\ Bad.kind # "event" /\ x.kind # "event"
    BY DEF Bad, Torn, Line, Null
  <2>4. ASSUME NEW y \in Line, y.kind # "event", NEW rest \in Seq(Line), r = (whole \o <<y>>) \o rest
        PROVE  /\ r \in Seq(Line) /\ Len(r) = k + 1 + Len(rest) /\ Len(rest) \in Nat
               /\ \A i \in 1..Len(r) : r[i].kind = "event" =>
                    \/ i \in 1..k /\ r[i] = log[m][i]
                    \/ i - (k + 1) \in 1..Len(rest) /\ r[i] = rest[i - (k + 1)]
    <3> HIDE DEF r, whole, k
    <3> DEFINE front == whole \o <<y>>
    <3>1. <<y>> \in Seq(Line) /\ Len(<<y>>) = 1 /\ <<y>>[1] = y
      BY <2>4
    <3>2. front \in Seq(Line) /\ Len(front) = k + 1
      BY <2>2, <3>1, JoinIs
    <3>3. \A i \in 1..k : front[i] = log[m][i]
      BY <2>2, <3>1, JoinIs
    <3>4. front[k + 1] = y
      <4>1. 1 \in 1..Len(<<y>>)
        BY <3>1
      <4> QED
        BY <2>2, <3>1, <4>1, JoinIs
    <3> HIDE DEF front
    <3>5. r = front \o rest
      BY <2>4 DEF front
    <3>6. r \in Seq(Line) /\ Len(r) = k + 1 + Len(rest) /\ Len(rest) \in Nat
      <4>1. r \in Seq(Line) /\ Len(r) = Len(front) + Len(rest) /\ Len(rest) \in Nat
        BY <3>2, <3>5, JoinIs
      <4> QED
        BY <3>2, <4>1
    <3>7. ASSUME NEW i \in 1..Len(r), r[i].kind = "event", i \in 1..(k + 1) PROVE i \in 1..k /\ r[i] = log[m][i]
      <4>1. r[i] = front[i]
        BY <3>2, <3>5, <3>7, JoinIs
      <4>2. i # k + 1
        BY <2>4, <3>4, <3>7, <4>1
      <4>3. i \in 1..k
        BY <2>1, <3>7, <4>2
      <4> QED
        BY <3>3, <4>1, <4>3
    <3>8. ASSUME NEW i \in 1..Len(r), i \notin 1..(k + 1)
          PROVE  i - (k + 1) \in 1..Len(rest) /\ r[i] = rest[i - (k + 1)]
      BY <3>2, <3>5, <3>8, JoinIs
    <3> QED
      BY <3>6, <3>7, <3>8
  <2>5. CASE newline
    <3>1. r = (whole \o <<Bad>>) \o ls
      BY <1>4, <2>5 DEF Appended
    <3>2. /\ r \in Seq(Line) /\ Len(r) = k + 1 + Len(ls) /\ Len(ls) \in Nat
          /\ \A i \in 1..Len(r) : r[i].kind = "event" =>
               \/ i \in 1..k /\ r[i] = log[m][i]
               \/ i - (k + 1) \in 1..Len(ls) /\ r[i] = ls[i - (k + 1)]
      BY <2>3, <2>4, <3>1
    <3> HIDE DEF r, old
    <3>3. Grew(r, old, ls, k + 1)
      BY <1>1, <2>1, <3>2, SMTT(30) DEF Grew
    <3> QED
      BY <1>1, <2>1, <3>2, <3>3
  <2>6. CASE ~newline
    <3> DEFINE rest == Tail(ls)
    <3>1. r = (whole \o <<x>>) \o rest
      BY <1>4, <2>6 DEF Appended
    <3>2. rest \in Seq(Line) /\ Len(ls) \in Nat /\ Len(ls) >= 1 /\ Len(rest) = Len(ls) - 1
          /\ \A i \in 1..Len(rest) : rest[i] = ls[i + 1]
      BY <1>4
    <3>3. /\ r \in Seq(Line) /\ Len(r) = k + 1 + Len(rest) /\ Len(rest) \in Nat
          /\ \A i \in 1..Len(r) : r[i].kind = "event" =>
               \/ i \in 1..k /\ r[i] = log[m][i]
               \/ i - (k + 1) \in 1..Len(rest) /\ r[i] = rest[i - (k + 1)]
      BY <2>3, <2>4, <3>1, <3>2
    <3> HIDE DEF r, old, rest, x
    <3>4. ASSUME NEW i \in 1..Len(r), i - (k + 1) \in 1..Len(rest)
          PROVE  i - k \in 1..Len(ls) /\ rest[i - (k + 1)] = ls[i - k]
      <4>1. i - (k + 1) + 1 = i - k /\ i - k \in 1..Len(ls)
        BY <2>1, <3>2, <3>4
      <4> QED
        BY <3>2, <3>4, <4>1
    <3>5. \A i \in 1..k : i \in 1..Len(old) /\ log[m][i] = old[i]
      BY <1>1, <2>1
    <3>6. Grew(r, old, ls, k)
      BY <3>3, <3>4, <3>5 DEF Grew
    <3> QED
      BY <1>1, <2>1, <3>2, <3>3, <3>6
  <2> QED
    BY <2>5, <2>6
<1> QED
  BY <1>2, <1>3, <1>4

\* What a file is after a clean append.
LEMMA Grown ==
  ASSUME HistoryTypes, NEW m \in Months, NEW newline \in BOOLEAN, NEW ls \in Seq(Line), ~EndsMidLine(m),
         log' = [log EXCEPT ![m] = Appended(m, newline, ls)]
  PROVE  /\ Size(m)' = Size(m) + Len(ls)
         /\ \A i \in 1..Size(m) : log'[m][i] = log[m][i]
         /\ \A k \in 1..Len(ls) : log'[m][Size(m) + k] = ls[k]
         /\ \A n \in Months \ {m} : log'[n] = log[n] /\ Size(n)' = Size(n)
<1> DEFINE old == Lines(log, m)
           r == old \o ls
<1>1. /\ old \in Seq(Line) /\ Size(m) \in Nat /\ Size(m) = Len(old)
      /\ \A i \in 1..Size(m) : log[m][i] = old[i]
  BY LinesTyped
<1>2. Appended(m, newline, ls) = r
  <2>1. CASE ls = <<>>
    BY <1>1, <2>1 DEF Appended
  <2>2. CASE ls # <<>>
    BY <2>2 DEF Appended
  <2> QED
    BY <2>1, <2>2
<1> HIDE DEF old
<1>3. r \in Seq(Line) /\ Len(r) = Size(m) + Len(ls) /\ (\A i \in 1..Size(m) : r[i] = old[i])
      /\ \A k \in 1..Len(ls) : r[Size(m) + k] = ls[k]
  BY <1>1
<1> HIDE DEF r
<1>4. log'[m] = r /\ \A n \in Months \ {m} : log'[n] = log[n]
  BY <1>2 DEF HistoryTypes
<1>5. r # NoFile
  BY <1>3, FileAssumption
<1>6. Size(m)' = Len(r)
  BY <1>4, <1>5 DEF Size, Lines
<1>7. \A n \in Months \ {m} : Size(n)' = Size(n)
  BY <1>4 DEF Size, Lines
<1> QED
  BY <1>1, <1>3, <1>4, <1>6, <1>7

\* What a file is after it is replaced.
LEMMA LogAfter ==
  ASSUME HistoryTypes, NEW m \in Months, NEW r \in Seq(Line), log' = [log EXCEPT ![m] = r]
  PROVE  /\ log' \in [Months -> Seq(Line) \union {NoFile}] /\ log'[m] = r /\ r # NoFile /\ Size(m)' = Len(r)
         /\ \A n \in Months \ {m} : log'[n] = log[n] /\ Size(n)' = Size(n)
<1>1. log' \in [Months -> Seq(Line) \union {NoFile}] /\ log'[m] = r /\ \A n \in Months \ {m} : log'[n] = log[n]
  BY DEF HistoryTypes
<1>2. r # NoFile
  BY FileAssumption
<1>3. Size(m)' = Len(r)
  BY <1>1, <1>2 DEF Size, Lines
<1>4. \A n \in Months \ {m} : Size(n)' = Size(n)
  BY <1>1 DEF Size, Lines
<1> QED
  BY <1>1, <1>2, <1>3, <1>4

\* The lines a writer leaves that dies in its append.
Cut(ls, n, part) == SubSeq(ls, 1, n) \o (IF part THEN <<Torn>> ELSE <<>>)
\* What a cut append is made of.
LEMMA CutIs ==
  ASSUME NEW ls \in Seq(Line), NEW n \in 0..(Len(ls) - 1), NEW part \in BOOLEAN
  PROVE  /\ Cut(ls, n, part) \in Seq(Line) /\ Len(Cut(ls, n, part)) = IF part THEN n + 1 ELSE n
         /\ \A i \in 1..n : i \in 1..Len(ls) /\ Cut(ls, n, part)[i] = ls[i]
         /\ part => Cut(ls, n, part)[n + 1] = Torn
<1> DEFINE a == SubSeq(ls, 1, n)
           b == IF part THEN <<Torn>> ELSE <<>>
<1>1. a \in Seq(Line) /\ Len(a) = n /\ n \in Nat /\ \A i \in 1..n : i \in 1..Len(ls) /\ a[i] = ls[i]
  OBVIOUS
<1>2. Torn \in Line
  BY DEF Torn, Line, Null
<1>3. b \in Seq(Line) /\ Len(b) = (IF part THEN 1 ELSE 0) /\ (part => b[1] = Torn)
  BY <1>2
<1>4. Cut(ls, n, part) = a \o b
  BY DEF Cut
<1> HIDE DEF a, b
<1>5. Cut(ls, n, part) \in Seq(Line) /\ Len(Cut(ls, n, part)) = n + Len(b) /\ \A i \in 1..n : Cut(ls, n, part)[i] = a[i]
  <2>1. a \o b \in Seq(Line) /\ Len(a \o b) = Len(a) + Len(b) /\ \A i \in 1..Len(a) : (a \o b)[i] = a[i]
    BY <1>1, <1>3, JoinIs
  <2> QED
    BY <1>1, <1>4, <2>1
<1>6. part => Cut(ls, n, part)[n + 1] = Torn
  <2>1. ASSUME part PROVE 1 \in 1..Len(b) /\ b[1] = Torn
    BY <1>3, <2>1
  <2>2. ASSUME part PROVE (a \o b)[Len(a) + 1] = b[1]
    BY <1>1, <1>3, <2>1, <2>2, JoinIs
  <2> QED
    BY <1>1, <1>4, <2>1, <2>2
<1> QED
  BY <1>1, <1>3, <1>5, <1>6

\* The predecessor is a remembered head's, or comes from the tail of a file.
LEMMA PredecessorIs ==
  ASSUME HistoryTypes, NEW p \in Procs, NEW m \in Months
  PROVE  \/ mem[p] \in Heads /\ Holds(mem[p], m) /\ Predecessor(p, m) = mem[p].id
         \/ side \in Heads /\ Holds(side, m) /\ Predecessor(p, m) = side.id
         \/ Size(m) > 0 /\ Predecessor(p, m) = TailHash(m)
         \/ Size(m) = 0 /\ (\A n \in Months \ {m} : log[n] = NoFile) /\ Predecessor(p, m) = Null
         \/ Size(m) = 0 /\ \E n \in Months \ {m} :
              /\ log[n] # NoFile /\ Predecessor(p, m) = TailHash(n)
              /\ \A o \in Months \ {m} : log[o] # NoFile => o <= n
<1> DEFINE others == {n \in Months \ {m} : log[n] # NoFile}
           newest == CHOOSE n \in others : \A o \in others : o <= n
<1>1. /\ Holds(mem[p], m) => mem[p] \in Heads
      /\ Holds(side, m) => side \in Heads
  BY DEF HistoryTypes, Holds
<1>2. Size(m) = 0 \/ Size(m) > 0
  BY LinesTyped
<1>3. Predecessor(p, m) = IF Holds(mem[p], m) THEN mem[p].id
                          ELSE IF Holds(side, m) THEN side.id
                          ELSE IF Size(m) > 0 THEN TailHash(m)
                          ELSE IF others = {} THEN Null
                          ELSE TailHash(newest)
  BY DEF Predecessor
<1>4. others # {} => newest \in others /\ \A o \in others : o <= newest
  BY Newest
<1> HIDE DEF newest
<1>5. CASE Holds(mem[p], m) \/ Holds(side, m)
  BY <1>1, <1>3, <1>5
<1>6. CASE ~Holds(mem[p], m) /\ ~Holds(side, m) /\ Size(m) > 0
  BY <1>3, <1>6
<1>7. CASE ~Holds(mem[p], m) /\ ~Holds(side, m) /\ ~(Size(m) > 0) /\ others = {}
  BY <1>2, <1>3, <1>7
<1>8. CASE ~Holds(mem[p], m) /\ ~Holds(side, m) /\ ~(Size(m) > 0) /\ others # {}
  BY <1>2, <1>3, <1>4, <1>8
<1> QED
  BY <1>5, <1>6, <1>7, <1>8

\* It is an id, or Null.
LEMMA PredecessorTyped ==
  ASSUME HistoryTypes, NEW p \in Procs, NEW m \in Months
  PROVE  Predecessor(p, m) \in Nat
<1>1. \A n \in Months : TailHash(n) \in Nat
  <2> TAKE n \in Months
  <2>1. Null \in Nat
    BY DEF Null
  <2>2. Size(n) # 0 => log[n][Size(n)] \in Line
    BY LinesTyped
  <2> QED
    BY <2>1, <2>2 DEF TailHash, Line
<1>2. Null \in Nat
  BY DEF Null
<1> QED
  BY <1>1, <1>2, PredecessorIs DEF Heads

\* What an append, whole or cut short by the death of its writer, adds to its file.
Links(p) == IF pc[p] = "write" THEN prev[p] ELSE Null
Adds(p, newline, ls) ==
  /\ newline \in BOOLEAN /\ ls \in Seq(Line) /\ Len(ls) <= Len(batch[p])
  /\ log' = [log EXCEPT ![file[p]] = Appended(file[p], newline, ls)]
  /\ \A k \in 1..Len(ls) :
       \/ /\ ls[k].kind = "event" /\ ls[k].id = batch[p][k]
          /\ ls[k].prev = IF k = 1 THEN Links(p) ELSE batch[p][k - 1]
       \/ ls[k].kind = "torn" /\ k = Len(ls) /\ torn'
  /\ ls = <<>> => hollow'

\* Every append, whole or cut, adds lines of its batch to its file, and leaves none empty but a hollow one.
LEMMA AddsIs ==
  ASSUME HistoryTypes, Locking, NEW p \in Procs, Write(p) \/ GapWrite(p) \/ CrashInWrite(p)
  PROVE  /\ pc[p] \in {"write", "gapWrite"} /\ file[p] \in Months /\ batch[p] \in Seq(Nat) /\ Links(p) \in Nat
         /\ \E newline, ls : Adds(p, newline, ls)
         /\ Write(p) \/ GapWrite(p) =>
              \E newline, ls : /\ Adds(p, newline, ls)
                               /\ Len(ls) = Len(batch[p]) /\ \A k \in 1..Len(ls) : ls[k].kind = "event"
<1> DEFINE b == batch[p]
           x == Links(p)
           ls == Chained(b, x)
<1>0. 0 \in Nat
  OBVIOUS
<1>1. /\ pc[p] \in {"write", "gapWrite"} /\ file[p] \in Months /\ b \in Seq(Nat) /\ x \in Nat
      /\ fresh[p] \in BOOLEAN
  BY <1>0 DEF HistoryTypes, Write, GapWrite, CrashInWrite, Links, Null
<1>2. Len(b) >= 1
  BY <1>1 DEF Locking
<1>3. /\ ls \in Seq(Line) /\ Len(ls) = Len(b) /\ Len(b) \in Nat
      /\ \A i \in 1..Len(b) : /\ ls[i].kind = "event" /\ ls[i].id = b[i]
                              /\ ls[i].prev = IF i = 1 THEN x ELSE b[i - 1]
  <2>1. b \in Seq(Nat) /\ x \in Nat
    BY <1>1
  <2>2. Len(b) \in Nat
    BY <2>1
  <2> HIDE DEF b, x
  <2> QED
    BY <2>1, <2>2, ChainedIs
<1>4. ASSUME Write(p) \/ GapWrite(p)
      PROVE  \E newline, l : Adds(p, newline, l) /\ (Len(l) = Len(b) /\ \A k \in 1..Len(l) : l[k].kind = "event")
  <2>1. PICK newline \in BOOLEAN : log' = [log EXCEPT ![file[p]] = Appended(file[p], newline, ls)]
    <3>1. CASE Write(p)
      <4>1. log' = [log EXCEPT ![file[p]] = Appended(file[p], Len(b) > 1, ls)]
        BY <3>1 DEF Write, Links
      <4>2. (Len(b) > 1) \in BOOLEAN
        OBVIOUS
      <4> HIDE DEF b, ls
      <4> WITNESS (Len(b) > 1) \in BOOLEAN
      <4> QED
        BY <4>1
    <3>2. CASE GapWrite(p)
      <4>1. log' = [log EXCEPT ![file[p]] = Appended(file[p], fresh[p], ls)]
        BY <3>2 DEF GapWrite, Links
      <4> QED
        BY <1>1, <4>1
    <3> QED
      BY <1>4, <3>1, <3>2
  <2>2. ls # <<>>
    BY <1>2, <1>3
  <2> HIDE DEF ls, b, x
  <2>3. Adds(p, newline, ls)
    BY <1>3, <2>1, <2>2 DEF Adds, b, x
  <2> QED
    BY <1>3, <2>3
<1>5. ASSUME CrashInWrite(p) PROVE \E newline, l : Adds(p, newline, l)
  <2> DEFINE nl == IF pc[p] = "write" THEN Len(b) > 1 ELSE fresh[p]
  <2>1. PICK n \in 0..(Len(ls) - 1), part \in BOOLEAN :
          /\ log' = [log EXCEPT ![file[p]] = Appended(file[p], nl, Cut(ls, n, part))]
          /\ torn' = (torn \/ part)
          /\ hollow' = (hollow \/ (n = 0 /\ ~part))
    BY <1>5 DEF CrashInWrite, Cut, Links
  <2> DEFINE l == Cut(ls, n, part)
  <2>2. nl \in BOOLEAN
    <3>1. (Len(b) > 1) \in BOOLEAN
      OBVIOUS
    <3> QED
      BY <1>1, <3>1, Zenon
  <2>3. /\ l \in Seq(Line) /\ Len(l) = IF part THEN n + 1 ELSE n
        /\ \A i \in 1..n : i \in 1..Len(ls) /\ l[i] = ls[i]
        /\ part => l[n + 1] = Torn
    BY <1>3, CutIs
  <2> HIDE DEF l, ls, b, x, nl
  <2>4. Len(l) <= Len(b)
    BY <1>3, <2>3
  <2>5. ASSUME NEW k \in 1..Len(l)
        PROVE  \/ l[k].kind = "event" /\ l[k].id = b[k] /\ l[k].prev = IF k = 1 THEN x ELSE b[k - 1]
               \/ l[k].kind = "torn" /\ k = Len(l) /\ torn'
    <3>1. CASE k \in 1..n
      BY <1>3, <2>3, <3>1
    <3>2. CASE k \notin 1..n
      <4>1. part /\ k = n + 1 /\ k = Len(l)
        BY <1>3, <2>3, <3>2
      <4>2. l[k] = Torn
        BY <2>3, <4>1
      <4>3. torn'
        BY <2>1, <4>1, Zenon
      <4> QED
        BY <4>1, <4>2, <4>3 DEF Torn
    <3> QED
      BY <3>1, <3>2
  <2>6. l = <<>> => hollow'
    <3>1. l = <<>> => n = 0 /\ ~part
      BY <1>3, <2>3
    <3> QED
      BY <2>1, <3>1
  <2>7. log' = [log EXCEPT ![file[p]] = Appended(file[p], nl, l)]
    BY <2>1 DEF l
  <2>8. Adds(p, nl, l)
    BY <2>2, <2>3, <2>4, <2>5, <2>6, <2>7 DEF Adds, b, x
  <2> QED
    BY <2>8
<1> QED
  BY <1>1, <1>4, <1>5

\* An append makes its file, or lets it grow, and leaves the others.
LEMMA AddsGrow ==
  ASSUME HistoryTypes, NEW p \in Procs, file[p] \in Months, NEW newline, NEW ls, Adds(p, newline, ls)
  PROVE  /\ log' \in [Months -> Seq(Line) \union {NoFile}]
         /\ \A m \in Months : Size(m)' \in Nat /\ Size(m)' >= Size(m) /\ (log'[m] # NoFile => log[m] # NoFile \/ m = file[p])
         /\ \A m \in Months : m # file[p] => log'[m] = log[m] /\ Size(m)' = Size(m)
         /\ log'[file[p]] # NoFile
<1>1. PICK f \in Months : f = file[p]
  OBVIOUS
<1>2. newline \in BOOLEAN /\ ls \in Seq(Line) /\ log' = [log EXCEPT ![f] = Appended(f, newline, ls)]
  BY <1>1 DEF Adds
<1>3. Appended(f, newline, ls) \in Seq(Line) /\ Len(Appended(f, newline, ls)) >= Size(f)
  BY <1>2, AppendedIs
<1>4. /\ log' \in [Months -> Seq(Line) \union {NoFile}] /\ Size(f)' = Len(Appended(f, newline, ls))
      /\ log'[f] = Appended(f, newline, ls) /\ Appended(f, newline, ls) # NoFile
      /\ \A n \in Months \ {f} : log'[n] = log[n] /\ Size(n)' = Size(n)
  BY <1>2, <1>3, LogAfter
<1>5. ASSUME NEW m \in Months PROVE Size(m)' \in Nat /\ Size(m)' >= Size(m)
  <2>1. Size(m) \in Nat
    BY LinesTyped
  <2>2. CASE m = f
    <3>1. Len(Appended(f, newline, ls)) \in Nat
      BY <1>3
    <3> QED
      BY <1>3, <1>4, <2>2, <3>1
  <2>3. CASE m # f
    BY <1>4, <2>1, <2>3
  <2> QED
    BY <2>2, <2>3
<1> QED
  BY <1>1, <1>4, <1>5

\* What is cut is a fragment.
LEMMA TruncateIs ==
  ASSUME HistoryTypes, Locking, NEW p \in Procs, Truncate(p)
  PROVE  /\ log' \in [Months -> Seq(Line) \union {NoFile}]
         /\ \A m \in Months : m # file[p] => log'[m] = log[m] /\ Size(m)' = Size(m)
         /\ \A m \in Months : m = file[p] =>
              /\ Size(m)' = keep[p] /\ keep[p] < Size(m) /\ log[m] # NoFile /\ log'[m] # NoFile
              /\ \A i \in 1..keep[p] : log'[m][i] = log[m][i]
<1>1. PICK f \in Months : f = file[p]
  BY DEF HistoryTypes
<1> DEFINE k == keep[p]
           r == SubSeq(log[f], 1, k)
<1>2. k \in Nat /\ k < Size(f)
  BY <1>1 DEF HistoryTypes, Locking, Truncate
<1>3. log[f] # NoFile /\ log[f] \in Seq(Line) /\ Size(f) = Len(log[f])
  BY <1>2, LinesTyped
<1>4. r \in Seq(Line) /\ Len(r) = k /\ \A i \in 1..k : r[i] = log[f][i]
  BY <1>2, <1>3
<1>5. log' = [log EXCEPT ![f] = r]
  BY <1>1 DEF Truncate
<1> HIDE DEF r
<1>6. /\ log' \in [Months -> Seq(Line) \union {NoFile}] /\ log'[f] = r /\ r # NoFile /\ Size(f)' = Len(r)
      /\ \A n \in Months \ {f} : log'[n] = log[n] /\ Size(n)' = Size(n)
  BY <1>4, <1>5, LogAfter
<1> QED
  BY <1>1, <1>2, <1>3, <1>4, <1>6

\* The types hold at first.
LEMMA TypesInit == Init => HistoryTypes
<1> SUFFICES ASSUME Init PROVE HistoryTypes
  OBVIOUS
<1>0. 0 \in Nat
  OBVIOUS
<1>1. 1 \in Months
  BY HistoryAssumption DEF Months
<1>2. log \in [Months -> Seq(Line) \union {NoFile}]
  BY DEF Init
<1>3. batch \in [Procs -> Seq(Nat)]
  BY DEF Init
<1> QED
  BY <1>0, <1>1, <1>2, <1>3 DEF Init, HistoryTypes, NoHead, Null

\* What a process forgets when its append ends.
LEMMA BackIs ==
  ASSUME HistoryTypes, NEW p \in Procs, Back(p)
  PROVE  /\ batch' \in [Procs -> Seq(Nat)] /\ stamp' \in [Procs -> Months] /\ file' \in [Procs -> Months]
         /\ fresh' \in [Procs -> BOOLEAN] /\ keep' \in [Procs -> Nat] /\ prev' \in [Procs -> Nat]
         /\ pc' \in [Procs -> {"idle", "lock"} \union Inside \union Bare]
         /\ batch'[p] = <<>> /\ stamp'[p] = 1 /\ file'[p] = 1 /\ pc'[p] = "idle"
         /\ \A q \in Procs \ {p} : /\ batch'[q] = batch[q] /\ stamp'[q] = stamp[q] /\ file'[q] = file[q]
                                   /\ keep'[q] = keep[q] /\ prev'[q] = prev[q] /\ pc'[q] = pc[q]
<1>0. 0 \in Nat /\ Null \in Nat
  BY DEF Null
<1>1. 1 \in Months
  BY HistoryAssumption DEF Months
<1>2. batch' = [batch EXCEPT ![p] = <<>>] /\ <<>> \in Seq(Nat)
  BY DEF Back
<1>3. batch' \in [Procs -> Seq(Nat)] /\ batch'[p] = <<>> /\ \A q \in Procs \ {p} : batch'[q] = batch[q]
  BY <1>2 DEF HistoryTypes
<1> QED
  BY <1>0, <1>1, <1>3 DEF HistoryTypes, Back, Goto

\* Every step keeps the types.
LEMMA TypesStep ==
  ASSUME HistoryTypes, Locking, Next
  PROVE  HistoryTypes'
<1> USE DEF history, caches, scratch
<1>0. 0 \in Nat /\ Null \in Nat
  BY DEF Null
<1>1. ASSUME NEW p \in Procs, Begin(p) PROVE HistoryTypes'
  <2>1. PICK n \in 1..MaxBatch : batch' = [batch EXCEPT ![p] = [i \in 1..n |-> begun + i]] /\ begun' = begun + n
    BY <1>1 DEF Begin
  <2>2. begun \in Nat /\ n \in Nat /\ begun + n \in Nat /\ \A i \in 1..n : begun + i \in Nat
    BY HistoryAssumption DEF HistoryTypes
  <2> DEFINE b == [i \in 1..n |-> begun + i]
  <2>3. b \in Seq(Nat)
    BY <2>2
  <2> HIDE DEF b
  <2>4. batch' = [batch EXCEPT ![p] = b]
    BY <2>1 DEF b
  <2>5. batch' \in [Procs -> Seq(Nat)]
    BY <2>3, <2>4 DEF HistoryTypes
  <2> QED
    BY <1>1, <2>1, <2>2, <2>5 DEF HistoryTypes, Begin, Goto
<1>2. ASSUME NEW p \in Procs, Lock(p) PROVE HistoryTypes'
  <2>1. TargetMonthFile(stamp[p]) \in Months
    BY TargetIs DEF HistoryTypes, Locking
  <2> QED
    BY <1>2, <2>1 DEF HistoryTypes, Lock, Goto, Inside
<1>3. ASSUME NEW p \in Procs, Drop(p) PROVE HistoryTypes'
  <2>1. EndsMidLine(file[p]) => Size(file[p]) - 1 \in Nat
    BY LinesTyped DEF HistoryTypes, EndsMidLine
  <2>2. keep' \in [Procs -> Nat] /\ pc' \in [Procs -> {"idle", "lock"} \union Inside \union Bare]
    BY <1>3, <2>1 DEF HistoryTypes, Drop, Goto, Inside
  <2> QED
    BY <1>3, <2>2 DEF HistoryTypes, Drop
<1>4. ASSUME NEW p \in Procs, Truncate(p) PROVE HistoryTypes'
  <2>1. log' \in [Months -> Seq(Line) \union {NoFile}]
    BY <1>4, TruncateIs
  <2> QED
    BY <1>4, <2>1 DEF HistoryTypes, Truncate, Goto, Inside
<1>5. ASSUME NEW p \in Procs, Find(p) PROVE HistoryTypes'
  <2>1. Predecessor(p, file[p]) \in Nat
    BY PredecessorTyped DEF HistoryTypes
  <2> QED
    BY <1>5, <2>1 DEF HistoryTypes, Find, Goto, Inside
<1>6. ASSUME NEW p \in Procs, Write(p) PROVE HistoryTypes'
  <2>1. log' \in [Months -> Seq(Line) \union {NoFile}]
    BY <1>6, AddsIs, AddsGrow
  <2> QED
    BY <1>6, <2>1 DEF HistoryTypes, Write, Goto, Inside
<1>7. ASSUME NEW p \in Procs, Record(p) PROVE HistoryTypes'
  <2>1. Len(batch[p]) >= 1 /\ batch[p] \in Seq(Nat)
    BY <1>7 DEF HistoryTypes, Record, Locking
  <2>2. batch[p][1] \in Nat /\ file[p] \in Months /\ Size(file[p]) \in Nat
    BY <2>1, LinesTyped DEF HistoryTypes
  <2>3. [id |-> batch[p][1], file |-> file[p], size |-> Size(file[p])] \in Heads
    BY <2>2 DEF Heads
  <2>4. mem' \in [Procs -> Heads \union {NoHead}]
    BY <1>7, <2>3 DEF HistoryTypes, Record
  <2> QED
    BY <1>7, <2>4 DEF HistoryTypes, Record, Goto, Inside
<1>8. ASSUME NEW p \in Procs, Unlock(p) PROVE HistoryTypes'
  <2>1. \A i \in 1..Len(batch[p]) : batch[p][i] \in Nat
    BY DEF HistoryTypes
  <2>2. done' \in SUBSET Nat
    BY <1>8, <2>1 DEF HistoryTypes, Unlock
  <2>3. /\ batch' \in [Procs -> Seq(Nat)] /\ stamp' \in [Procs -> Months] /\ file' \in [Procs -> Months]
        /\ fresh' \in [Procs -> BOOLEAN] /\ keep' \in [Procs -> Nat] /\ prev' \in [Procs -> Nat]
        /\ pc' \in [Procs -> {"idle", "lock"} \union Inside \union Bare]
    BY <1>8, BackIs DEF Unlock
  <2> QED
    BY <1>8, <2>2, <2>3 DEF HistoryTypes, Unlock
<1>9. ASSUME NEW p \in Procs, Miss(p) PROVE HistoryTypes'
  <2>1. TargetMonthFile(stamp[p]) \in Months
    BY TargetIs DEF HistoryTypes, Locking
  <2>2. EndsMidLine(TargetMonthFile(stamp[p])) \in BOOLEAN
    BY DEF EndsMidLine
  <2>3. batch[p] \in Seq(Nat)
    BY DEF HistoryTypes
  <2>4. bare' \in Nat
    BY <1>9, <2>3 DEF HistoryTypes, Miss
  <2>5. fresh' \in [Procs -> BOOLEAN]
    BY <1>9, <2>2 DEF HistoryTypes, Miss
  <2> QED
    BY <1>9, <2>1, <2>4, <2>5 DEF HistoryTypes, Miss, Goto, Bare
<1>10. ASSUME NEW p \in Procs, GapWrite(p) PROVE HistoryTypes'
  <2>1. log' \in [Months -> Seq(Line) \union {NoFile}]
    BY <1>10, AddsIs, AddsGrow
  <2> QED
    BY <1>10, <2>1 DEF HistoryTypes, GapWrite, Goto, Bare
<1>11. ASSUME NEW p \in Procs, Invalidate(p) PROVE HistoryTypes'
  <2>1. \A i \in 1..Len(batch[p]) : batch[p][i] \in Nat
    BY DEF HistoryTypes
  <2>2. done' \in SUBSET Nat
    BY <1>11, <2>1 DEF HistoryTypes, Invalidate
  <2>3. /\ batch' \in [Procs -> Seq(Nat)] /\ stamp' \in [Procs -> Months] /\ file' \in [Procs -> Months]
        /\ fresh' \in [Procs -> BOOLEAN] /\ keep' \in [Procs -> Nat] /\ prev' \in [Procs -> Nat]
        /\ pc' \in [Procs -> {"idle", "lock"} \union Inside \union Bare]
    BY <1>11, BackIs DEF Invalidate
  <2> QED
    BY <1>11, <2>2, <2>3 DEF HistoryTypes, Invalidate
<1>12. ASSUME NEW p \in Procs, Dies(p), log' \in [Months -> Seq(Line) \union {NoFile}],
              torn' \in BOOLEAN, hollow' \in BOOLEAN
       PROVE HistoryTypes'
  <2>1. /\ batch' \in [Procs -> Seq(Nat)] /\ stamp' \in [Procs -> Months] /\ file' \in [Procs -> Months]
        /\ fresh' \in [Procs -> BOOLEAN] /\ keep' \in [Procs -> Nat] /\ prev' \in [Procs -> Nat]
        /\ pc' \in [Procs -> {"idle", "lock"} \union Inside \union Bare]
    BY <1>12, BackIs DEF Dies
  <2>2. holder' \in Procs \union {None} /\ mem' \in [Procs -> Heads \union {NoHead}] /\ crashes' \in Nat
    BY <1>12 DEF HistoryTypes, Dies
  <2>3. now' \in Months /\ side' \in Heads \union {NoHead} /\ begun' \in Nat /\ done' \in SUBSET Nat /\ bare' \in Nat
    BY <1>12 DEF HistoryTypes, Dies
  <2> QED
    BY <1>12, <2>1, <2>2, <2>3 DEF HistoryTypes
<1>13. ASSUME NEW p \in Procs, Crash(p) PROVE HistoryTypes'
  BY <1>12, <1>13 DEF HistoryTypes, Crash
<1>14. ASSUME NEW p \in Procs, CrashInWrite(p) PROVE HistoryTypes'
  <2>1. log' \in [Months -> Seq(Line) \union {NoFile}]
    BY <1>14, AddsIs, AddsGrow
  <2>2. torn' \in BOOLEAN /\ hollow' \in BOOLEAN
    BY <1>14 DEF CrashInWrite
  <2>3. Dies(p)
    BY <1>14 DEF CrashInWrite
  <2> QED
    BY <1>12, <2>1, <2>2, <2>3
<1>15. ASSUME Tick PROVE HistoryTypes'
  BY <1>15, HistoryAssumption DEF HistoryTypes, Tick, Months
<1> QED
  BY <1>1, <1>2, <1>3, <1>4, <1>5, <1>6, <1>7, <1>8, <1>9, <1>10, <1>11, <1>13, <1>14, <1>15 DEF Next, Step

\* A log that stays as it is has the files it had.
LEMMA Quiet ==
  ASSUME log' = log
  PROVE  \A m : Size(m)' = Size(m) /\ (EndsMidLine(m)' <=> EndsMidLine(m)) /\ \A i : Ev(m, i)' <=> Ev(m, i)
BY DEF Size, Lines, EndsMidLine, Ev

\* Every step keeps one process inside, and the files of no month to come.
LEMMA LockingStep ==
  ASSUME HistoryTypes, Locking, Next
  PROVE  Locking'
<1> USE DEF history, caches, scratch
<1>0. HistoryTypes'
  BY TypesStep
<1>1. ASSUME NEW p \in Procs, Begin(p) PROVE Locking'
  <2>1. PICK n \in 1..MaxBatch : batch' = [batch EXCEPT ![p] = [i \in 1..n |-> begun + i]]
    BY <1>1 DEF Begin
  <2>2. n \in Nat /\ n >= 1 /\ Len([i \in 1..n |-> begun + i]) = n
    BY HistoryAssumption
  <2>3. Len(batch'[p]) >= 1 /\ \A q \in Procs \ {p} : batch'[q] = batch[q]
    BY <2>1, <2>2 DEF HistoryTypes
  <2>4. log' = log
    BY <1>1 DEF Begin
  <2>5. now \in Nat
    BY DEF HistoryTypes, Months
  <2> QED
    BY <1>1, <2>3, <2>4, <2>5, Quiet DEF HistoryTypes, Locking, Begin, Goto, Inside, Bare
<1>2. ASSUME NEW p \in Procs, Lock(p) PROVE Locking'
  <2>1. TargetMonthFile(stamp[p]) <= now
    BY TargetIs DEF HistoryTypes, Locking
  <2>2. \A q \in Procs : pc[q] \notin Inside
    BY <1>2, HistoryAssumption DEF Locking, Lock
  <2>3. log' = log
    BY <1>2 DEF Lock
  <2> QED
    BY <1>2, <2>1, <2>2, <2>3, Quiet DEF HistoryTypes, Locking, Lock, Goto, Inside, Bare
<1>3. ASSUME NEW p \in Procs, Drop(p) PROVE Locking'
  <2>1. EndsMidLine(file[p]) => Size(file[p]) - 1 < Size(file[p])
    BY LinesTyped DEF HistoryTypes, EndsMidLine
  <2>2. log' = log
    BY <1>3 DEF Drop
  <2>3. pc'[p] = "truncate" => keep'[p] < Size(file[p])
    BY <1>3, <2>1 DEF HistoryTypes, Drop, Goto
  <2>4. pc[p] = "drop" /\ pc'[p] \in {"truncate", "find"}
        /\ \A q \in Procs \ {p} : pc'[q] = pc[q] /\ keep'[q] = keep[q]
    BY <1>3 DEF HistoryTypes, Drop, Goto
  <2> QED
    BY <1>3, <2>2, <2>3, <2>4, Quiet DEF HistoryTypes, Locking, Drop, Inside, Bare
<1>4. ASSUME NEW p \in Procs, Truncate(p) PROVE Locking'
  <2>1. \A q \in Procs \ {p} : pc[q] \notin Inside
    BY <1>4 DEF Locking, Truncate, Inside
  <2>2. \A m \in Months : log'[m] # NoFile => log[m] # NoFile
    BY <1>4, TruncateIs
  <2>3. \A q \in Procs : pc'[q] # "truncate"
    BY <1>4, <2>1 DEF HistoryTypes, Truncate, Goto, Inside
  <2> QED
    BY <1>4, <2>2, <2>3 DEF HistoryTypes, Locking, Truncate, Goto, Inside, Bare
<1>5. ASSUME NEW p \in Procs, Find(p) PROVE Locking'
  <2>1. log' = log
    BY <1>5 DEF Find
  <2> QED
    BY <1>5, <2>1, Quiet DEF HistoryTypes, Locking, Find, Goto, Inside, Bare
<1>6. ASSUME NEW p \in Procs, Write(p) \/ GapWrite(p) \/ CrashInWrite(p)
      PROVE  /\ \A m \in Months : log'[m] # NoFile => m <= now
             /\ \A q \in Procs \ {p} : pc[q] = "truncate" => keep[q] < Size(file[q])'
  <2>1. /\ \A m \in Months : Size(m)' \in Nat /\ Size(m)' >= Size(m)
        /\ \A m \in Months : log'[m] # NoFile => log[m] # NoFile \/ m = file[p]
    BY <1>6, AddsIs, AddsGrow
  <2>2. \A m \in Months : log'[m] # NoFile => m <= now
    BY <2>1 DEF Locking
  <2>3. \A q \in Procs \ {p} : file'[q] = file[q] /\ file[q] \in Months
    BY <1>6, BackIs DEF HistoryTypes, Write, GapWrite, CrashInWrite, Dies
  <2>4. ASSUME NEW q \in Procs \ {p}, pc[q] = "truncate" PROVE keep[q] < Size(file[q])'
    <3>1. keep[q] < Size(file[q]) /\ keep[q] \in Nat
      BY <2>4 DEF HistoryTypes, Locking
    <3>2. Size(file[q])' >= Size(file[q])
      BY <2>1, <2>3
    <3>3. \A m \in Months : Size(m) \in Nat
      BY LinesTyped
    <3> QED
      BY <2>3, <2>1, <3>1, <3>2, <3>3
  <2> QED
    BY <2>2, <2>4
<1>7. ASSUME NEW p \in Procs, Write(p) PROVE Locking'
  BY <1>6, <1>7 DEF HistoryTypes, Locking, Write, Goto, Inside, Bare
<1>8. ASSUME NEW p \in Procs, Record(p) PROVE Locking'
  <2>1. log' = log
    BY <1>8 DEF Record
  <2> QED
    BY <1>8, <2>1, Quiet DEF HistoryTypes, Locking, Record, Goto, Inside, Bare
<1>9. ASSUME NEW p \in Procs, Unlock(p) PROVE Locking'
  <2>1. log' = log
    BY <1>9 DEF Unlock
  <2>2. /\ batch'[p] = <<>> /\ stamp'[p] = 1 /\ file'[p] = 1 /\ pc'[p] = "idle"
        /\ \A q \in Procs \ {p} : /\ batch'[q] = batch[q] /\ stamp'[q] = stamp[q] /\ file'[q] = file[q]
                                  /\ keep'[q] = keep[q] /\ pc'[q] = pc[q]
    BY <1>9, BackIs DEF Unlock
  <2>3. \A q \in Procs \ {p} : pc[q] \notin Inside
    BY <1>9 DEF Locking, Unlock, Inside
  <2>4. now \in Nat /\ 1 <= now
    BY DEF HistoryTypes, Months
  <2> QED
    BY <1>9, <2>1, <2>2, <2>3, <2>4, Quiet DEF HistoryTypes, Locking, Unlock, Inside, Bare
<1>10. ASSUME NEW p \in Procs, Miss(p) PROVE Locking'
  <2>1. TargetMonthFile(stamp[p]) <= now
    BY TargetIs DEF HistoryTypes, Locking
  <2>2. log' = log
    BY <1>10 DEF Miss
  <2>3. bare' >= bare /\ Len(batch[p]) <= bare' /\ \A q \in Procs : Len(batch[q]) \in Nat
    BY <1>10 DEF HistoryTypes, Miss
  <2>4. bare \in Nat /\ bare' \in Nat
    BY <1>0 DEF HistoryTypes
  <2>5. \A q \in Procs : pc'[q] \in Bare => Len(batch[q]) <= bare'
    BY <1>10, <2>3, <2>4 DEF HistoryTypes, Locking, Miss, Goto, Bare
  <2> QED
    BY <1>10, <2>1, <2>2, <2>5, Quiet DEF HistoryTypes, Locking, Miss, Goto, Inside, Bare
<1>11. ASSUME NEW p \in Procs, GapWrite(p) PROVE Locking'
  BY <1>6, <1>11 DEF HistoryTypes, Locking, GapWrite, Goto, Inside, Bare
<1>12. ASSUME NEW p \in Procs, Invalidate(p) PROVE Locking'
  <2>1. log' = log
    BY <1>12 DEF Invalidate
  <2>2. /\ batch'[p] = <<>> /\ stamp'[p] = 1 /\ file'[p] = 1 /\ pc'[p] = "idle"
        /\ \A q \in Procs \ {p} : /\ batch'[q] = batch[q] /\ stamp'[q] = stamp[q] /\ file'[q] = file[q]
                                  /\ keep'[q] = keep[q] /\ pc'[q] = pc[q]
    BY <1>12, BackIs DEF Invalidate
  <2>3. pc[p] = "gapDone" /\ now' = now /\ holder' = holder /\ bare' = bare
    BY <1>12 DEF Invalidate
  <2>4. now \in Nat /\ 1 <= now
    BY DEF HistoryTypes, Months
  <2>5. \A q \in Procs : pc'[q] \in Inside => holder' = q
    BY <2>2, <2>3 DEF Locking, Inside
  <2>6. \A q \in Procs : /\ pc'[q] # "idle" => Len(batch'[q]) >= 1
                         /\ pc'[q] \in Bare => Len(batch'[q]) <= bare'
                         /\ stamp'[q] <= now' /\ file'[q] <= now'
    BY <2>2, <2>3, <2>4 DEF Locking, Bare
  <2>7. \A m \in Months : log'[m] # NoFile => m <= now'
    BY <2>1, <2>3 DEF Locking
  <2>8. \A q \in Procs : pc'[q] = "truncate" => keep'[q] < Size(file[q])'
    BY <2>1, <2>2, Quiet DEF Locking
  <2> QED
    BY <2>5, <2>6, <2>7, <2>8 DEF Locking
<1>13. ASSUME NEW p \in Procs, Dies(p), \A m \in Months : log'[m] # NoFile => m <= now,
              \A q \in Procs \ {p} : pc[q] = "truncate" => keep[q] < Size(file[q])'
       PROVE  Locking'
  <2>2. /\ batch'[p] = <<>> /\ stamp'[p] = 1 /\ file'[p] = 1 /\ pc'[p] = "idle"
        /\ \A q \in Procs \ {p} : /\ batch'[q] = batch[q] /\ stamp'[q] = stamp[q] /\ file'[q] = file[q]
                                  /\ keep'[q] = keep[q] /\ pc'[q] = pc[q]
    BY <1>13, BackIs DEF Dies
  <2>3. \A q \in Procs \ {p} : pc[q] \in Inside => holder' = q
    BY <1>13 DEF Locking, Dies
  <2>4. now \in Nat /\ 1 <= now
    BY DEF HistoryTypes, Months
  <2> QED
    BY <1>13, <2>2, <2>3, <2>4 DEF HistoryTypes, Locking, Dies, Inside, Bare
<1>14. ASSUME NEW p \in Procs, Crash(p) PROVE Locking'
  <2>1. log' = log /\ Dies(p)
    BY <1>14 DEF Crash
  <2>2. \A q \in Procs \ {p} : pc[q] = "truncate" => keep[q] < Size(file[q])'
    <3>1. \A q \in Procs \ {p} : file'[q] = file[q]
      BY <2>1, BackIs DEF Dies
    <3> QED
      BY <2>1, <3>1, Quiet DEF Locking
  <2> QED
    BY <1>13, <2>1, <2>2 DEF Locking
<1>15. ASSUME NEW p \in Procs, CrashInWrite(p) PROVE Locking'
  <2>1. Dies(p)
    BY <1>15 DEF CrashInWrite
  <2> QED
    BY <1>6, <1>13, <1>15, <2>1
<1>16. ASSUME Tick PROVE Locking'
  <2>1. log' = log
    BY <1>16 DEF Tick
  <2>2. now \in Nat /\ now' = now + 1 /\ \A m \in Months : m \in Nat
    BY <1>16 DEF HistoryTypes, Tick, Months
  <2>3. \A q \in Procs : stamp[q] \in Nat /\ file[q] \in Nat
    BY DEF HistoryTypes, Months
  <2> QED
    BY <1>16, <2>1, <2>2, <2>3, Quiet DEF HistoryTypes, Locking, Tick
<1> QED
  BY <1>1, <1>2, <1>3, <1>4, <1>5, <1>7, <1>8, <1>9, <1>10, <1>11, <1>12, <1>14, <1>15, <1>16 DEF Next, Step

\* An event that is in the log after an append was there, at the same place, or is one of the append.
LEMMA AddsEvents ==
  ASSUME HistoryTypes, NEW p \in Procs, file[p] \in Months, NEW newline, NEW ls, Adds(p, newline, ls)
  PROVE  \E d \in Nat : \A m \in Months : \A i : Ev(m, i)' =>
           \/ Ev(m, i) /\ log'[m][i] = log[m][i]
           \/ m = file[p] /\ i - d \in 1..Len(batch[p]) /\ log'[m][i].id = batch[p][i - d]
<1>1. PICK f \in Months : f = file[p]
  OBVIOUS
<1>2. /\ newline \in BOOLEAN /\ ls \in Seq(Line) /\ log' = [log EXCEPT ![f] = Appended(f, newline, ls)]
      /\ Len(ls) <= Len(batch[p]) /\ Len(ls) \in Nat /\ Len(batch[p]) \in Nat
      /\ \A k \in 1..Len(ls) : ls[k].kind = "event" => ls[k].id = batch[p][k]
  BY <1>1 DEF Adds, HistoryTypes
<1> DEFINE r == Appended(f, newline, ls)
           old == Lines(log, f)
<1>3. r \in Seq(Line) /\ \E d \in Nat : Grew(r, old, ls, d)
  BY <1>2, AppendedIs
<1>4. PICK d \in Nat : Grew(r, old, ls, d)
  BY <1>3
<1>5. log'[f] = r /\ Size(f)' = Len(r) /\ \A n \in Months \ {f} : log'[n] = log[n] /\ Size(n)' = Size(n)
  BY <1>2, <1>3, LogAfter
<1>6. Size(f) = Len(old) /\ \A i \in 1..Size(f) : old[i] = log[f][i]
  BY LinesTyped
<1> HIDE DEF r, old
<1>7. ASSUME NEW i, Ev(f, i)'
      PROVE  \/ Ev(f, i) /\ log'[f][i] = log[f][i]
             \/ i - d \in 1..Len(batch[p]) /\ log'[f][i].id = batch[p][i - d]
  <2>1. i \in 1..Len(r) /\ r[i].kind = "event" /\ log'[f][i] = r[i]
    BY <1>5, <1>7 DEF Ev
  <2>2. CASE i \in 1..Len(old) /\ r[i] = old[i]
    <3>1. i \in 1..Size(f) /\ r[i] = log[f][i]
      BY <1>6, <2>2
    <3> QED
      BY <2>1, <3>1 DEF Ev
  <2>3. CASE i - d \in 1..Len(ls) /\ r[i] = ls[i - d]
    <3>1. i - d \in 1..Len(batch[p])
      BY <1>2, <2>3
    <3>2. ls[i - d].kind = "event" /\ ls[i - d].id = batch[p][i - d]
      BY <1>2, <2>1, <2>3
    <3> QED
      BY <2>1, <2>3, <3>1, <3>2
  <2> QED
    BY <1>4, <2>1, <2>2, <2>3 DEF Grew
<1>8. ASSUME NEW m \in Months, NEW i, Ev(m, i)', m # f PROVE Ev(m, i) /\ log'[m][i] = log[m][i]
  BY <1>5, <1>8 DEF Ev
<1> QED
  BY <1>1, <1>7, <1>8

\* Nothing new in the log, and nothing new to write.
LEMMA UniqueQuiet ==
  ASSUME HistoryTypes, Unique, begun' = begun,
         \A m \in Months : \A i : Ev(m, i)' => Ev(m, i) /\ log'[m][i] = log[m][i],
         \A q \in Procs : batch'[q] = batch[q] \/ batch'[q] = <<>>,
         \A q \in Procs : pc'[q] \in Unwritten => pc[q] \in Unwritten
  PROVE  Unique'
<1>1. \A q \in Procs : \A i \in 1..Len(batch'[q]) : i \in 1..Len(batch[q]) /\ batch'[q][i] = batch[q][i]
  OBVIOUS
<1>2. \A m \in Months : \A i : Ev(m, i) => i \in 1..Size(m)
  BY DEF Ev
<1>3. \A q \in Procs : \A i \in 1..Len(batch'[q]) :
        /\ batch'[q][i] \in 1..begun
        /\ \A x \in Procs : \A j \in 1..Len(batch'[x]) : batch'[q][i] = batch'[x][j] => q = x /\ i = j
  BY <1>1 DEF Unique
<1>4. \A m \in Months : \A i : Ev(m, i)' => log'[m][i].id \in 1..begun
  BY <1>2 DEF Unique
<1>5. \A m, n \in Months : \A i, j : Ev(m, i)' /\ Ev(n, j)' /\ log'[m][i].id = log'[n][j].id => m = n /\ i = j
  BY <1>2 DEF Unique
<1>6. \A q \in Procs : pc'[q] \in Unwritten =>
        \A k \in 1..Len(batch'[q]) : \A m \in Months : \A i : Ev(m, i)' => log'[m][i].id # batch'[q][k]
  BY <1>1, <1>2 DEF Unique
<1> QED
  BY <1>3, <1>4, <1>5, <1>6 DEF Unique

\* The events of an append come into the log once.
LEMMA UniqueAdds ==
  ASSUME HistoryTypes, Unique, begun' = begun,
         NEW p \in Procs, file[p] \in Months, pc[p] \in {"write", "gapWrite"}, NEW newline, NEW ls, Adds(p, newline, ls),
         \A q \in Procs : batch'[q] = batch[q] \/ batch'[q] = <<>>,
         \A q \in Procs : pc'[q] \in Unwritten => q # p /\ pc[q] \in Unwritten
  PROVE  Unique'
<1>1. \A q \in Procs : \A i \in 1..Len(batch'[q]) : i \in 1..Len(batch[q]) /\ batch'[q][i] = batch[q][i]
  OBVIOUS
<1>2. \A m \in Months : \A i : Ev(m, i) => i \in 1..Size(m)
  BY DEF Ev
<1>3. PICK d \in Nat : \A m \in Months : \A i : Ev(m, i)' =>
        \/ Ev(m, i) /\ log'[m][i] = log[m][i]
        \/ m = file[p] /\ i - d \in 1..Len(batch[p]) /\ log'[m][i].id = batch[p][i - d]
  BY AddsEvents
<1>4. \A m \in Months : \A i : Ev(m, i)' => i \in Int
  <2>1. \A m \in Months : Size(m)' \in Nat
    BY AddsGrow
  <2> QED
    BY <2>1 DEF Ev
<1>5. \A k \in 1..Len(batch[p]) : /\ batch[p][k] \in 1..begun
                                  /\ \A q \in Procs : \A j \in 1..Len(batch[q]) : batch[p][k] = batch[q][j] => p = q /\ k = j
                                  /\ \A m \in Months : \A i : Ev(m, i) => log[m][i].id # batch[p][k]
  BY <1>2 DEF Unique, Unwritten
<1>6. \A q \in Procs : \A i \in 1..Len(batch'[q]) :
        /\ batch'[q][i] \in 1..begun
        /\ \A x \in Procs : \A j \in 1..Len(batch'[x]) : batch'[q][i] = batch'[x][j] => q = x /\ i = j
  BY <1>1 DEF Unique
<1>7. \A m \in Months : \A i : Ev(m, i) => log[m][i].id \in 1..begun
  BY <1>2 DEF Unique
<1>8. \A m \in Months : \A i : Ev(m, i)' => log'[m][i].id \in 1..begun
  BY <1>3, <1>5, <1>7
<1>9. ASSUME NEW m \in Months, NEW n \in Months, NEW i, NEW j, Ev(m, i)', Ev(n, j)', log'[m][i].id = log'[n][j].id
      PROVE  m = n /\ i = j
  <2>1. CASE Ev(m, i) /\ log'[m][i] = log[m][i] /\ Ev(n, j) /\ log'[n][j] = log[n][j]
    BY <1>2, <1>9, <2>1 DEF Unique
  <2>2. CASE /\ m = file[p] /\ i - d \in 1..Len(batch[p]) /\ log'[m][i].id = batch[p][i - d]
             /\ n = file[p] /\ j - d \in 1..Len(batch[p]) /\ log'[n][j].id = batch[p][j - d]
    <3>1. i - d = j - d
      BY <1>5, <1>9, <2>2
    <3> QED
      BY <1>4, <1>9, <2>2, <3>1
  <2>3. ~(Ev(m, i) /\ log'[m][i] = log[m][i] /\ j - d \in 1..Len(batch[p]) /\ log'[n][j].id = batch[p][j - d])
    BY <1>5, <1>9
  <2>4. ~(Ev(n, j) /\ log'[n][j] = log[n][j] /\ i - d \in 1..Len(batch[p]) /\ log'[m][i].id = batch[p][i - d])
    BY <1>5, <1>9
  <2> QED
    BY <1>3, <1>9, <2>1, <2>2, <2>3, <2>4
<1>10. ASSUME NEW q \in Procs, pc'[q] \in Unwritten, NEW k \in 1..Len(batch'[q]), NEW m \in Months, NEW i, Ev(m, i)'
       PROVE  log'[m][i].id # batch'[q][k]
  <2>1. q # p /\ pc[q] \in Unwritten /\ k \in 1..Len(batch[q]) /\ batch'[q][k] = batch[q][k]
    BY <1>1, <1>10
  <2>2. CASE Ev(m, i) /\ log'[m][i] = log[m][i]
    BY <1>2, <2>1, <2>2 DEF Unique
  <2>3. CASE i - d \in 1..Len(batch[p]) /\ log'[m][i].id = batch[p][i - d]
    BY <1>5, <2>1, <2>3
  <2> QED
    BY <1>3, <1>10, <2>2, <2>3
<1> QED
  BY <1>6, <1>8, <1>9, <1>10 DEF Unique

\* Cutting a fragment leaves the events that are above it.
LEMMA TruncateEvents ==
  ASSUME HistoryTypes, Locking, NEW p \in Procs, Truncate(p)
  PROVE  \A m \in Months : \A i : Ev(m, i)' => Ev(m, i) /\ log'[m][i] = log[m][i]
<1> TAKE m \in Months
<1> TAKE i
<1> HAVE Ev(m, i)'
<1>1. CASE m # file[p]
  BY <1>1, TruncateIs DEF Ev
<1>2. CASE m = file[p]
  <2>1. /\ Size(m)' = keep[p] /\ keep[p] < Size(m) /\ \A j \in 1..keep[p] : log'[m][j] = log[m][j]
    BY <1>2, TruncateIs
  <2>2. keep[p] \in Nat /\ Size(m) \in Nat
    BY LinesTyped DEF HistoryTypes
  <2>3. i \in 1..Size(m) /\ log'[m][i] = log[m][i]
    BY <2>1, <2>2 DEF Ev
  <2> QED
    BY <2>3 DEF Ev
<1> QED
  BY <1>1, <1>2

\* The events of a new append are new.
LEMMA UniqueBegin ==
  ASSUME HistoryTypes, Unique, NEW p \in Procs, Begin(p)
  PROVE  Unique'
<1>1. PICK n \in 1..MaxBatch : batch' = [batch EXCEPT ![p] = [i \in 1..n |-> begun + i]] /\ begun' = begun + n
  BY DEF Begin
<1>2. n \in Nat /\ begun \in Nat /\ begun' \in Nat /\ begun <= begun'
  BY <1>1, HistoryAssumption DEF HistoryTypes
<1>3. /\ Len(batch'[p]) = n /\ \A i \in 1..n : batch'[p][i] = begun + i
      /\ \A q \in Procs \ {p} : batch'[q] = batch[q]
  BY <1>1, <1>2 DEF HistoryTypes
<1>4. pc[p] = "idle" /\ log' = log /\ \A q \in Procs \ {p} : pc'[q] = pc[q]
  BY DEF Begin, Goto, HistoryTypes
<1>5. \A m : Size(m)' = Size(m) /\ \A i : Ev(m, i)' <=> Ev(m, i)
  BY <1>4, Quiet
<1>6. \A k \in 1..begun : k \in 1..begun' /\ k <= begun
  BY <1>2
<1>7. \A i \in 1..n : begun + i \in 1..begun' /\ begun + i > begun /\ \A j \in 1..n : begun + i = begun + j => i = j
  BY <1>1, <1>2
<1>8. \A q \in Procs \ {p} : \A i \in 1..Len(batch'[q]) : batch'[q][i] \in 1..begun
  BY <1>3 DEF Unique
<1>9. \A q \in Procs : \A i \in 1..Len(batch'[q]) : batch'[q][i] \in 1..begun'
  BY <1>3, <1>6, <1>7, <1>8
<1>10. ASSUME NEW q \in Procs, NEW x \in Procs, NEW i \in 1..Len(batch'[q]), NEW j \in 1..Len(batch'[x]),
              batch'[q][i] = batch'[x][j]
       PROVE  q = x /\ i = j
  <2>1. CASE q = p /\ x = p
    BY <1>3, <1>7, <1>10, <2>1
  <2>2. CASE q = p /\ x # p
    BY <1>3, <1>6, <1>7, <1>8, <1>10, <1>2, <2>2
  <2>3. CASE q # p /\ x = p
    BY <1>3, <1>6, <1>7, <1>8, <1>10, <1>2, <2>3
  <2>4. CASE q # p /\ x # p
    <3>1. batch'[q] = batch[q] /\ batch'[x] = batch[x]
      BY <1>3, <2>4
    <3>2. \A a, c \in Procs : \A k \in 1..Len(batch[a]), l \in 1..Len(batch[c]) :
            batch[a][k] = batch[c][l] => a = c /\ k = l
      BY DEF Unique
    <3> QED
      BY <1>10, <3>1, <3>2
  <2> QED
    BY <2>1, <2>2, <2>3, <2>4
<1>11. \A m \in Months : \A i \in 1..Size(m) : Ev(m, i) => log[m][i].id \in 1..begun
  BY DEF Unique
<1>12. ASSUME NEW q \in Procs, pc'[q] \in Unwritten, NEW k \in 1..Len(batch'[q]), NEW m \in Months, NEW i \in 1..Size(m), Ev(m, i)
       PROVE  log[m][i].id # batch'[q][k]
  <2>1. CASE q = p
    BY <1>2, <1>3, <1>6, <1>7, <1>11, <1>12, <2>1
  <2>2. CASE q # p
    BY <1>3, <1>4, <1>12, <2>2 DEF Unique
  <2> QED
    BY <2>1, <2>2
<1> QED
  BY <1>4, <1>5, <1>6, <1>9, <1>10, <1>11, <1>12 DEF Unique

\* No event comes into the log twice, and none of an append that is not written yet.
LEMMA UniqueStep ==
  ASSUME HistoryTypes, Locking, Unique, Next
  PROVE  Unique'
<1> USE DEF history, caches, scratch
<1>1. ASSUME log' = log PROVE \A m \in Months : \A i : Ev(m, i)' => Ev(m, i) /\ log'[m][i] = log[m][i]
  BY <1>1, Quiet
<1>2. ASSUME NEW p \in Procs, Lock(p) \/ Drop(p) \/ Find(p) \/ Record(p) \/ Miss(p) PROVE Unique'
  <2>1. log' = log /\ begun' = begun /\ batch' = batch
    BY <1>2 DEF Lock, Drop, Find, Record, Miss
  <2>2. \A q \in Procs : pc'[q] \in Unwritten => pc[q] \in Unwritten
    BY <1>2 DEF Lock, Drop, Find, Record, Miss, Goto, HistoryTypes, Unwritten
  <2> QED
    BY <1>1, <2>1, <2>2, UniqueQuiet
<1>3. ASSUME NEW p \in Procs, Unlock(p) \/ Invalidate(p) \/ Crash(p) PROVE Unique'
  <2>1. log' = log /\ begun' = begun /\ Back(p)
    BY <1>3 DEF Unlock, Invalidate, Crash, Dies
  <2>2. /\ batch'[p] = <<>> /\ pc'[p] = "idle"
        /\ \A q \in Procs \ {p} : batch'[q] = batch[q] /\ pc'[q] = pc[q]
    BY <2>1, BackIs
  <2>3. \A q \in Procs : pc'[q] \in Unwritten => pc[q] \in Unwritten
    BY <2>2 DEF Unwritten
  <2> QED
    BY <1>1, <2>1, <2>2, <2>3, UniqueQuiet
<1>4. ASSUME NEW p \in Procs, Truncate(p) PROVE Unique'
  <2>1. begun' = begun /\ batch' = batch
    BY <1>4 DEF Truncate
  <2>2. \A q \in Procs : pc'[q] \in Unwritten => pc[q] \in Unwritten
    BY <1>4 DEF Truncate, Goto, HistoryTypes, Unwritten
  <2> QED
    BY <1>4, <2>1, <2>2, TruncateEvents, UniqueQuiet
<1>5. ASSUME NEW p \in Procs, Write(p) \/ GapWrite(p) PROVE Unique'
  <2>1. PICK newline, ls : Adds(p, newline, ls)
    BY <1>5, AddsIs
  <2>2. pc[p] \in {"write", "gapWrite"} /\ file[p] \in Months
    BY <1>5, AddsIs
  <2>3. begun' = begun /\ batch' = batch /\ \A q \in Procs : pc'[q] \in Unwritten => q # p /\ pc[q] \in Unwritten
    BY <1>5 DEF Write, GapWrite, Goto, HistoryTypes, Unwritten
  <2> QED
    BY <2>1, <2>2, <2>3, UniqueAdds
<1>6. ASSUME NEW p \in Procs, CrashInWrite(p) PROVE Unique'
  <2>1. PICK newline, ls : Adds(p, newline, ls)
    BY <1>6, AddsIs
  <2>2. pc[p] \in {"write", "gapWrite"} /\ file[p] \in Months
    BY <1>6, AddsIs
  <2>3. begun' = begun /\ Back(p)
    BY <1>6 DEF CrashInWrite, Dies
  <2>4. /\ batch'[p] = <<>> /\ pc'[p] = "idle"
        /\ \A q \in Procs \ {p} : batch'[q] = batch[q] /\ pc'[q] = pc[q]
    BY <2>3, BackIs
  <2>5. \A q \in Procs : pc'[q] \in Unwritten => q # p /\ pc[q] \in Unwritten
    BY <2>4 DEF Unwritten
  <2>6. \A q \in Procs : batch'[q] = batch[q] \/ batch'[q] = <<>>
    BY <2>4
  <2> QED
    BY <2>1, <2>2, <2>3, <2>5, <2>6, UniqueAdds
<1>7. ASSUME Tick PROVE Unique'
  <2>1. log' = log /\ begun' = begun /\ batch' = batch /\ pc' = pc
    BY <1>7 DEF Tick
  <2> QED
    BY <1>1, <2>1, UniqueQuiet
<1> QED
  BY <1>2, <1>3, <1>4, <1>5, <1>6, <1>7, UniqueBegin DEF Next, Step

\* And so at first.
LEMMA BaseInit == Init => Locking /\ Unique
<1> SUFFICES ASSUME Init PROVE Locking /\ Unique
  OBVIOUS
<1>1. \A m \in Months : log[m] = NoFile /\ Size(m) = 0
  BY DEF Init, Size, Lines
<1>2. \A p \in Procs : pc[p] = "idle" /\ batch[p] = <<>> /\ stamp[p] = 1 /\ file[p] = 1
  BY DEF Init
<1>3. Locking
  BY <1>1, <1>2 DEF Init, Locking, Inside, Bare
<1>4. \A m \in Months : \A i : ~Ev(m, i)
  BY <1>1 DEF Ev
<1>5. \A p \in Procs : \A i \in 1..Len(batch[p]) : FALSE
  BY <1>2
<1> QED
  BY <1>3, <1>4, <1>5 DEF Unique

\* What every append keeps, with the lock or without, in every state.
Base == HistoryTypes /\ Locking /\ Unique
\* And that every state has it.
LEMMA BaseHolds == Spec => []Base
<1>1. Init => Base
  BY TypesInit, BaseInit DEF Base
<1>2. Base /\ [Next]_vars => Base'
  <2>1. ASSUME Base, Next PROVE Base'
    BY <2>1, TypesStep, LockingStep, UniqueStep DEF Base
  <2>2. ASSUME Base, UNCHANGED vars PROVE Base'
    <3>1. /\ log' = log /\ now' = now /\ holder' = holder /\ pc' = pc /\ batch' = batch /\ stamp' = stamp
          /\ file' = file /\ fresh' = fresh /\ keep' = keep /\ prev' = prev /\ mem' = mem /\ side' = side
          /\ begun' = begun /\ done' = done /\ torn' = torn /\ hollow' = hollow /\ bare' = bare /\ crashes' = crashes
      BY <2>2 DEF vars
    <3>2. HistoryTypes'
      BY <2>2, <3>1 DEF Base, HistoryTypes
    <3>3. Locking'
      BY <2>2, <3>1, Quiet DEF Base, Locking
    <3>4. Unique'
      BY <2>2, <3>1, UniqueQuiet, Quiet DEF Base
    <3> QED
      BY <3>2, <3>3, <3>4 DEF Base
  <2> QED
    BY <2>1, <2>2
<1> QED
  BY <1>1, <1>2, PTL DEF Spec

\* Every value has its type: an append is of events, a head names a month and a size.
THEOREM LogTypes == Spec => []HistoryTypes
<1>1. Base => HistoryTypes
  BY DEF Base
<1> QED
  BY <1>1, BaseHolds, PTL

----------------------------------------------------------------------------
(* What the verifier sees *)

\* The events of a log, by month and line.
LEMMA EventsAre ==
  ASSUME NEW L, DOMAIN L = Months
  PROVE  /\ \A m, i : <<m, i>> \in Events(L) <=> m \in Months /\ i \in 1..Len(Lines(L, m)) /\ L[m][i].kind = "event"
         /\ \A x \in Events(L) : x = <<x[1], x[2]>>
<1> DEFINE in(m) == {<<m, i>> : i \in {j \in 1..Len(Lines(L, m)) : L[m][j].kind = "event"}}
<1>1. Events(L) = UNION {in(m) : m \in Months}
  BY DEF Events
<1>2. \A x : x \in Events(L) <=> \E m \in Months : x \in in(m)
  BY <1>1
<1>3. \A x, m : x \in in(m) <=> \E i \in 1..Len(Lines(L, m)) : L[m][i].kind = "event" /\ x = <<m, i>>
  OBVIOUS
<1> HIDE DEF in
<1>4. \A m, i, n, j : <<m, i>> = <<n, j>> => m = n /\ i = j
  OBVIOUS
<1>5. \A m, i : <<m, i>> \in Events(L) <=> m \in Months /\ i \in 1..Len(Lines(L, m)) /\ L[m][i].kind = "event"
  BY <1>2, <1>3, <1>4
<1>6. \A x \in Events(L) : x = <<x[1], x[2]>>
  BY <1>2, <1>3
<1> QED
  BY <1>5, <1>6

\* Those of the log as it is, and their order.
LEMMA OrderIs ==
  ASSUME HistoryTypes
  PROVE  /\ \A m, i : <<m, i>> \in Events(log) <=> Ev(m, i)
         /\ \A x \in Events(log) : Ev(x[1], x[2]) /\ x = <<x[1], x[2]>> /\ At(log, x) = log[x[1]][x[2]]
                                   /\ x[1] \in Nat /\ x[2] \in Nat /\ At(log, x) \in Line
         /\ \A x, y \in Events(log) : /\ x = y \/ Before(x, y) \/ Before(y, x)
                                      /\ ~(Before(x, y) /\ Before(y, x)) /\ ~Before(x, x)
         /\ \A x, y, z \in Events(log) : Before(x, y) /\ Before(y, z) => Before(x, z)
<1>1. DOMAIN log = Months
  BY DEF HistoryTypes
<1>2. \A m, i : <<m, i>> \in Events(log) <=> Ev(m, i)
  BY <1>1, EventsAre DEF Ev, Size
<1>3. \A x \in Events(log) : x = <<x[1], x[2]>>
  BY <1>1, EventsAre
<1>4. \A x \in Events(log) : Ev(x[1], x[2])
  BY <1>2, <1>3
<1>5. \A m, i : Ev(m, i) => m \in Nat /\ i \in Nat /\ log[m][i] \in Line
  BY LinesTyped DEF Ev, Months
<1>6. \A x \in Events(log) : x[1] \in Nat /\ x[2] \in Nat /\ At(log, x) = log[x[1]][x[2]] /\ At(log, x) \in Line
  BY <1>4, <1>5 DEF At
<1>7. ASSUME NEW x \in Events(log), NEW y \in Events(log)
      PROVE  /\ x = y \/ Before(x, y) \/ Before(y, x)
             /\ ~(Before(x, y) /\ Before(y, x)) /\ ~Before(x, x)
  <2>1. x[1] \in Nat /\ x[2] \in Nat /\ y[1] \in Nat /\ y[2] \in Nat
    BY <1>6
  <2>2. x[1] = y[1] /\ x[2] = y[2] => x = y
    BY <1>3
  <2> QED
    BY <2>1, <2>2 DEF Before
<1>8. ASSUME NEW x \in Events(log), NEW y \in Events(log), NEW z \in Events(log), Before(x, y), Before(y, z)
      PROVE  Before(x, z)
  BY <1>6, <1>8 DEF Before
<1> QED
  BY <1>2, <1>3, <1>4, <1>6, <1>7, <1>8

\* The last of some events.
LEMMA LastIs ==
  ASSUME HistoryTypes, NEW S \in SUBSET Events(log), NEW x \in S, \A y \in S \ {x} : Before(y, x)
  PROVE  Last(S) = x
<1> DEFINE w == Last(S)
<1>1. w \in S /\ \A y \in S \ {w} : Before(y, w)
  BY DEF Last
<1> HIDE DEF w
<1>2. w = x
  BY <1>1, OrderIs
<1> QED
  BY <1>2 DEF w

\* An event that is not the last is the last before some other.
LEMMA NextIs ==
  ASSUME HistoryTypes, NEW x \in Events(log), NEW z \in Events(log), Before(x, z)
  PROVE  \E y \in Events(log) : Before(x, y) /\ x \in Earlier(log, y) /\ Last(Earlier(log, y)) = x
<1> DEFINE after == {y \in Events(log) : Before(x, y)}
           ms == {y[1] : y \in after}
<1>1. ms \in SUBSET Nat /\ ms # {}
  BY OrderIs
<1>2. PICK m \in ms : \A n \in ms : m <= n
  BY <1>1, Least
<1> DEFINE is == {y[2] : y \in {v \in after : v[1] = m}}
<1>3. is \in SUBSET Nat /\ is # {}
  BY OrderIs
<1>4. PICK i \in is : \A j \in is : i <= j
  BY <1>3, Least
<1>5. PICK y \in after : y[1] = m /\ y[2] = i
  OBVIOUS
<1>6. \A v \in after : m <= v[1] /\ (v[1] = m => i <= v[2])
  BY <1>2, <1>4
<1>7. y \in Events(log) /\ Before(x, y) /\ x \in Earlier(log, y)
  BY <1>5 DEF Earlier
<1>8. ASSUME NEW v \in Earlier(log, y) \ {x} PROVE Before(v, x)
  <2>1. v \in Events(log) /\ Before(v, y)
    BY <1>8 DEF Earlier
  <2>2. v[1] \in Nat /\ v[2] \in Nat /\ y[1] \in Nat /\ y[2] \in Nat
    BY <1>7, <2>1, OrderIs
  <2>3. v \notin after
    BY <1>5, <1>6, <2>1, <2>2 DEF Before
  <2> QED
    BY <1>8, <2>1, <2>3, OrderIs
<1>9. Earlier(log, y) \in SUBSET Events(log)
  BY DEF Earlier
<1>10. Last(Earlier(log, y)) = x
  BY <1>7, <1>8, <1>9, LastIs
<1> QED
  BY <1>7, <1>10

\* A log that verifies names, in every event but the first, the one before it.
LEMMA LinksBack ==
  ASSUME HistoryTypes, Verified(log), NEW y \in Events(log), Earlier(log, y) # {}
  PROVE  At(log, y).prev # Null /\ At(log, y).prev = At(log, Last(Earlier(log, y))).id
<1>1. Gaps(log) = {} /\ Mismatched(log) = {}
  BY DEF Verified
<1>2. \A z \in Events(log) : Earlier(log, z) # {} => At(log, z).prev # Null
  BY <1>1 DEF Gaps
<1>3. At(log, y).prev \in {Null, At(log, Last(Earlier(log, y))).id, At(log, BeforeGap(log, y)).id}
  BY <1>1 DEF Mismatched
<1>4. {z \in Earlier(log, y) : Earlier(log, z) = {} \/ At(log, z).prev # Null} = Earlier(log, y)
  <2>1. \A z \in Earlier(log, y) : Earlier(log, z) = {} \/ At(log, z).prev # Null
    BY <1>2 DEF Earlier
  <2> QED
    BY <2>1
<1>5. BeforeGap(log, y) = Last(Earlier(log, y))
  BY <1>4 DEF BeforeGap
<1> QED
  BY <1>2, <1>3, <1>5

\* What is left of a log without one of its events: every other one.
LEMMA WithoutIs ==
  ASSUME HistoryTypes, NEW x \in Events(log)
  PROVE  /\ \A y \in Events(log) : y # x =>
              \E v \in Events(Without(x)) : At(Without(x), v) = At(log, y)
         /\ \A v \in Events(Without(x)) : \E y \in Events(log) : y # x /\ At(Without(x), v) = At(log, y)
<1> DEFINE L == Without(x)
<1>1. PICK m \in Months, i \in Nat : x = <<m, i>> /\ x[1] = m /\ x[2] = i /\ Ev(m, i)
  BY OrderIs DEF Ev
<1>2. /\ log[m] # NoFile /\ log[m] \in Seq(Line) /\ i \in 1..Len(log[m]) /\ Size(m) = Len(log[m])
  BY <1>1, LinesTyped DEF Ev
<1> DEFINE s == log[m]
           a == SubSeq(s, 1, i - 1)
           b == SubSeq(s, i + 1, Len(s))
           r == a \o b
<1>3. /\ a \in Seq(Line) /\ Len(a) = i - 1 /\ (\A k \in 1..(i - 1) : a[k] = s[k])
      /\ b \in Seq(Line) /\ Len(b) = Len(s) - i /\ (\A k \in 1..(Len(s) - i) : b[k] = s[k + i])
      /\ Len(s) \in Nat /\ i \in 1..Len(s)
  BY <1>2
<1>4. L = [log EXCEPT ![m] = r]
  BY <1>1 DEF Without
<1> HIDE DEF a, b, s
<1>5. r \in Seq(Line) /\ Len(r) = Len(s) - 1
  <2>1. r \in Seq(Line) /\ Len(r) = Len(a) + Len(b)
    BY <1>3, JoinIs
  <2> QED
    BY <1>3, <2>1
<1>6. ASSUME NEW k \in 1..Len(r) PROVE IF k < i THEN r[k] = s[k] ELSE r[k] = s[k + 1]
  <2>1. CASE k < i
    <3>1. k \in 1..Len(a)
      BY <1>3, <1>5, <2>1
    <3>2. r[k] = a[k]
      BY <1>3, <3>1, JoinIs
    <3> QED
      BY <1>3, <2>1, <3>1, <3>2
  <2>2. CASE ~(k < i)
    <3>1. k \notin 1..Len(a)
      BY <1>3, <1>5, <2>2
    <3>2. k - Len(a) \in 1..Len(b) /\ r[k] = b[k - Len(a)]
      BY <1>3, <3>1, JoinIs
    <3>3. b[k - Len(a)] = s[k - Len(a) + i] /\ k - Len(a) + i = k + 1
      BY <1>3, <1>5, <3>2
    <3> QED
      BY <2>2, <3>2, <3>3
  <2> QED
    BY <2>1, <2>2
<1> HIDE DEF r
<1>7. /\ DOMAIN L = Months /\ L[m] = r /\ r # NoFile /\ \A n \in Months \ {m} : L[n] = log[n]
  BY <1>4, <1>5, FileAssumption DEF HistoryTypes
<1> HIDE DEF L
<1>8. /\ \A n, j : <<n, j>> \in Events(L) <=> n \in Months /\ j \in 1..Len(Lines(L, n)) /\ L[n][j].kind = "event"
      /\ \A v \in Events(L) : v = <<v[1], v[2]>>
  BY <1>7, EventsAre
<1>9. Len(Lines(L, m)) = Len(s) - 1 /\ \A n \in Months \ {m} : Len(Lines(L, n)) = Size(n)
  BY <1>5, <1>7 DEF Lines, Size
<1>10. \A n, j : n # m => (<<n, j>> \in Events(L) <=> <<n, j>> \in Events(log))
  <2>1. \A n \in Months \ {m} : \A j : <<n, j>> \in Events(L) <=> Ev(n, j)
    <3> TAKE n \in Months \ {m}
    <3> TAKE j
    <3>1. L[n] = log[n] /\ Len(Lines(L, n)) = Size(n) /\ n \in Months
      BY <1>7, <1>9
    <3>2. <<n, j>> \in Events(L) <=> n \in Months /\ j \in 1..Len(Lines(L, n)) /\ L[n][j].kind = "event"
      BY <1>8
    <3> QED
      BY <3>1, <3>2 DEF Ev
  <2> QED
    BY <1>8, <2>1, OrderIs DEF Ev
<1>11. \A j : <<m, j>> \in Events(L) <=> j \in 1..(Len(s) - 1) /\ r[j].kind = "event"
  BY <1>7, <1>8, <1>9
<1>12. \A j : <<m, j>> \in Events(log) <=> j \in 1..Len(s) /\ s[j].kind = "event"
  BY <1>2, OrderIs DEF Ev, s
<1>13. ASSUME NEW y \in Events(log), y # x PROVE \E v \in Events(L) : At(L, v) = At(log, y)
  <2>1. PICK n, j : y = <<n, j>> /\ y[1] = n /\ y[2] = j
    BY OrderIs
  <2>2. CASE n # m
    <3>1. y \in Events(L) /\ n \in Months
      BY <1>10, <2>1, <2>2, OrderIs DEF Ev
    <3>2. At(L, y) = At(log, y)
      BY <1>7, <2>1, <2>2, <3>1 DEF At
    <3> QED
      BY <3>1, <3>2
  <2>3. CASE n = m
    <3>1. j \in 1..Len(s) /\ s[j].kind = "event" /\ j # i
      BY <1>1, <1>12, <1>13, <2>1, <2>3
    <3> DEFINE k == IF j < i THEN j ELSE j - 1
    <3>2. k \in 1..(Len(s) - 1) /\ r[k] = s[j]
      <4>1. k \in 1..Len(r) /\ k \in 1..(Len(s) - 1) /\ (k < i => k = j) /\ (~(k < i) => k + 1 = j)
        BY <1>3, <1>5, <3>1
      <4> HIDE DEF k
      <4>2. IF k < i THEN r[k] = s[k] ELSE r[k] = s[k + 1]
        BY <1>6, <4>1
      <4> QED
        BY <4>1, <4>2
    <3>3. <<m, k>> \in Events(L)
      BY <1>11, <3>1, <3>2
    <3>4. At(L, <<m, k>>) = r[k] /\ At(log, y) = s[j]
      BY <1>7, <2>1, <2>3 DEF At, s
    <3> QED
      BY <3>2, <3>3, <3>4
  <2> QED
    BY <2>2, <2>3
<1>14. ASSUME NEW v \in Events(L) PROVE \E y \in Events(log) : y # x /\ At(L, v) = At(log, y)
  <2>1. PICK n, j : v = <<n, j>> /\ v[1] = n /\ v[2] = j
    BY <1>8
  <2>2. CASE n # m
    <3>1. v \in Events(log) /\ n \in Months
      BY <1>10, <2>1, <2>2, OrderIs DEF Ev
    <3>2. At(L, v) = At(log, v) /\ v # x
      BY <1>1, <1>7, <2>1, <2>2, <3>1 DEF At
    <3> QED
      BY <3>1, <3>2
  <2>3. CASE n = m
    <3>1. j \in 1..(Len(s) - 1) /\ r[j].kind = "event"
      BY <1>11, <2>1, <2>3
    <3> DEFINE k == IF j < i THEN j ELSE j + 1
    <3>2. k \in 1..Len(s) /\ k # i /\ r[j] = s[k]
      BY <1>1, <1>3, <1>5, <1>6, <3>1
    <3>3. <<m, k>> \in Events(log)
      BY <1>12, <3>1, <3>2
    <3>4. At(L, v) = r[j] /\ At(log, <<m, k>>) = s[k] /\ <<m, k>> # x
      BY <1>1, <1>7, <2>1, <2>3, <3>2 DEF At, s
    <3> QED
      BY <3>2, <3>3, <3>4
  <2> QED
    BY <2>2, <2>3
<1> QED
  BY <1>13, <1>14 DEF L

\* Whoever loses an event of a log that verifies, but the last, is found out: the one after it
\* then names an event that is not there.
LEMMA RemovalDangles ==
  ASSUME HistoryTypes, Unique
  PROVE  RemovalShows
<1> SUFFICES ASSUME Verified(log), NEW x \in Events(log), NEW z \in Events(log), Before(x, z)
             PROVE  ~Verified(Without(x))
  BY DEF RemovalShows
<1>1. PICK y \in Events(log) : Before(x, y) /\ x \in Earlier(log, y) /\ Last(Earlier(log, y)) = x
  BY NextIs
<1>2. At(log, y).prev # Null /\ At(log, y).prev = At(log, x).id /\ y # x
  BY <1>1, LinksBack, OrderIs
<1>3. PICK v \in Events(Without(x)) : At(Without(x), v) = At(log, y)
  BY <1>2, WithoutIs
<1>4. ASSUME NEW w \in Events(Without(x)) PROVE At(Without(x), w).id # At(log, x).id
  <2>1. PICK u \in Events(log) : u # x /\ At(Without(x), w) = At(log, u)
    BY WithoutIs
  <2>2. /\ Ev(u[1], u[2]) /\ Ev(x[1], x[2]) /\ u = <<u[1], u[2]>> /\ x = <<x[1], x[2]>>
        /\ At(log, u) = log[u[1]][u[2]] /\ At(log, x) = log[x[1]][x[2]]
    BY OrderIs
  <2>3. log[u[1]][u[2]].id = log[x[1]][x[2]].id => u[1] = x[1] /\ u[2] = x[2]
    BY <2>2 DEF Unique, Ev
  <2> QED
    BY <2>1, <2>2, <2>3
<1>5. v \in Dangling(Without(x))
  BY <1>2, <1>3, <1>4 DEF Dangling
<1> QED
  BY <1>5 DEF Verified

\* Removing any event of a log that verifies, but the last, leaves a log that does not.
THEOREM RemovalIsFound == Spec => []RemovalShows
<1>1. Base => RemovalShows
  BY RemovalDangles DEF Base
<1> QED
  BY <1>1, BaseHolds, PTL

----------------------------------------------------------------------------
(* The chain *)

\* What Base says of the next state.
LEMMA LinesTypedAfter ==
  HistoryTypes' => \A m \in Months : /\ Size(m)' \in Nat
                                     /\ \A i : Ev(m, i)' => i \in 1..Size(m)' /\ log'[m][i] \in Line
<1>1. HistoryTypes => \A m \in Months : Size(m) \in Nat /\ \A i : Ev(m, i) => i \in 1..Size(m) /\ log[m][i] \in Line
  BY LinesTyped DEF Ev
<1>2. (HistoryTypes => \A m \in Months : Size(m) \in Nat /\ \A i : Ev(m, i) => i \in 1..Size(m) /\ log[m][i] \in Line)'
  BY <1>1, PTL
<1> QED
  BY <1>2

\* An append without the lock is one event, and the first month is all there is.
LEMMA GapPlaced ==
  ASSUME Base, Covered, Clean, bare > 0, \A p \in Procs : pc[p] = "truncate" => torn
  PROVE  (\A p \in Procs : Placed(p)) /\ now = 1 /\ ~torn /\ \A m \in Months : ~EndsMidLine(m)
<1>1. ~torn /\ now = 1
  BY DEF Covered
<1>2. \A m \in Months : ~EndsMidLine(m)
  <2> TAKE m \in Months
  <2>1. Size(m) \in Nat
    BY LinesTyped DEF Base
  <2>2. Size(m) > 0 => log[m][Size(m)].kind # "torn"
    BY <1>1, <2>1 DEF Clean
  <2> QED
    BY <2>2 DEF EndsMidLine
<1>3. \A p \in Procs : file[p] \in Months /\ file[p] <= 1
  BY <1>1 DEF Base, HistoryTypes, Locking
<1>4. \A m \in Months : m > 1 => Size(m) = 0
  <2>1. \A m \in Months : m > 1 => log[m] = NoFile
    BY <1>1 DEF Base, Locking, Months
  <2> QED
    BY <2>1, LinesTyped DEF Base
<1>5. \A p \in Procs : \A n \in Months : n > file[p] => Size(n) = 0
  BY <1>3, <1>4 DEF Months
<1>6. \A p \in Procs : pc[p] # "truncate"
  BY <1>1
<1> QED
  BY <1>1, <1>2, <1>3, <1>5, <1>6 DEF Placed

\* The same of the next state.
LEMMA GapPlacedAfter ==
  Base' /\ Covered' /\ Clean' /\ bare' > 0 /\ (\A p \in Procs : pc'[p] = "truncate" => torn')
    => (\A p \in Procs : Placed(p)') /\ now' = 1 /\ ~torn' /\ \A m \in Months : ~EndsMidLine(m)'
<1>1. Base /\ Covered /\ Clean /\ bare > 0 /\ (\A p \in Procs : pc[p] = "truncate" => torn)
        => (\A p \in Procs : Placed(p)) /\ now = 1 /\ ~torn /\ \A m \in Months : ~EndsMidLine(m)
  BY GapPlaced
<1>2. (Base /\ Covered /\ Clean /\ bare > 0 /\ (\A p \in Procs : pc[p] = "truncate" => torn)
        => (\A p \in Procs : Placed(p)) /\ now = 1 /\ ~torn /\ \A m \in Months : ~EndsMidLine(m))'
  BY <1>1, PTL
<1> QED
  BY <1>2

\* Once it is not covered, a log stays so.
LEMMA Backwards ==
  ASSUME Base, Next
  PROVE  /\ bare' >= bare /\ now' >= now /\ (torn => torn') /\ (hollow => hollow') /\ now' \in Nat /\ bare' \in Nat
         /\ Covered' => Covered
         /\ Strict' => Strict
<1> USE DEF history, caches, scratch
<1>0. bare \in Nat /\ now \in Nat /\ bare' \in Nat /\ now' \in Nat /\ now >= 1 /\ MaxMonth \in Nat
  BY TypesStep, HistoryAssumption DEF Base, HistoryTypes, Months
<1>1. ASSUME NEW p \in Procs, Step(p) \/ Begin(p)
      PROVE  bare' >= bare /\ now' = now /\ torn' = torn /\ hollow' = hollow
  <2>1. \A q \in Procs : Len(batch[q]) \in Nat
    BY DEF Base, HistoryTypes
  <2>2. CASE Miss(p)
    BY <1>0, <2>1, <2>2 DEF Miss
  <2>3. CASE ~Miss(p)
    <3>1. bare' = bare /\ now' = now /\ torn' = torn /\ hollow' = hollow
      BY <1>1, <2>3 DEF Step, Begin, Lock, Drop, Truncate, Find, Write, Record, Unlock, GapWrite, Invalidate
    <3> QED
      BY <1>0, <3>1
  <2> QED
    BY <2>2, <2>3
<1>2. ASSUME NEW p \in Procs, Crash(p) \/ CrashInWrite(p)
      PROVE  bare' >= bare /\ now' >= now /\ (torn => torn') /\ (hollow => hollow')
  <2>1. bare' = bare /\ now' = now
    BY <1>2 DEF Crash, CrashInWrite, Dies
  <2>2. Crash(p) => (torn => torn') /\ (hollow => hollow')
    BY DEF Crash
  <2>3. CrashInWrite(p) => (torn => torn') /\ (hollow => hollow')
    BY Zenon DEF CrashInWrite
  <2> QED
    BY <1>0, <1>2, <2>1, <2>2, <2>3
<1>3. ASSUME Tick PROVE bare' >= bare /\ now' >= now /\ torn' = torn /\ hollow' = hollow
  BY <1>0, <1>3 DEF Tick
<1>4. bare' >= bare /\ now' >= now /\ (torn => torn') /\ (hollow => hollow')
  BY <1>0, <1>1, <1>2, <1>3 DEF Next
<1>5. Covered' => Covered
  BY <1>0, <1>4 DEF Covered
<1>6. Strict' => Strict
  BY <1>0, <1>4 DEF Strict
<1> QED
  BY <1>0, <1>4, <1>5, <1>6

\* The events that are there, and nothing else, stay there.
Same == \A m \in Months : \A i : (Ev(m, i)' <=> Ev(m, i)) /\ (Ev(m, i) => log'[m][i] = log[m][i])

\* Then the chain is still one, and who leads it leads it still.
LEMMA SameIs ==
  ASSUME Same
  PROVE  /\ Chain => Chain'
         /\ \A e : Logged(e) => Logged(e)'
         /\ \A m, i : Leads(m, i) => Leads(m, i)'
         /\ \A h \in Heads : HeadOK(h) => HeadOK(h)'
<1>1. \A m, i : Ev(m, i) => m \in Months /\ i \in 1..Size(m)
  BY DEF Ev
<1>2. \A m, i : Ev(m, i)' => m \in Months /\ i \in 1..Size(m)'
  BY DEF Ev
<1>3. \A m, i : (Ev(m, i)' <=> Ev(m, i)) /\ (Ev(m, i) => log'[m][i] = log[m][i])
  BY <1>1, <1>2 DEF Same
<1>4. \A m, i : Leads(m, i) => Leads(m, i)'
  BY <1>2, <1>1, <1>3 DEF Leads
<1>5. \A e : Logged(e) => Logged(e)'
  BY <1>2, <1>1, <1>3 DEF Logged
<1>6. ASSUME NEW h \in Heads, HeadOK(h) PROVE HeadOK(h)'
  <2>1. Ev(h.file, h.size) /\ Ev(h.file, h.size)' /\ h.size \in 1..Size(h.file)'
    BY <1>2, <1>3, <1>6 DEF HeadOK
  <2>2. PICK i \in 1..h.size : /\ Ev(h.file, i) /\ log[h.file][i].id = h.id
                               /\ \A j \in 1..h.size : i < j /\ Ev(h.file, j) => log[h.file][j].prev = Null
    BY <1>6 DEF HeadOK
  <2>3. /\ Ev(h.file, i)' /\ log'[h.file][i].id = h.id
        /\ \A j \in 1..h.size : i < j /\ Ev(h.file, j)' => log'[h.file][j].prev = Null
    BY <1>3, <2>2
  <2> QED
    BY <2>1, <2>3 DEF HeadOK
<1>7. ASSUME Chain PROVE Chain'
  <2>1. ASSUME NEW m \in Months, NEW i, Ev(m, i)', log'[m][i].prev # Null
        PROVE  \E n \in Months : \E j \in 1..Size(n)' : Follows(m, i, n, j)'
    <3>1. Ev(m, i) /\ log[m][i].prev # Null /\ log'[m][i] = log[m][i] /\ i \in 1..Size(m)
      BY <1>1, <1>3, <2>1
    <3>2. PICK n \in Months : \E j \in 1..Size(n) : Follows(m, i, n, j)
      BY <1>7, <3>1 DEF Chain
    <3>3. PICK j \in 1..Size(n) : Follows(m, i, n, j)
      BY <3>2
    <3>4. Ev(n, j)' /\ log'[n][j].id = log'[m][i].prev /\ j \in 1..Size(n)'
      BY <1>2, <1>3, <3>1, <3>3 DEF Follows
    <3>5. \A k \in Months : \A l \in 1..Size(k)' :
            Ev(k, l)' /\ Later(k, l, n, j) /\ Later(m, i, k, l) => log'[k][l].prev = Null
      BY <1>1, <1>3, <3>3 DEF Follows
    <3>6. Later(m, i, n, j)
      BY <3>3 DEF Follows
    <3>7. Follows(m, i, n, j)'
      BY <3>4, <3>5, <3>6 DEF Follows, Later
    <3> QED
      BY <3>4, <3>7
  <2> QED
    BY <2>1 DEF Chain
<1> QED
  BY <1>4, <1>5, <1>6, <1>7

\* An append to the end of the log: the events that were there stay, and its own follow them.
More(f, ls) ==
  /\ Len(ls) \in Nat /\ Size(f) \in Nat /\ Size(f)' = Size(f) + Len(ls)
  /\ \A m, i : Ev(m, i) => Ev(m, i)' /\ log'[m][i] = log[m][i] /\ m \in Nat /\ i \in Nat /\ m <= f /\ (m = f => i <= Size(f))
  /\ \A m, i : Ev(m, i)' => \/ Ev(m, i)
                            \/ m = f /\ i \in Nat /\ i > Size(f) /\ i - Size(f) \in 1..Len(ls) /\ log'[f][i] = ls[i - Size(f)]
  /\ \A k \in 1..Len(ls) : \A i : i = Size(f) + k => log'[f][i] = ls[k] /\ (ls[k].kind = "event" => Ev(f, i)')

\* An append after whole lines, with no later events, is to the end of the log.
LEMMA MoreIs ==
  ASSUME HistoryTypes, NEW p \in Procs, NEW f \in Months, f = file[p], ~EndsMidLine(f),
         \A n \in Months : n > f => Size(n) = 0, NEW newline, NEW ls, Adds(p, newline, ls)
  PROVE  More(f, ls) /\ \A n \in Months \ {f} : Size(n)' = Size(n) /\ log'[n] = log[n]
<1>1. newline \in BOOLEAN /\ ls \in Seq(Line) /\ log' = [log EXCEPT ![f] = Appended(f, newline, ls)] /\ Len(ls) \in Nat
  BY DEF Adds
<1>2. /\ Size(f)' = Size(f) + Len(ls)
      /\ \A i \in 1..Size(f) : log'[f][i] = log[f][i]
      /\ \A k \in 1..Len(ls) : log'[f][Size(f) + k] = ls[k]
      /\ \A n \in Months \ {f} : log'[n] = log[n] /\ Size(n)' = Size(n)
  BY <1>1, Grown
<1>3. \A m \in Months : Size(m) \in Nat /\ m \in Nat
  BY LinesTyped DEF Months
<1>4. ASSUME NEW m, NEW i, Ev(m, i)
      PROVE  Ev(m, i)' /\ log'[m][i] = log[m][i] /\ m \in Nat /\ i \in Nat /\ m <= f /\ (m = f => i <= Size(f))
  <2>1. m \in Months /\ i \in 1..Size(m) /\ log[m][i].kind = "event" /\ m \in Nat /\ Size(m) \in Nat
    BY <1>3, <1>4 DEF Ev
  <2>2. m <= f
    BY <1>3, <2>1
  <2>3. CASE m = f
    <3>1. i \in 1..Size(f)' /\ log'[m][i] = log[m][i]
      BY <1>1, <1>2, <2>1, <2>3
    <3> QED
      BY <2>1, <2>2, <2>3, <3>1 DEF Ev
  <2>4. CASE m # f
    <3>1. i \in 1..Size(m)' /\ log'[m][i] = log[m][i]
      BY <1>2, <2>1, <2>4
    <3> QED
      BY <2>1, <2>2, <2>4, <3>1 DEF Ev
  <2> QED
    BY <2>3, <2>4
<1>5. ASSUME NEW m, NEW i, Ev(m, i)', ~Ev(m, i)
      PROVE  m = f /\ i \in Nat /\ i > Size(f) /\ i - Size(f) \in 1..Len(ls) /\ log'[f][i] = ls[i - Size(f)]
  <2>1. m \in Months /\ i \in 1..Size(m)' /\ log'[m][i].kind = "event"
    BY <1>5 DEF Ev
  <2>2. m = f
    BY <1>2, <1>5, <2>1 DEF Ev
  <2>3. i \in 1..(Size(f) + Len(ls))
    BY <1>2, <2>1, <2>2
  <2>4. i \notin 1..Size(f)
    BY <1>2, <1>5, <2>1, <2>2 DEF Ev
  <2>5. i \in Nat /\ i > Size(f) /\ i - Size(f) \in 1..Len(ls) /\ Size(f) + (i - Size(f)) = i
    BY <1>1, <1>3, <2>3, <2>4
  <2>6. log'[f][Size(f) + (i - Size(f))] = ls[i - Size(f)]
    BY <1>2, <2>5
  <2> QED
    BY <2>2, <2>5, <2>6
<1>6. ASSUME NEW k \in 1..Len(ls), NEW i, i = Size(f) + k PROVE log'[f][i] = ls[k] /\ (ls[k].kind = "event" => Ev(f, i)')
  <2>1. i \in 1..(Size(f) + Len(ls))
    BY <1>1, <1>3, <1>6
  <2>2. i \in 1..Size(f)'
    BY <1>2, <2>1
  <2>3. log'[f][i] = ls[k]
    BY <1>2, <1>6
  <2> QED
    BY <2>2, <2>3 DEF Ev
<1> QED
  BY <1>1, <1>2, <1>3, <1>4, <1>5, <1>6 DEF More

\* What was in the log is there, and a remembered head is still one.
LEMMA MoreKeeps ==
  ASSUME NEW f \in Months, NEW ls, More(f, ls)
  PROVE  /\ \A e : Logged(e) => Logged(e)'
         /\ \A h \in Heads : HeadOK(h) => HeadOK(h)'
<1>1. \A m, i : Ev(m, i) => m \in Months /\ i \in 1..Size(m)
  BY DEF Ev
<1>2. \A m, i : Ev(m, i)' => m \in Months /\ i \in 1..Size(m)'
  BY DEF Ev
<1>3. \A m, i : Ev(m, i) => Ev(m, i)' /\ log'[m][i] = log[m][i]
  BY DEF More
<1>4. \A e : Logged(e) => Logged(e)'
  BY <1>1, <1>2, <1>3 DEF Logged
<1>5. ASSUME NEW h \in Heads, HeadOK(h) PROVE HeadOK(h)'
  <2>1. Ev(h.file, h.size) /\ Ev(h.file, h.size)' /\ h.size \in 1..Size(h.file)' /\ h.size \in 1..Size(h.file)
    BY <1>1, <1>2, <1>3, <1>5 DEF HeadOK
  <2>2. PICK i \in 1..h.size : /\ Ev(h.file, i) /\ log[h.file][i].id = h.id
                               /\ \A j \in 1..h.size : i < j /\ Ev(h.file, j) => log[h.file][j].prev = Null
    BY <1>5 DEF HeadOK
  <2>3. ASSUME NEW j \in 1..h.size, Ev(h.file, j)' PROVE Ev(h.file, j)
    <3>1. h.size \in Nat /\ j \in Nat /\ j <= h.size
      BY DEF Heads
    <3>2. h.file = f => h.size <= Size(f) /\ Size(f) \in Nat
      BY <2>1 DEF More
    <3>3. ~(h.file = f /\ j > Size(f))
      BY <3>1, <3>2
    <3> QED
      BY <2>3, <3>3 DEF More
  <2>4. /\ Ev(h.file, i)' /\ log'[h.file][i].id = h.id
        /\ \A j \in 1..h.size : i < j /\ Ev(h.file, j)' => log'[h.file][j].prev = Null
    BY <1>3, <2>2, <2>3
  <2> QED
    BY <2>1, <2>4 DEF HeadOK
<1> QED
  BY <1>4, <1>5

\* An append whose first event leads on from the log, and each other one from the one before it.
LEMMA MoreChain ==
  ASSUME HistoryTypes, Chain, NEW f \in Months, NEW ls, More(f, ls), NEW b, NEW x, Len(ls) <= Len(b),
         \A k \in 1..Len(ls) : \/ ls[k].kind = "event" /\ ls[k].id = b[k] /\ ls[k].prev = IF k = 1 THEN x ELSE b[k - 1]
                               \/ ls[k].kind # "event" /\ k = Len(ls),
         x # Null => \E m \in Months : \E i \in 1..Size(m) : Leads(m, i) /\ log[m][i].id = x
  PROVE  Chain'
<1>1. \A m, i : Ev(m, i) => m \in Months /\ i \in 1..Size(m)
  BY DEF Ev
<1>2. \A m, i : Ev(m, i)' => m \in Months /\ i \in 1..Size(m)'
  BY DEF Ev
<1>3. /\ Len(ls) \in Nat /\ Size(f) \in Nat
      /\ \A m, i : Ev(m, i) => Ev(m, i)' /\ log'[m][i] = log[m][i] /\ m \in Nat /\ i \in Nat /\ m <= f /\ (m = f => i <= Size(f))
      /\ \A m, i : Ev(m, i)' => \/ Ev(m, i)
                                \/ m = f /\ i \in Nat /\ i > Size(f) /\ i - Size(f) \in 1..Len(ls) /\ log'[f][i] = ls[i - Size(f)]
      /\ \A k \in 1..Len(ls) : \A i : i = Size(f) + k => log'[f][i] = ls[k] /\ (ls[k].kind = "event" => Ev(f, i)')
  BY DEF More
<1>4. \A m \in Months : m \in Nat
  BY DEF Months
<1>5. ASSUME NEW m, NEW i, Ev(m, i), log[m][i].prev # Null
      PROVE  \E n \in Months : \E j \in 1..Size(n)' : Follows(m, i, n, j)'
  <2>1. PICK n \in Months : \E j \in 1..Size(n) : Follows(m, i, n, j)
    BY <1>1, <1>5 DEF Chain
  <2>2. PICK j \in 1..Size(n) : Follows(m, i, n, j)
    BY <2>1
  <2>3. Ev(n, j) /\ Later(m, i, n, j) /\ log[n][j].id = log[m][i].prev
    BY <2>2 DEF Follows
  <2>4. ASSUME NEW k, NEW l, Ev(k, l)', Later(k, l, n, j), Later(m, i, k, l) PROVE log'[k][l].prev = Null
    <3>1. m \in Nat /\ i \in Nat /\ m <= f /\ (m = f => i <= Size(f)) /\ f \in Nat /\ Size(f) \in Nat
      BY <1>3, <1>4, <1>5
    <3>2. ~(k = f /\ l > Size(f) /\ l \in Nat)
      BY <2>4, <3>1 DEF Later
    <3>3. Ev(k, l)
      BY <1>3, <2>4, <3>2
    <3>4. k \in Months /\ l \in 1..Size(k) /\ log'[k][l] = log[k][l]
      BY <1>1, <1>3, <3>3
    <3>5. log[k][l].prev = Null
      BY <2>2, <2>4, <3>3, <3>4 DEF Follows
    <3> QED
      BY <3>4, <3>5
  <2>5. Ev(n, j)' /\ log'[n][j].id = log'[m][i].prev /\ j \in 1..Size(n)'
    BY <1>2, <1>3, <1>5, <2>3
  <2>6. Follows(m, i, n, j)'
    BY <2>3, <2>4, <2>5 DEF Follows, Later
  <2> QED
    BY <2>5, <2>6
<1>6. ASSUME NEW i, Ev(f, i)', i \in Nat, i > Size(f), i - Size(f) \in 1..Len(ls), log'[f][i] = ls[i - Size(f)],
             log'[f][i].prev # Null
      PROVE  \E n \in Months : \E j \in 1..Size(n)' : Follows(f, i, n, j)'
  <2>0. PICK k \in 1..Len(ls) : k = i - Size(f) /\ log'[f][i] = ls[k]
    BY <1>6
  <2>1. ls[k].kind = "event" /\ ls[k].prev = IF k = 1 THEN x ELSE b[k - 1]
    BY <1>6, <2>0 DEF Ev
  <2>v. i \in Nat /\ Size(f) \in Nat /\ i > Size(f) /\ Len(ls) \in Nat /\ k \in Nat /\ i = Size(f) + k
    BY <1>3, <1>6, <2>0
  <2>2. CASE k = 1
    <3>1. x # Null /\ ls[k].prev = x
      BY <1>6, <2>0, <2>1, <2>2
    <3>2. PICK n \in Months : \E j \in 1..Size(n) : Leads(n, j) /\ log[n][j].id = x
      BY <3>1
    <3>3. PICK j \in 1..Size(n) : Leads(n, j) /\ log[n][j].id = x
      BY <3>2
    <3>4. Ev(n, j) /\ Ev(n, j)' /\ log'[n][j] = log[n][j] /\ n <= f /\ (n = f => j <= Size(f)) /\ j \in Nat /\ n \in Nat /\ f \in Nat
      BY <1>3, <1>4, <3>3 DEF Leads
    <3>5. Later(f, i, n, j)
      BY <1>3, <1>6, <3>4 DEF Later
    <3>6. ASSUME NEW o, NEW l, Ev(o, l)', Later(o, l, n, j), Later(f, i, o, l) PROVE log'[o][l].prev = Null
      <4>1. i = Size(f) + 1
        BY <2>2, <2>v
      <4>2. ~(o = f /\ l \in Nat /\ l > Size(f))
        BY <1>3, <1>4, <3>6, <4>1 DEF Later
      <4>3. Ev(o, l)
        BY <1>3, <3>6, <4>2
      <4> QED
        BY <1>1, <1>3, <3>3, <3>6, <4>3 DEF Leads
    <3>7. j \in 1..Size(n)' /\ log'[n][j].id = log'[f][i].prev
      BY <1>2, <2>0, <3>1, <3>3, <3>4
    <3>8. Follows(f, i, n, j)'
      BY <3>4, <3>5, <3>6, <3>7 DEF Follows, Later
    <3> QED
      BY <3>7, <3>8
  <2>3. CASE k # 1
    <3>1. PICK v \in Nat : v = i - 1
      BY <2>v
    <3>5. k - 1 \in 1..Len(ls) /\ k - 1 # Len(ls) /\ v = Size(f) + (k - 1) /\ v < i /\ i = v + 1
      <4>1. k - 1 \in 1..Len(ls)
        BY <2>0, <2>3, <2>v
      <4>2. k - 1 # Len(ls)
        BY <2>0, <2>v
      <4>3. v < i /\ i = v + 1
        BY <2>v, <3>1
      <4>4. v = Size(f) + (k - 1)
        BY <2>v, <3>1
      <4> QED
        BY <4>1, <4>2, <4>3, <4>4
    <3>2. ls[k - 1].kind = "event" /\ ls[k - 1].id = b[k - 1]
      BY <3>5
    <3>3. ls[k].prev = b[k - 1]
      BY <2>1, <2>3
    <3>4. log'[f][i] = ls[k]
      BY <2>0
    <3>6. Ev(f, v)' /\ log'[f][v] = ls[k - 1]
      BY <1>3, <3>2, <3>5
    <3>7. Later(f, i, f, v)
      BY <2>v, <3>1, <3>5 DEF Later
    <3>8. \A o, l : Ev(o, l)' /\ Later(o, l, f, v) /\ Later(f, i, o, l) => FALSE
      <4>1. \A o, l : Ev(o, l)' => o \in Nat /\ l \in Nat
        <5> TAKE o, l
        <5> HAVE Ev(o, l)'
        <5>1. Ev(o, l) \/ (o = f /\ l \in Nat)
          BY <1>3
        <5> QED
          BY <1>3, <1>4, <5>1
      <4>2. i = v + 1 /\ v \in Nat /\ f \in Nat
        BY <1>4, <3>1, <3>5
      <4> QED
        BY <4>1, <4>2 DEF Later
    <3>9. v \in 1..Size(f)' /\ log'[f][v].id = log'[f][i].prev
      BY <1>2, <3>2, <3>3, <3>4, <3>6
    <3>10. Follows(f, i, f, v)'
      BY <3>6, <3>7, <3>8, <3>9 DEF Follows, Later
    <3> QED
      BY <3>9, <3>10
  <2> QED
    BY <2>2, <2>3
<1>7. ASSUME NEW m \in Months, NEW i, Ev(m, i)', log'[m][i].prev # Null
      PROVE  \E n \in Months : \E j \in 1..Size(n)' : Follows(m, i, n, j)'
  <2>1. CASE Ev(m, i)
    BY <1>3, <1>5, <1>7, <2>1
  <2>2. CASE ~Ev(m, i)
    BY <1>3, <1>6, <1>7, <2>2
  <2> QED
    BY <2>1, <2>2
<1> QED
  BY <1>7 DEF Chain

\* A declared gap leaves every leading event one.
LEMMA MoreGap ==
  ASSUME NEW f \in Months, NEW ls, More(f, ls), \A k \in 1..Len(ls) : ls[k].prev = Null
  PROVE  \A m, i : Leads(m, i) => Leads(m, i)'
<1>1. \A m, i : Ev(m, i) => m \in Months /\ i \in 1..Size(m)
  BY DEF Ev
<1>2. \A m, i : Ev(m, i)' => Ev(m, i) \/ log'[m][i].prev = Null
  BY DEF More
<1>3. \A m, i : Ev(m, i) => Ev(m, i)' /\ log'[m][i] = log[m][i]
  BY DEF More
<1> QED
  BY <1>1, <1>2, <1>3 DEF Leads

\* A predecessor that is not Null is an event that leads the log.
LEMMA PredecessorLeads ==
  ASSUME Base, CoveredLog, NEW p \in Procs, pc[p] = "find", Predecessor(p, file[p]) # Null
  PROVE  \E m \in Months : \E i \in 1..Size(m) : Leads(m, i) /\ log[m][i].id = Predecessor(p, file[p])
<1>1. PICK f \in Months : f = file[p]
  BY DEF Base, HistoryTypes
<1>2. \A m, i : Ev(m, i) => m \in Months /\ i \in 1..Size(m) /\ Size(m) \in Nat /\ m \in Nat
  BY LinesTyped DEF Ev, Base, Months
<1>3. \A n \in Months : n > f => Size(n) = 0
  BY <1>1 DEF CoveredLog, Knows, Placed
<1>4. ASSUME NEW h \in Heads, HeadOK(h), Holds(h, f)
      PROVE  \E m \in Months : \E i \in 1..Size(m) : Leads(m, i) /\ log[m][i].id = h.id
  <2>1. h.file = f /\ h.size = Size(f)
    BY <1>4 DEF Holds
  <2>2. PICK i \in 1..Size(f) : /\ Ev(f, i) /\ log[f][i].id = h.id
                                /\ \A j \in 1..Size(f) : i < j /\ Ev(f, j) => log[f][j].prev = Null
    BY <1>4, <2>1 DEF HeadOK
  <2>3. ASSUME NEW n \in Months, NEW j \in 1..Size(n), Ev(n, j), Later(n, j, f, i) PROVE log[n][j].prev = Null
    <3>1. n = f /\ i < j
      BY <1>2, <1>3, <2>3 DEF Later
    <3> QED
      BY <2>2, <2>3, <3>1
  <2>4. Leads(f, i)
    BY <2>2, <2>3 DEF Leads
  <2> QED
    BY <2>2, <2>4
<1>5. ASSUME NEW n \in Months, TailHash(n) # Null, \A k \in Months : k > n => Size(k) = 0
      PROVE  \E m \in Months : \E i \in 1..Size(m) : Leads(m, i) /\ log[m][i].id = TailHash(n)
  <2>1. Size(n) # 0 /\ Size(n) \in Nat /\ log[n][Size(n)].kind = "event" /\ TailHash(n) = log[n][Size(n)].id
    BY <1>5, LinesTyped DEF TailHash, Base
  <2>2. PICK i \in 1..Size(n) : i = Size(n)
    BY <2>1
  <2>3. Ev(n, i)
    BY <2>1, <2>2 DEF Ev
  <2>4. \A k \in Months : \A j \in 1..Size(k) : Ev(k, j) => ~Later(k, j, n, i)
    BY <1>2, <1>5, <2>2 DEF Later
  <2>5. Leads(n, i)
    BY <2>3, <2>4 DEF Leads
  <2> QED
    BY <2>1, <2>2, <2>5
<1> DEFINE x == Predecessor(p, f)
<1>6. CASE mem[p] \in Heads /\ Holds(mem[p], f) /\ x = mem[p].id
  <2>1. HeadOK(mem[p])
    BY <1>6 DEF CoveredLog, Knows, Remembered, Holds
  <2> QED
    BY <1>1, <1>4, <1>6, <2>1
<1>7. CASE side \in Heads /\ Holds(side, f) /\ x = side.id
  <2>1. HeadOK(side)
    BY <1>7 DEF CoveredLog, Holds
  <2> QED
    BY <1>1, <1>4, <1>7, <2>1
<1>8. CASE Size(f) > 0 /\ x = TailHash(f)
  BY <1>1, <1>3, <1>5, <1>8
<1>9. CASE x = Null
  BY <1>1, <1>9
<1>10. ASSUME Size(f) = 0, NEW n \in Months \ {f}, x = TailHash(n), \A o \in Months \ {f} : log[o] # NoFile => o <= n
       PROVE  \E m \in Months : \E i \in 1..Size(m) : Leads(m, i) /\ log[m][i].id = x
  <2>1. ASSUME NEW k \in Months, k > n PROVE Size(k) = 0
    <3>1. CASE k = f
      BY <1>10, <3>1
    <3>2. CASE k # f
      <4>1. log[k] = NoFile
        BY <1>10, <2>1, <3>2 DEF Months
      <4> QED
        BY <4>1, LinesTyped DEF Base
    <3> QED
      BY <3>1, <3>2
  <2>2. TailHash(n) # Null
    BY <1>1, <1>10
  <2> QED
    BY <1>5, <1>10, <2>1, <2>2
<1>11. \/ mem[p] \in Heads /\ Holds(mem[p], f) /\ x = mem[p].id
       \/ side \in Heads /\ Holds(side, f) /\ x = side.id
       \/ Size(f) > 0 /\ x = TailHash(f)
       \/ Size(f) = 0 /\ (\A n \in Months \ {f} : log[n] = NoFile) /\ x = Null
       \/ Size(f) = 0 /\ \E n \in Months \ {f} :
            /\ log[n] # NoFile /\ x = TailHash(n)
            /\ \A o \in Months \ {f} : log[o] # NoFile => o <= n
  BY PredecessorIs DEF Base
<1>12. CASE Size(f) = 0 /\ \E n \in Months \ {f} :
              /\ log[n] # NoFile /\ x = TailHash(n)
              /\ \A o \in Months \ {f} : log[o] # NoFile => o <= n
  <2>1. PICK n \in Months \ {f} : x = TailHash(n) /\ \A o \in Months \ {f} : log[o] # NoFile => o <= n
    BY <1>12
  <2>2. \E m \in Months : \E i \in 1..Size(m) : Leads(m, i) /\ log[m][i].id = x
    BY <1>10, <1>12, <2>1
  <2> QED
    BY <1>1, <2>2
<1> HIDE DEF x
<1> QED
  BY <1>6, <1>7, <1>8, <1>9, <1>11, <1>12

\* What a process knows that takes no step, while the log stays as it is.
LEMMA KnowsQuiet ==
  ASSUME Base, NEW q \in Procs, Knows(q), log' = log, torn => torn',
         pc'[q] = pc[q], batch'[q] = batch[q], file'[q] = file[q], keep'[q] = keep[q], prev'[q] = prev[q],
         mem'[q] = mem[q]
  PROVE  Knows(q)'
<1>1. Same
  BY Quiet DEF Same
<1>2. \A m : Size(m)' = Size(m) /\ (EndsMidLine(m)' <=> EndsMidLine(m))
  BY Quiet
<1>3. /\ \A e : Logged(e) => Logged(e)'
      /\ \A m, i : Leads(m, i) => Leads(m, i)'
      /\ \A h \in Heads : HeadOK(h) => HeadOK(h)'
  BY <1>1, SameIs
<1>4. Placed(q)'
  BY <1>2 DEF Knows, Placed
<1>5. Remembered(q)'
  <2>1. mem'[q] # NoHead => HeadOK(mem[q])'
    BY <1>3 DEF Knows, Remembered, Base, HistoryTypes
  <2>2. ASSUME pc[q] = "record", Len(batch[q]) = 1
        PROVE  HeadOK([id |-> batch[q][1], file |-> file[q], size |-> Size(file[q])])'
    <3>0. batch[q] \in Seq(Nat) /\ file[q] \in Months
      BY DEF Base, HistoryTypes
    <3>1. batch[q][1] \in Nat /\ file[q] \in Months /\ Size(file[q]) \in Nat
      BY <2>2, <3>0, LinesTyped DEF Base
    <3>2. PICK h \in Heads : h = [id |-> batch[q][1], file |-> file[q], size |-> Size(file[q])]
      BY <3>1 DEF Heads
    <3>3. HeadOK(h)
      BY <2>2, <3>2 DEF Knows, Remembered
    <3>4. HeadOK(h)'
      BY <1>3, <3>3
    <3>5. h = [id |-> batch'[q][1], file |-> file'[q], size |-> Size(file[q])']
      BY <1>2, <3>2
    <3> QED
      BY <3>4, <3>5
  <2> QED
    BY <2>1, <2>2 DEF Remembered
<1>6. Found(q)'
  <2>1. \A m, i : Leads(m, i)' => i \in 1..Size(m)'
    BY DEF Leads, Ev
  <2> QED
    BY <1>3, <2>1 DEF Knows, Found
<1>7. Landed(q)'
  BY <1>3 DEF Knows, Landed
<1> QED
  BY <1>4, <1>5, <1>6, <1>7 DEF Knows

\* A step that writes nothing.
LEMMA QuietLog ==
  ASSUME Base, CoveredLog, log' = log, torn => torn', \A q \in Procs : Knows(q)',
         side' = NoHead \/ side' = side \/ \E q \in Procs : side' = mem[q],
         \A e \in done' : e \in done \/ \E q \in Procs : pc[q] \in {"unlock", "gapDone"} /\ \E i \in 1..Len(batch[q]) : e = batch[q][i]
  PROVE  CoveredLog'
<1>1. Same
  BY Quiet DEF Same
<1>2. /\ \A e : Logged(e) => Logged(e)'
      /\ \A h \in Heads : HeadOK(h) => HeadOK(h)'
      /\ Chain => Chain'
  BY <1>1, SameIs
<1>3. Clean'
  <2>1. \A m : Size(m)' = Size(m)
    BY Quiet
  <2> QED
    BY <2>1 DEF CoveredLog, Clean
<1>4. side' # NoHead => HeadOK(side)'
  <2>1. ASSUME side' # NoHead PROVE side' \in Heads /\ HeadOK(side')
    <3>1. CASE side' = side
      BY <2>1, <3>1 DEF CoveredLog, Base, HistoryTypes
    <3>2. ASSUME NEW q \in Procs, side' = mem[q] PROVE side' \in Heads /\ HeadOK(side')
      BY <2>1, <3>2 DEF CoveredLog, Knows, Remembered, Base, HistoryTypes
    <3> QED
      BY <2>1, <3>1, <3>2
  <2>2. ASSUME side' # NoHead PROVE \E h \in Heads : h = side' /\ HeadOK(h)
    BY <2>1, <2>2
  <2> QED
    BY <1>2, <2>2
<1>5. \A e \in done' : Logged(e)'
  <2>1. \A e \in done' : Logged(e)
    BY DEF CoveredLog, Knows, Landed
  <2> QED
    BY <1>2, <2>1
<1> QED
  BY <1>2, <1>3, <1>4, <1>5 DEF CoveredLog

\* A process with nothing to lose has only what it remembers.
LEMMA KnowsFree ==
  ASSUME Base, NEW q \in Procs, Knows(q), log' = log, mem'[q] = mem[q] \/ mem'[q] = NoHead,
         pc'[q] \in {"idle", "lock", "gapWrite"}
  PROVE  Knows(q)'
<1>1. Same
  BY Quiet DEF Same
<1>2. \A h \in Heads : HeadOK(h) => HeadOK(h)'
  BY <1>1, SameIs
<1>3. mem'[q] # NoHead => HeadOK(mem[q])'
  BY <1>2 DEF Knows, Remembered, Base, HistoryTypes
<1> QED
  BY <1>3 DEF Knows, Placed, Remembered, Found, Landed

\* The steps that write nothing keep the chain.
LEMMA CoveredQuiet ==
  ASSUME Base, CoveredLog, NEW p \in Procs,
         Begin(p) \/ Lock(p) \/ Drop(p) \/ Find(p) \/ Record(p) \/ Unlock(p) \/ Miss(p) \/ Invalidate(p) \/ Crash(p)
  PROVE  CoveredLog'
<1> USE DEF history, caches, scratch
<1>0. log' = log /\ (torn => torn')
  BY DEF Begin, Lock, Drop, Find, Record, Unlock, Miss, Invalidate, Crash
<1>1. HistoryTypes
  BY DEF Base
<1>2. \A m : Size(m)' = Size(m) /\ (EndsMidLine(m)' <=> EndsMidLine(m))
  BY <1>0, Quiet
<1>3. Same
  BY <1>0, Quiet DEF Same
<1>4. /\ \A e : Logged(e) => Logged(e)'
      /\ \A m, i : Leads(m, i) => Leads(m, i)'
      /\ \A h \in Heads : HeadOK(h) => HeadOK(h)'
  BY <1>3, SameIs
<1>5. ASSUME NEW q \in Procs, q # p PROVE Knows(q)'
  <2>1. /\ pc'[q] = pc[q] /\ batch'[q] = batch[q] /\ file'[q] = file[q] /\ keep'[q] = keep[q]
        /\ prev'[q] = prev[q] /\ mem'[q] = mem[q]
    <3>1. CASE Unlock(p) \/ Invalidate(p) \/ Crash(p)
      <4>1. Back(p)
        BY <3>1 DEF Unlock, Invalidate, Crash, Dies
      <4>2. mem'[q] = mem[q]
        BY <1>1, <1>5, <3>1 DEF Unlock, Invalidate, Crash, Dies, HistoryTypes
      <4> QED
        BY <1>1, <1>5, <4>1, <4>2, BackIs
    <3>2. CASE Begin(p)
      <4>1. PICK n \in 1..MaxBatch : batch' = [batch EXCEPT ![p] = [i \in 1..n |-> begun + i]]
        BY <3>2 DEF Begin
      <4>2. batch'[q] = batch[q]
        BY <1>1, <1>5, <4>1 DEF HistoryTypes
      <4> QED
        BY <1>1, <1>5, <3>2, <4>2 DEF Begin, Goto, HistoryTypes
    <3>3. CASE Lock(p) \/ Miss(p)
      BY <1>1, <1>5, <3>3 DEF Lock, Miss, Goto, HistoryTypes
    <3>4. CASE Drop(p) \/ Find(p)
      BY <1>1, <1>5, <3>4 DEF Drop, Find, Goto, HistoryTypes
    <3>5. CASE Record(p)
      BY <1>1, <1>5, <3>5 DEF Record, Goto, HistoryTypes
    <3> QED
      BY <3>1, <3>2, <3>3, <3>4, <3>5
  <2>2. Knows(q)
    BY DEF CoveredLog
  <2> QED
    BY <1>0, <2>1, <2>2, KnowsQuiet
<1>6. Knows(p)
  BY DEF CoveredLog
<1>7. mem'[p] = mem[p] \/ mem'[p] = NoHead => (mem'[p] # NoHead => HeadOK(mem[p])')
  BY <1>1, <1>4, <1>6 DEF Knows, Remembered, HistoryTypes
<1>8. CASE Unlock(p) \/ Invalidate(p) \/ Crash(p)
  <2>1. Back(p) /\ (mem'[p] = mem[p] \/ mem'[p] = NoHead)
    BY <1>1, <1>8 DEF Unlock, Invalidate, Crash, Dies, HistoryTypes
  <2>2. pc'[p] = "idle"
    BY <1>1, <2>1, BackIs
  <2>3. Knows(p)'
    BY <1>0, <1>6, <2>1, <2>2, KnowsFree
  <2>4. side' = NoHead \/ side' = side \/ \E q \in Procs : side' = mem[q]
    BY <1>8 DEF Unlock, Invalidate, Crash, Dies
  <2>5. \A e \in done' : e \in done \/ \E q \in Procs : pc[q] \in {"unlock", "gapDone"} /\ \E i \in 1..Len(batch[q]) : e = batch[q][i]
    <3>1. CASE Unlock(p) \/ Invalidate(p)
      <4>1. pc[p] \in {"unlock", "gapDone"} /\ done' = done \union {batch[p][i] : i \in 1..Len(batch[p])}
        BY <3>1 DEF Unlock, Invalidate
      <4> QED
        BY <4>1
    <3>2. CASE Crash(p)
      BY <3>2 DEF Crash, Dies
    <3> QED
      BY <1>8, <3>1, <3>2
  <2> QED
    BY <1>0, <1>5, <2>3, <2>4, <2>5, QuietLog
<1>9. ASSUME Knows(p)', side' = side, done' = done PROVE CoveredLog'
  BY <1>0, <1>5, <1>9, QuietLog
<1>10. CASE Begin(p) \/ Miss(p)
  <2>1. pc'[p] \in {"idle", "lock", "gapWrite"} /\ mem'[p] = mem[p] /\ side' = side /\ done' = done
    BY <1>1, <1>10 DEF Begin, Miss, Goto, HistoryTypes
  <2> QED
    BY <1>0, <1>6, <1>9, <2>1, KnowsFree
<1>11. CASE Lock(p)
  <2>1. pc'[p] = "drop" /\ mem'[p] = mem[p] /\ side' = side /\ done' = done /\ file'[p] = TargetMonthFile(stamp[p])
    BY <1>1, <1>11 DEF Lock, Goto, HistoryTypes
  <2>2. \A n \in Months : n > TargetMonthFile(stamp[p]) => Size(n) = 0
    BY <1>1, TargetIs DEF Base, HistoryTypes, Locking
  <2>3. Placed(p)'
    BY <1>2, <2>1, <2>2 DEF Placed
  <2>4. Remembered(p)' /\ Found(p)' /\ Landed(p)'
    BY <1>7, <2>1 DEF Remembered, Found, Landed
  <2> QED
    BY <1>9, <2>1, <2>3, <2>4 DEF Knows
<1>12. CASE Drop(p)
  <2>1. /\ pc[p] = "drop" /\ mem'[p] = mem[p] /\ side' = side /\ done' = done /\ file'[p] = file[p] /\ torn' = torn
        /\ IF EndsMidLine(file[p]) THEN pc'[p] = "truncate" /\ keep'[p] = Size(file[p]) - 1 ELSE pc'[p] = "find"
    BY <1>1, <1>12 DEF Drop, Goto, HistoryTypes
  <2>2. EndsMidLine(file[p]) => torn
    <3>1. file[p] \in Months /\ Size(file[p]) \in Nat
      BY <1>1, LinesTyped DEF HistoryTypes
    <3>2. EndsMidLine(file[p]) => Size(file[p]) \in 1..Size(file[p]) /\ log[file[p]][Size(file[p])].kind = "torn"
      BY <3>1 DEF EndsMidLine
    <3> QED
      BY <3>1, <3>2 DEF CoveredLog, Clean
  <2>3. \A n \in Months : n > file[p] => Size(n) = 0
    BY <1>6, <2>1 DEF Knows, Placed
  <2>4. Placed(p)'
    BY <1>2, <2>1, <2>2, <2>3 DEF Placed
  <2>5. Remembered(p)' /\ Found(p)' /\ Landed(p)'
    BY <1>7, <2>1 DEF Remembered, Found, Landed
  <2> QED
    BY <1>9, <2>1, <2>4, <2>5 DEF Knows
<1>13. CASE Find(p)
  <2>1. /\ pc[p] = "find" /\ pc'[p] = "write" /\ mem'[p] = mem[p] /\ side' = side /\ done' = done
        /\ file'[p] = file[p] /\ prev'[p] = Predecessor(p, file[p])
    BY <1>1, <1>13 DEF Find, Goto, HistoryTypes
  <2>2. Placed(p)'
    BY <1>2, <1>6, <2>1 DEF Knows, Placed
  <2>3. Remembered(p)' /\ Landed(p)'
    BY <1>7, <2>1 DEF Remembered, Landed
  <2>4. Found(p)'
    <3>1. ASSUME prev'[p] # Null PROVE \E m \in Months : \E i \in 1..Size(m) : Leads(m, i) /\ log[m][i].id = prev'[p]
      BY <2>1, <3>1, PredecessorLeads
    <3> QED
      BY <1>0, <1>2, <1>4, <3>1 DEF Found
  <2> QED
    BY <1>9, <2>1, <2>2, <2>3, <2>4 DEF Knows
<1>14. CASE Record(p)
  <2>1. /\ pc[p] = "record" /\ pc'[p] = "unlock" /\ side' = side /\ done' = done /\ batch'[p] = batch[p]
        /\ IF Len(batch[p]) > 1 THEN mem'[p] = NoHead
           ELSE mem'[p] = [id |-> batch[p][1], file |-> file[p], size |-> Size(file[p])]
    BY <1>1, <1>14 DEF Record, Goto, HistoryTypes
  <2>2. batch[p] \in Seq(Nat) /\ Len(batch[p]) >= 1 /\ file[p] \in Months
    BY <1>1, <2>1 DEF Base, HistoryTypes, Locking
  <2>3. Len(batch[p]) > 1 => mem'[p] = NoHead
    BY <2>1
  <2>4. ASSUME ~(Len(batch[p]) > 1) PROVE HeadOK(mem[p])'
    <3>0. Len(batch[p]) \in Nat /\ Len(batch[p]) >= 1
      BY <2>2
    <3>1. Len(batch[p]) = 1 /\ Size(file[p]) \in Nat
      <4>0. \A n \in Nat : n >= 1 /\ ~(n > 1) => n = 1
        OBVIOUS
      <4>1. Len(batch[p]) = 1
        BY <2>4, <3>0, <4>0, Zenon
      <4> QED
        BY <1>1, <2>2, <4>1, LinesTyped
    <3>2. batch[p][1] \in Nat
      BY <2>2, <3>1
    <3>3. PICK h \in Heads : h = [id |-> batch[p][1], file |-> file[p], size |-> Size(file[p])]
      BY <2>2, <3>1, <3>2 DEF Heads
    <3>4. HeadOK(h)
      BY <1>6, <2>1, <3>1, <3>3 DEF Knows, Remembered
    <3>5. HeadOK(h)'
      BY <1>4, <3>4
    <3>6. mem'[p] = h
      BY <2>1, <2>4, <3>3
    <3> QED
      BY <3>5, <3>6
  <2>5. mem'[p] # NoHead => HeadOK(mem[p])'
    BY <2>3, <2>4
  <2>6. Placed(p)' /\ Remembered(p)' /\ Found(p)'
    BY <2>1, <2>5 DEF Placed, Remembered, Found
  <2>7. Landed(p)'
    BY <1>4, <1>6, <2>1 DEF Knows, Landed
  <2> QED
    BY <1>9, <2>1, <2>6, <2>7 DEF Knows
<1> QED
  BY <1>8, <1>10, <1>11, <1>12, <1>13, <1>14

\* Dropping a torn tail loses no event.
LEMMA CoveredTruncate ==
  ASSUME Base, CoveredLog, NEW p \in Procs, Truncate(p)
  PROVE  CoveredLog'
<1> USE DEF history, caches, scratch
<1>1. HistoryTypes /\ Locking
  BY DEF Base
<1>2. PICK f \in Months : f = file[p]
  BY <1>1 DEF HistoryTypes
<1>3. /\ pc[p] = "truncate" /\ torn /\ EndsMidLine(f) /\ keep[p] = Size(f) - 1
      /\ \A n \in Months : n > f => Size(n) = 0
  BY <1>2 DEF CoveredLog, Knows, Placed, Truncate
<1>4. /\ \A m \in Months : m # f => log'[m] = log[m] /\ Size(m)' = Size(m)
      /\ Size(f)' = Size(f) - 1 /\ \A i \in 1..(Size(f) - 1) : log'[f][i] = log[f][i]
  BY <1>1, <1>2, <1>3, TruncateIs
<1>5. /\ \A m \in Months : Size(m) \in Nat /\ m \in Nat
      /\ log[f][Size(f)].kind = "torn" /\ Size(f) > 0
  BY <1>1, <1>3, LinesTyped DEF EndsMidLine, Months
<1>6. \A i : Ev(f, i) => i \in 1..(Size(f) - 1)
  <2> TAKE i
  <2> HAVE Ev(f, i)
  <2>1. i \in 1..Size(f) /\ i # Size(f)
    BY <1>5 DEF Ev
  <2> QED
    BY <1>5, <2>1
<1>7. Same
  <2>1. ASSUME NEW m \in Months, NEW i, m = f PROVE (Ev(m, i)' <=> Ev(m, i)) /\ (Ev(m, i) => log'[m][i] = log[m][i])
    <3>1. Ev(f, i)' => Ev(f, i) /\ log'[f][i] = log[f][i]
      BY <1>1, TruncateEvents
    <3>2. Ev(f, i) => i \in 1..Size(f)' /\ log'[f][i] = log[f][i]
      BY <1>4, <1>6
    <3>3. Ev(f, i) => Ev(f, i)'
      BY <3>2 DEF Ev
    <3> QED
      BY <2>1, <3>1, <3>3
  <2>2. ASSUME NEW m \in Months, NEW i, m # f PROVE (Ev(m, i)' <=> Ev(m, i)) /\ (Ev(m, i) => log'[m][i] = log[m][i])
    BY <1>4, <2>2 DEF Ev
  <2> QED
    BY <2>1, <2>2 DEF Same
<1>8. /\ \A e : Logged(e) => Logged(e)'
      /\ \A h \in Heads : HeadOK(h) => HeadOK(h)'
      /\ Chain => Chain'
  BY <1>7, SameIs
<1>9. torn' = torn /\ mem' = [mem EXCEPT ![p] = NoHead] /\ side' = NoHead /\ done' = done /\ batch' = batch /\ file' = file
      /\ pc' = [pc EXCEPT ![p] = "find"]
  BY DEF Truncate, Goto
<1>10. \A i \in 1..(Size(f) - 1) : log[f][i].kind = "event"
  <2> TAKE i \in 1..(Size(f) - 1)
  <2>1. i \in 1..Size(f) /\ i # Size(f)
    BY <1>5
  <2> QED
    BY <2>1 DEF CoveredLog, Clean
<1>11. Clean'
  <2>1. ASSUME NEW m \in Months, NEW i \in 1..Size(m)', log'[m][i].kind # "event"
        PROVE  log'[m][i].kind = "torn" /\ torn' /\ i = Size(m)'
    <3>1. m # f
      BY <1>4, <1>10, <2>1
    <3>2. i \in 1..Size(m) /\ log'[m][i] = log[m][i] /\ Size(m)' = Size(m)
      BY <1>4, <2>1, <3>1
    <3> QED
      BY <1>9, <2>1, <3>2 DEF CoveredLog, Clean
  <2> QED
    BY <2>1 DEF Clean
<1>12. \A q \in Procs : q # p => pc[q] \notin Inside /\ pc'[q] = pc[q] /\ mem'[q] = mem[q]
  BY <1>1, <1>3, <1>9 DEF Locking, HistoryTypes, Inside
<1>13. ASSUME NEW q \in Procs, q # p PROVE Knows(q)'
  <2>1. mem'[q] # NoHead => HeadOK(mem[q])'
    BY <1>1, <1>8, <1>12, <1>13 DEF CoveredLog, Knows, Remembered, HistoryTypes
  <2>2. Landed(q)'
    BY <1>8, <1>9, <1>12, <1>13 DEF CoveredLog, Knows, Landed
  <2>3. Placed(q)' /\ Remembered(q)' /\ Found(q)'
    BY <1>12, <1>13, <2>1 DEF Placed, Remembered, Found, Inside
  <2> QED
    BY <2>2, <2>3 DEF Knows
<1>14. Knows(p)'
  <2>1. pc'[p] = "find" /\ mem'[p] = NoHead /\ file'[p] = f
    BY <1>1, <1>2, <1>9 DEF HistoryTypes
  <2>2. ~EndsMidLine(f)'
    <3>1. Size(f)' > 0 => Size(f)' \in 1..(Size(f) - 1) /\ Size(f)' \in Nat
      BY <1>4, <1>5
    <3>2. Size(f)' > 0 => log'[f][Size(f)'].kind = "event"
      BY <1>4, <1>10, <3>1
    <3> QED
      BY <3>2 DEF EndsMidLine
  <2>3. \A n \in Months : n > f => Size(n)' = 0
    BY <1>3, <1>4, <1>5
  <2>4. Placed(p)'
    BY <2>1, <2>2, <2>3 DEF Placed
  <2> QED
    BY <2>1, <2>4 DEF Knows, Remembered, Found, Landed
<1> QED
  BY <1>8, <1>9, <1>11, <1>13, <1>14 DEF CoveredLog

\* Where an append begins: at the end of the log, after whole lines.
LEMMA AppendAt ==
  ASSUME Base, CoveredLog, Covered, NEW p \in Procs, Write(p) \/ GapWrite(p) \/ CrashInWrite(p),
         NEW f \in Months, f = file[p]
  PROVE  /\ ~EndsMidLine(f) /\ \A n \in Months : n > f => Size(n) = 0
         /\ pc[p] = "gapWrite" => bare = 1 /\ Len(batch[p]) = 1
<1>1. pc[p] \in {"write", "gapWrite"}
  BY AddsIs DEF Base
<1>2. CASE pc[p] = "write"
  BY <1>2 DEF CoveredLog, Knows, Placed
<1>3. CASE pc[p] = "gapWrite"
  <2>1. Len(batch[p]) >= 1 /\ Len(batch[p]) <= bare /\ Len(batch[p]) \in Nat /\ bare \in Nat
    BY <1>3 DEF Base, Locking, Bare, HistoryTypes
  <2>2. bare > 0
    BY <2>1
  <2>3. bare = 1 /\ now = 1 /\ Len(batch[p]) = 1
    <3>1. bare = 1 /\ now = 1
      BY <2>2 DEF Covered
    <3>2. \A n \in Nat : n >= 1 /\ n <= 1 => n = 1
      OBVIOUS
    <3>3. Len(batch[p]) = 1
      BY <2>1, <3>1, <3>2, Zenon
    <3> QED
      BY <3>1, <3>3
  <2>4. \A q \in Procs : pc[q] = "truncate" => torn
    BY DEF CoveredLog, Knows, Placed
  <2>5. ~EndsMidLine(f)
    BY <2>2, <2>4, GapPlaced DEF CoveredLog
  <2>6. ASSUME NEW n \in Months, n > f PROVE Size(n) = 0
    <3>1. ~(n <= now)
      BY <2>3, <2>6 DEF Months
    <3>2. log[n] = NoFile
      BY <3>1 DEF Base, Locking
    <3> QED
      BY <3>2, LinesTyped DEF Base
  <2> QED
    BY <1>3, <2>3, <2>5, <2>6
<1> QED
  BY <1>1, <1>2, <1>3

\* An append of one declared gap beside the holder of the lock.
LEMMA KnowsBeside ==
  ASSUME Base, CoveredLog, Covered', Base', Clean', NEW p \in Procs, pc[p] = "gapWrite", GapWrite(p) \/ CrashInWrite(p),
         bare > 0, NEW f \in Months, f = file[p], NEW ls, More(f, ls), Len(ls) \in {0, 1},
         \A k \in 1..Len(ls) : ls[k].kind = "event" /\ ls[k].prev = Null,
         \A n \in Months \ {f} : Size(n)' = Size(n),
         NEW q \in Procs, q # p
  PROVE  Knows(q)'
<1> USE DEF history, caches, scratch
<1>1. HistoryTypes
  BY DEF Base
<1>2. bare' = bare /\ (torn => torn')
  <2>1. bare' = bare
    BY DEF GapWrite, CrashInWrite, Dies
  <2>2. Next
    BY DEF Next, Step
  <2> QED
    BY <2>1, <2>2, Backwards
<1>3. pc'[q] = pc[q] /\ batch'[q] = batch[q] /\ file'[q] = file[q] /\ prev'[q] = prev[q] /\ mem'[q] = mem[q]
  <2>1. CASE GapWrite(p)
    BY <1>1, <2>1 DEF GapWrite, Goto, HistoryTypes
  <2>2. CASE CrashInWrite(p)
    <3>1. Back(p) /\ mem' = [mem EXCEPT ![p] = NoHead]
      BY <2>2 DEF CrashInWrite, Dies
    <3> QED
      BY <1>1, <3>1, BackIs DEF HistoryTypes
  <2> QED
    BY <2>1, <2>2
<1>4. \A x \in Procs : pc'[x] = "truncate" => torn'
  <2> TAKE x \in Procs
  <2>1. pc'[x] = "truncate" => pc[x] = "truncate"
    BY <1>1, BackIs DEF GapWrite, CrashInWrite, Dies, Goto, HistoryTypes
  <2>2. pc[x] = "truncate" => torn
    BY DEF CoveredLog, Knows, Placed
  <2> QED
    BY <1>2, <2>1, <2>2
<1>5. Placed(q)'
  BY <1>2, <1>4, GapPlacedAfter
<1>6. Knows(q)
  BY DEF CoveredLog
<1>7. /\ \A e : Logged(e) => Logged(e)'
      /\ \A h \in Heads : HeadOK(h) => HeadOK(h)'
      /\ \A m, i : Leads(m, i) => Leads(m, i)'
  BY MoreKeeps, MoreGap
<1>8. Found(q)' /\ Landed(q)'
  <2>1. \A m, i : Leads(m, i)' => i \in 1..Size(m)'
    BY DEF Leads, Ev
  <2>2. \A m, i : Leads(m, i) => log'[m][i] = log[m][i]
    BY DEF Leads, More
  <2>3. Found(q)'
    BY <1>3, <1>6, <1>7, <2>1, <2>2 DEF Knows, Found
  <2> QED
    BY <1>3, <1>6, <1>7, <2>3 DEF Knows, Landed
<1>9. mem'[q] # NoHead => HeadOK(mem[q])'
  BY <1>1, <1>3, <1>6, <1>7 DEF Knows, Remembered, HistoryTypes
<1>10. ASSUME pc[q] = "record", Len(batch[q]) = 1
       PROVE  HeadOK([id |-> batch[q][1], file |-> file[q], size |-> Size(file[q])])'
  <2>1. batch[q] \in Seq(Nat) /\ file[q] \in Months
    BY <1>1 DEF HistoryTypes
  <2>2. PICK e \in Nat, g \in Months : e = batch[q][1] /\ g = file[q]
    BY <1>10, <2>1
  <2>3. Size(g) \in Nat /\ Size(g)' \in Nat
    BY <1>1, LinesTyped, LinesTypedAfter DEF Base
  <2>4. PICK h \in Heads : h = [id |-> e, file |-> g, size |-> Size(g)]
    BY <2>3 DEF Heads
  <2>5. PICK h2 \in Heads : h2 = [id |-> e, file |-> g, size |-> Size(g)']
    BY <2>3 DEF Heads
  <2>6. HeadOK(h)
    BY <1>6, <1>10, <2>2, <2>4 DEF Knows, Remembered
  <2>7. HeadOK(h2)'
    <3>1. CASE Size(g)' = Size(g)
      <4>1. h2 = h
        BY <2>4, <2>5, <3>1
      <4> QED
        BY <1>7, <2>6, <4>1
    <3>2. CASE Size(g)' # Size(g)
      <4>1. g = f /\ Len(ls) = 1 /\ Size(f)' = Size(f) + 1 /\ Size(f) \in Nat
        BY <3>2 DEF More
      <4>2. PICK s \in Nat : s = Size(f) + 1
        BY <4>1
      <4>3. Ev(f, s)' /\ log'[f][s] = ls[1] /\ ls[1].prev = Null
        BY <4>1, <4>2 DEF More
      <4>4. h.size = Size(f) /\ h.file = f /\ h.id = e /\ h2.size = s /\ h2.file = f /\ h2.id = e
        BY <2>4, <2>5, <4>1, <4>2
      <4>5. PICK i \in 1..Size(f) : /\ Ev(f, i) /\ log[f][i].id = e
                                    /\ \A j \in 1..Size(f) : i < j /\ Ev(f, j) => log[f][j].prev = Null
        BY <2>6, <4>4 DEF HeadOK
      <4>6. i \in 1..s /\ Ev(f, i)' /\ log'[f][i].id = e
        BY <4>1, <4>2, <4>5 DEF More
      <4>7. ASSUME NEW j \in 1..s, i < j, Ev(f, j)' PROVE log'[f][j].prev = Null
        <5>1. CASE j = s
          BY <4>3, <5>1
        <5>2. CASE j # s
          <6>1. j \in 1..Size(f)
            BY <4>1, <4>2, <5>2
          <6>2. ~(j > Size(f))
            BY <4>1, <6>1
          <6>3. Ev(f, j)
            BY <4>7, <6>2 DEF More
          <6>4. log'[f][j] = log[f][j]
            BY <6>3 DEF More
          <6> QED
            BY <4>5, <4>7, <6>1, <6>3, <6>4
        <5> QED
          BY <5>1, <5>2
      <4>8. s \in 1..Size(f)'
        BY <4>1, <4>2
      <4> QED
        BY <4>3, <4>4, <4>6, <4>7, <4>8 DEF HeadOK
    <3> QED
      BY <3>1, <3>2
  <2>8. h2 = [id |-> batch'[q][1], file |-> file'[q], size |-> Size(file[q])']
    BY <1>3, <2>2, <2>5
  <2> QED
    BY <2>7, <2>8
<1>11. Remembered(q)'
  BY <1>3, <1>9, <1>10 DEF Remembered
<1> QED
  BY <1>5, <1>8, <1>11 DEF Knows

\* An append keeps the chain.
LEMMA CoveredAppend ==
  ASSUME Base, CoveredLog, Covered, Covered', Base', NEW p \in Procs, Write(p) \/ GapWrite(p) \/ CrashInWrite(p)
  PROVE  CoveredLog'
<1> USE DEF history, caches, scratch
<1>1. HistoryTypes /\ Locking
  BY DEF Base
<1>2. PICK f \in Months : f = file[p]
  BY <1>1 DEF HistoryTypes
<1>3. pc[p] \in {"write", "gapWrite"} /\ batch[p] \in Seq(Nat) /\ Links(p) \in Nat
  BY <1>1, AddsIs
<1>4. PICK newline, ls : /\ Adds(p, newline, ls)
                         /\ Write(p) \/ GapWrite(p) => Len(ls) = Len(batch[p]) /\ \A k \in 1..Len(ls) : ls[k].kind = "event"
  <2>1. CASE Write(p) \/ GapWrite(p)
    BY <1>1, <2>1, AddsIs
  <2>2. CASE ~(Write(p) \/ GapWrite(p))
    BY <1>1, <2>2, AddsIs
  <2> QED
    BY <2>1, <2>2
<1>5. /\ ~EndsMidLine(f) /\ \A n \in Months : n > f => Size(n) = 0
      /\ pc[p] = "gapWrite" => bare = 1 /\ Len(batch[p]) = 1
  BY <1>2, AppendAt
<1>6. More(f, ls) /\ \A n \in Months \ {f} : Size(n)' = Size(n) /\ log'[n] = log[n]
  BY <1>1, <1>2, <1>4, <1>5, MoreIs
<1>7. /\ Len(ls) \in Nat /\ Len(ls) <= Len(batch[p])
      /\ \A k \in 1..Len(ls) :
           \/ /\ ls[k].kind = "event" /\ ls[k].id = batch[p][k]
              /\ ls[k].prev = IF k = 1 THEN Links(p) ELSE batch[p][k - 1]
           \/ ls[k].kind = "torn" /\ k = Len(ls) /\ torn'
  BY <1>4 DEF Adds
<1>8. bare' = bare /\ side' = side /\ done' = done /\ (torn => torn')
  <2>1. bare' = bare /\ side' = side /\ done' = done
    BY DEF Write, GapWrite, CrashInWrite, Dies
  <2>2. Next
    BY DEF Next, Step
  <2> QED
    BY <2>1, <2>2, Backwards
<1>9. /\ \A e : Logged(e) => Logged(e)'
      /\ \A h \in Heads : HeadOK(h) => HeadOK(h)'
  BY <1>6, MoreKeeps
<1>10. Chain'
  <2>1. Links(p) # Null => \E m \in Months : \E i \in 1..Size(m) : Leads(m, i) /\ log[m][i].id = Links(p)
    BY DEF Links, CoveredLog, Knows, Found
  <2>2. \A k \in 1..Len(ls) :
          \/ /\ ls[k].kind = "event" /\ ls[k].id = batch[p][k]
             /\ ls[k].prev = IF k = 1 THEN Links(p) ELSE batch[p][k - 1]
          \/ ls[k].kind # "event" /\ k = Len(ls)
    BY <1>7
  <2>3. Chain
    BY DEF CoveredLog
  <2> QED
    BY <1>1, <1>6, <1>7, <2>1, <2>2, <2>3, MoreChain
<1>11. Clean'
  <2>1. \A m \in Months : Size(m) \in Nat
    BY <1>1, LinesTyped
  <2>2. ASSUME NEW m \in Months, NEW i \in 1..Size(m)', log'[m][i].kind # "event"
        PROVE  log'[m][i].kind = "torn" /\ torn' /\ i = Size(m)'
    <3>1. CASE m # f
      <4>1. i \in 1..Size(m) /\ log'[m][i] = log[m][i] /\ Size(m)' = Size(m)
        BY <1>6, <2>2, <3>1
      <4> QED
        BY <1>8, <2>2, <4>1 DEF CoveredLog, Clean
    <3>2. CASE m = f /\ i \in 1..Size(f)
      <4>1. log[f][i].kind = "event"
        <5>1. log[f][i].kind # "event" => log[f][i].kind = "torn" /\ i = Size(f)
          BY <3>2 DEF CoveredLog, Clean
        <5>2. log[f][i].kind # "event" => EndsMidLine(f)
          BY <2>1, <3>2, <5>1 DEF EndsMidLine
        <5> QED
          BY <1>5, <5>2
      <4>2. Ev(f, i)
        BY <3>2, <4>1 DEF Ev
      <4>3. log'[f][i] = log[f][i]
        BY <1>6, <4>2 DEF More
      <4> QED
        BY <2>2, <3>2, <4>1, <4>3
    <3>3. CASE m = f /\ i \notin 1..Size(f)
      <4>1. Size(f)' = Size(f) + Len(ls)
        BY <1>6 DEF More
      <4>2. PICK k \in 1..Len(ls) : i = Size(f) + k
        <5>1. i - Size(f) \in 1..Len(ls) /\ i = Size(f) + (i - Size(f))
          BY <1>7, <2>1, <2>2, <3>3, <4>1
        <5> QED
          BY <5>1
      <4>3. log'[f][i] = ls[k]
        BY <1>6, <4>2 DEF More
      <4>4. ls[k].kind = "torn" /\ k = Len(ls) /\ torn'
        BY <1>7, <2>2, <3>3, <4>3
      <4> QED
        BY <3>3, <4>1, <4>2, <4>3, <4>4
    <3> QED
      BY <3>1, <3>2, <3>3
  <2> QED
    BY <2>2 DEF Clean
<1>12. ASSUME NEW q \in Procs, q # p PROVE Knows(q)'
  <2>1. CASE pc[p] = "gapWrite"
    <3>1. bare > 0 /\ bare' > 0 /\ ~torn'
      BY <1>5, <1>8, <2>1 DEF Covered
    <3>2. GapWrite(p) \/ CrashInWrite(p)
      BY <2>1 DEF Write
    <3>3. Len(ls) \in {0, 1}
      <4>1. Len(batch[p]) = 1 /\ Len(ls) \in Nat /\ Len(ls) <= Len(batch[p])
        BY <1>5, <1>7, <2>1
      <4>2. \A n \in Nat : n <= 1 => n \in {0, 1}
        OBVIOUS
      <4> QED
        BY <4>1, <4>2, Zenon
    <3>4. \A k \in 1..Len(ls) : ls[k].kind = "event" /\ ls[k].prev = Null
      <4>1. Links(p) = Null
        BY <2>1 DEF Links
      <4>2. \A k \in 1..Len(ls) : k = 1
        BY <3>3
      <4> QED
        BY <1>7, <3>1, <4>1, <4>2
    <3> QED
      BY <1>2, <1>6, <1>11, <1>12, <2>1, <3>1, <3>2, <3>3, <3>4, KnowsBeside
  <2>2. CASE pc[p] = "write"
    <3>1. pc[q] \notin Inside
      BY <1>1, <1>12, <2>2 DEF Locking, Inside
    <3>2. pc'[q] = pc[q] /\ batch'[q] = batch[q] /\ mem'[q] = mem[q]
      <4>1. CASE Write(p)
        BY <1>1, <1>12, <4>1 DEF Write, Goto, HistoryTypes
      <4>2. CASE CrashInWrite(p)
        <5>1. Back(p) /\ mem' = [mem EXCEPT ![p] = NoHead]
          BY <4>2 DEF CrashInWrite, Dies
        <5> QED
          BY <1>1, <1>12, <5>1, BackIs DEF HistoryTypes
      <4> QED
        BY <2>2, <4>1, <4>2 DEF GapWrite
    <3>3. Knows(q)
      BY DEF CoveredLog
    <3>4. mem'[q] # NoHead => HeadOK(mem[q])'
      BY <1>1, <1>9, <3>2, <3>3 DEF Knows, Remembered, HistoryTypes
    <3>5. Landed(q)'
      BY <1>9, <3>2, <3>3 DEF Knows, Landed
    <3>6. Placed(q)' /\ Remembered(q)' /\ Found(q)'
      BY <3>1, <3>2, <3>4 DEF Placed, Remembered, Found, Inside
    <3> QED
      BY <3>5, <3>6 DEF Knows
  <2> QED
    BY <1>3, <2>1, <2>2
<1>13. Knows(p)'
  <2>1. CASE CrashInWrite(p)
    <3>1. Back(p) /\ mem'[p] = NoHead
      BY <1>1, <2>1 DEF CrashInWrite, Dies, HistoryTypes
    <3>2. pc'[p] = "idle"
      BY <1>1, <3>1, BackIs
    <3> QED
      BY <3>1, <3>2 DEF Knows, Placed, Remembered, Found, Landed
  <2>2. CASE Write(p) \/ GapWrite(p)
    <3>1. /\ pc'[p] \in {"record", "gapDone"} /\ mem'[p] = mem[p] /\ batch'[p] = batch[p] /\ file'[p] = file[p]
      BY <1>1, <2>2 DEF Write, GapWrite, Goto, HistoryTypes
    <3>2. Len(ls) = Len(batch[p]) /\ \A k \in 1..Len(ls) : ls[k].kind = "event" /\ ls[k].id = batch[p][k]
      BY <1>4, <1>7, <2>2
    <3>3. \A k \in 1..Len(ls) : \A i : i = Size(f) + k => Ev(f, i)' /\ log'[f][i].id = batch[p][k]
      BY <1>6, <3>2 DEF More
    <3>4. ASSUME NEW k \in 1..Len(batch[p]) PROVE Logged(batch[p][k])'
      <4>1. PICK i : i = Size(f) + k
        OBVIOUS
      <4>2. Ev(f, i)' /\ log'[f][i].id = batch[p][k]
        BY <3>2, <3>3, <4>1
      <4>3. i \in 1..Size(f)'
        BY <4>2 DEF Ev
      <4> QED
        BY <3>1, <4>2, <4>3 DEF Logged
    <3>5. mem'[p] # NoHead => HeadOK(mem[p])'
      BY <1>1, <1>9, <3>1 DEF CoveredLog, Knows, Remembered, HistoryTypes
    <3>6. ASSUME Len(batch[p]) = 1
          PROVE  HeadOK([id |-> batch[p][1], file |-> file[p], size |-> Size(file[p])])'
      <4>1. Size(f) \in Nat /\ Size(f)' = Size(f) + 1
        BY <1>6, <3>2, <3>6 DEF More
      <4>2. PICK s \in Nat, e \in Nat : s = Size(f) + 1 /\ e = batch[p][1]
        BY <1>3, <3>6, <4>1
      <4>3. PICK h \in Heads : h = [id |-> e, file |-> f, size |-> s]
        BY <4>2 DEF Heads
      <4>4. Ev(f, s)' /\ log'[f][s].id = e
        BY <3>2, <3>3, <3>6, <4>2
      <4>5. s \in 1..Size(f)' /\ s \in 1..s /\ \A j \in 1..s : ~(s < j)
        BY <4>1, <4>2
      <4>6. HeadOK(h)'
        BY <4>3, <4>4, <4>5 DEF HeadOK
      <4>7. h = [id |-> batch'[p][1], file |-> file'[p], size |-> Size(file[p])']
        BY <1>2, <3>1, <4>1, <4>2, <4>3
      <4> QED
        BY <4>6, <4>7
    <3>7. Landed(p)' /\ Found(p)' /\ Placed(p)'
      BY <3>1, <3>4 DEF Landed, Found, Placed
    <3>8. Remembered(p)'
      BY <3>1, <3>5, <3>6 DEF Remembered
    <3> QED
      BY <3>7, <3>8 DEF Knows
  <2> QED
    BY <2>1, <2>2
<1>14. side' # NoHead => HeadOK(side)'
  BY <1>1, <1>8, <1>9 DEF CoveredLog, HistoryTypes
<1>15. \A e \in done' : Logged(e)'
  BY <1>8, <1>9 DEF CoveredLog
<1> QED
  BY <1>10, <1>11, <1>12, <1>13, <1>14, <1>15 DEF CoveredLog

\* While what the code does not cover does not happen, the log is one chain.
LEMMA CoveredStep ==
  ASSUME Base, CoveredInv, Next
  PROVE  CoveredInv'
<1> USE DEF history, caches, scratch
<1>1. Base'
  BY TypesStep, LockingStep, UniqueStep DEF Base
<1> SUFFICES ASSUME Covered' PROVE CoveredLog'
  BY DEF CoveredInv
<1>2. Covered /\ CoveredLog
  BY Backwards DEF CoveredInv
<1>3. ASSUME Tick PROVE CoveredLog'
  <2>1. /\ log' = log /\ torn' = torn /\ pc' = pc /\ batch' = batch /\ file' = file /\ keep' = keep /\ prev' = prev
        /\ mem' = mem /\ side' = side /\ done' = done
    BY <1>3 DEF Tick
  <2>2. \A q \in Procs : Knows(q)'
    BY <1>2, <2>1, KnowsQuiet DEF CoveredLog
  <2> QED
    BY <1>2, <2>1, <2>2, QuietLog
<1>4. ASSUME NEW p \in Procs, Begin(p) \/ Step(p) \/ Crash(p) \/ CrashInWrite(p) PROVE CoveredLog'
  <2>1. CASE Truncate(p)
    BY <1>2, <2>1, CoveredTruncate
  <2>2. CASE Write(p) \/ GapWrite(p) \/ CrashInWrite(p)
    BY <1>1, <1>2, <2>2, CoveredAppend
  <2>3. CASE Begin(p) \/ Lock(p) \/ Drop(p) \/ Find(p) \/ Record(p) \/ Unlock(p) \/ Miss(p) \/ Invalidate(p) \/ Crash(p)
    BY <1>2, <2>3, CoveredQuiet
  <2> QED
    BY <1>4, <2>1, <2>2, <2>3 DEF Step
<1> QED
  BY <1>3, <1>4 DEF Next

\* The chain begins with an empty log.
LEMMA CoveredInit == Init => CoveredInv
<1> SUFFICES ASSUME Init PROVE CoveredLog
  BY DEF CoveredInv
<1>1. \A m \in Months : Size(m) = 0
  BY DEF Init, Size, Lines
<1>2. Clean /\ Chain
  BY <1>1 DEF Clean, Chain
<1>3. side = NoHead /\ done = {} /\ \A p \in Procs : pc[p] = "idle" /\ mem[p] = NoHead
  BY DEF Init
<1>4. \A p \in Procs : Knows(p)
  BY <1>3 DEF Knows, Placed, Remembered, Found, Landed
<1> QED
  BY <1>2, <1>3, <1>4 DEF CoveredLog

\* The chain, in every state.
LEMMA CoveredHolds == Spec => [](Base /\ CoveredInv)
<1>1. Base /\ CoveredInv /\ [Next]_vars => CoveredInv'
  <2>1. ASSUME Base, CoveredInv, Next PROVE CoveredInv'
    BY <2>1, CoveredStep
  <2>2. ASSUME Base, CoveredInv, UNCHANGED vars PROVE CoveredInv'
    <3>1. /\ log' = log /\ now' = now /\ pc' = pc /\ batch' = batch
          /\ file' = file /\ keep' = keep /\ prev' = prev /\ mem' = mem /\ side' = side
          /\ done' = done /\ torn' = torn /\ bare' = bare
      BY <2>2 DEF vars
    <3>2. Covered' => Covered
      BY <3>1 DEF Covered
    <3>3. ASSUME CoveredLog PROVE CoveredLog'
      <4>1. \A q \in Procs : Knows(q)'
        BY <2>2, <3>1, <3>3, KnowsQuiet DEF CoveredLog
      <4> QED
        BY <2>2, <3>1, <3>3, <4>1, QuietLog
    <3> QED
      BY <2>2, <3>2, <3>3 DEF CoveredInv
  <2> QED
    BY <2>1, <2>2
<1> QED
  BY <1>1, CoveredInit, BaseHolds, PTL DEF Spec

----------------------------------------------------------------------------
(* Gaps *)

\* With the lock, no predecessor means that there is no event.
LEMMA PredecessorNull ==
  ASSUME Base, CoveredLog, StrictInv, Strict, NEW p \in Procs, Predecessor(p, file[p]) = Null
  PROVE  \A n \in Months : \A j \in 1..Size(n) : ~Ev(n, j)
<1>1. PICK f \in Months : f = file[p]
  BY DEF Base, HistoryTypes
<1>2. \A m, i : Ev(m, i) => log[m][i].id # Null
  <2>1. \A m, i : Ev(m, i) => m \in Months /\ i \in 1..Size(m) /\ log[m][i].id \in 1..begun
    BY DEF Ev, Base, Unique
  <2>2. Null \notin 1..begun
    BY DEF Null, Base, HistoryTypes
  <2> QED
    BY <2>1, <2>2
<1>3. \A h \in Heads : HeadOK(h) => h.id # Null
  BY <1>2 DEF HeadOK
<1>4. ASSUME NEW n \in Months, TailHash(n) = Null PROVE Size(n) = 0
  <2>1. Size(n) \in Nat /\ (Size(n) # 0 => Size(n) \in 1..Size(n))
    BY LinesTyped DEF Base
  <2>2. ~torn
    BY DEF Strict
  <2>3. Size(n) # 0 => log[n][Size(n)].kind = "event"
    BY <2>1, <2>2 DEF CoveredLog, Clean
  <2>4. PICK s : s = Size(n)
    OBVIOUS
  <2>5. s # 0 => Ev(n, s)
    BY <2>1, <2>3, <2>4 DEF Ev
  <2>6. s # 0 => TailHash(n) = log[n][s].id
    BY <2>3, <2>4 DEF TailHash
  <2> QED
    BY <1>2, <1>4, <2>4, <2>5, <2>6
<1> DEFINE x == Predecessor(p, f)
<1>5. x = Null
  BY <1>1
<1>6. ~(mem[p] \in Heads /\ Holds(mem[p], f) /\ x = mem[p].id)
  BY <1>3, <1>5 DEF CoveredLog, Knows, Remembered, Holds
<1>7. ~(side \in Heads /\ Holds(side, f) /\ x = side.id)
  BY <1>3, <1>5 DEF CoveredLog, Holds
<1>8. ~(Size(f) > 0 /\ x = TailHash(f))
  BY <1>4, <1>5
<1>9. CASE Size(f) = 0 /\ \A n \in Months \ {f} : log[n] = NoFile
  <2>1. \A n \in Months : Size(n) = 0
    BY <1>9, LinesTyped DEF Base
  <2> QED
    BY <2>1
<1>10. CASE Size(f) = 0 /\ \E n \in Months \ {f} :
              /\ log[n] # NoFile /\ x = TailHash(n)
              /\ \A o \in Months \ {f} : log[o] # NoFile => o <= n
  <2>1. PICK n \in Months \ {f} : log[n] # NoFile /\ x = TailHash(n)
    BY <1>10
  <2>2. Size(n) = 0
    BY <1>4, <1>5, <2>1
  <2>3. log[n] = <<>>
    BY <2>1, <2>2, LinesTyped DEF Base
  <2>4. hollow /\ now < 3
    BY <2>3 DEF StrictInv, Strict
  <2>5. n <= now /\ f <= now /\ now \in Nat
    BY <1>1, <2>1 DEF Base, Locking, HistoryTypes, Months
  <2>6. ASSUME NEW k \in Months, log[k] # NoFile PROVE k = n \/ k = f
    <3>1. k <= now
      BY <2>6 DEF Base, Locking
    <3> QED
      BY <2>4, <2>5, <3>1 DEF Months
  <2>7. \A k \in Months : Size(k) = 0
    BY <1>10, <2>2, <2>6, LinesTyped DEF Base
  <2> QED
    BY <2>7
<1>11. \/ mem[p] \in Heads /\ Holds(mem[p], f) /\ x = mem[p].id
       \/ side \in Heads /\ Holds(side, f) /\ x = side.id
       \/ Size(f) > 0 /\ x = TailHash(f)
       \/ Size(f) = 0 /\ (\A n \in Months \ {f} : log[n] = NoFile) /\ x = Null
       \/ Size(f) = 0 /\ \E n \in Months \ {f} :
            /\ log[n] # NoFile /\ x = TailHash(n)
            /\ \A o \in Months \ {f} : log[o] # NoFile => o <= n
  BY PredecessorIs DEF Base
<1> HIDE DEF x
<1> QED
  BY <1>6, <1>7, <1>8, <1>9, <1>10, <1>11

\* Only the first event has no predecessor.
OnlyFirst ==
  \A m, i, n, j : Ev(m, i) /\ log[m][i].prev = Null /\ Ev(n, j) => ~Later(m, i, n, j)
NoEvents == \A n, j : ~Ev(n, j)

\* The same, of events.
LEMMA StrictIs ==
  StrictInv <=> /\ ~torn /\ bare = 0 => \A m \in Months : log[m] = <<>> => hollow
                /\ Strict => OnlyFirst /\ \A p \in Procs : pc[p] = "write" /\ prev[p] = Null => NoEvents
<1>1. \A m, i : Ev(m, i) => m \in Months /\ i \in 1..Size(m)
  BY DEF Ev
<1>2. NoEvents <=> \A n \in Months : \A j \in 1..Size(n) : ~Ev(n, j)
  BY <1>1 DEF NoEvents
<1>3. OnlyFirst <=> \A m \in Months : \A i \in 1..Size(m) : Ev(m, i) /\ log[m][i].prev = Null =>
                       \A n \in Months : \A j \in 1..Size(n) : Ev(n, j) => ~Later(m, i, n, j)
  BY <1>1 DEF OnlyFirst
<1> QED
  BY <1>2, <1>3 DEF StrictInv

\* And so of the next state.
LEMMA StrictIsAfter ==
  StrictInv' <=> /\ ~torn' /\ bare' = 0 => \A m \in Months : log'[m] = <<>> => hollow'
                 /\ Strict' => OnlyFirst' /\ \A p \in Procs : pc'[p] = "write" /\ prev'[p] = Null => NoEvents'
<1>1. (StrictInv <=> /\ ~torn /\ bare = 0 => \A m \in Months : log[m] = <<>> => hollow
                     /\ Strict => OnlyFirst /\ \A p \in Procs : pc[p] = "write" /\ prev[p] = Null => NoEvents)'
  BY StrictIs, PTL
<1> QED
  BY <1>1

\* A step that writes nothing.
LEMMA StrictQuiet ==
  ASSUME StrictInv, log' = log, bare' = 0 => bare = 0, torn => torn', hollow => hollow', Strict' => Strict,
         Strict => \A q \in Procs : pc'[q] = "write" /\ prev'[q] = Null => (pc[q] = "write" /\ prev[q] = Null) \/ NoEvents
  PROVE  StrictInv'
<1>1. \A m, i : Ev(m, i)' <=> Ev(m, i)
  BY Quiet
<1>2. (OnlyFirst => OnlyFirst') /\ (NoEvents => NoEvents')
  BY <1>1 DEF OnlyFirst, NoEvents, Later
<1>3. /\ ~torn /\ bare = 0 => \A m \in Months : log[m] = <<>> => hollow
      /\ Strict => OnlyFirst /\ \A p \in Procs : pc[p] = "write" /\ prev[p] = Null => NoEvents
  BY StrictIs
<1>5. ~torn' /\ bare' = 0 => \A m \in Months : log'[m] = <<>> => hollow'
  BY <1>3
<1>6. Strict' => OnlyFirst' /\ \A p \in Procs : pc'[p] = "write" /\ prev'[p] = Null => NoEvents'
  BY <1>2, <1>3
<1> QED
  BY <1>5, <1>6, StrictIsAfter

\* An append with the lock adds no gap, and leaves no file empty unless it leaves it for good.
LEMMA StrictAppend ==
  ASSUME Base, CoveredLog, Covered, StrictInv, Strict' => Strict,
         NEW p \in Procs, Write(p) \/ GapWrite(p) \/ CrashInWrite(p)
  PROVE  StrictInv'
<1> USE DEF history, caches, scratch
<1>1. HistoryTypes /\ Locking
  BY DEF Base
<1>2. PICK f \in Months : f = file[p]
  BY <1>1 DEF HistoryTypes
<1>3. pc[p] \in {"write", "gapWrite"} /\ batch[p] \in Seq(Nat)
  BY <1>1, AddsIs
<1>4. PICK newline, ls : Adds(p, newline, ls)
  BY <1>1, AddsIs
<1>5. /\ ~EndsMidLine(f) /\ \A n \in Months : n > f => Size(n) = 0
      /\ pc[p] = "gapWrite" => bare = 1
  BY <1>2, AppendAt
<1>6. More(f, ls) /\ \A n \in Months \ {f} : Size(n)' = Size(n) /\ log'[n] = log[n]
  BY <1>1, <1>2, <1>4, <1>5, MoreIs
<1>7. /\ Len(ls) \in Nat /\ Len(ls) <= Len(batch[p]) /\ (ls = <<>> => hollow') /\ ls \in Seq(Line)
      /\ \A k \in 1..Len(ls) : ls[k].prev = (IF k = 1 THEN Links(p) ELSE batch[p][k - 1]) \/ torn'
  BY <1>4 DEF Adds
<1>8. /\ bare' = bare /\ (torn => torn') /\ (hollow => hollow')
      /\ \A q \in Procs : pc'[q] = "write" => q # p /\ pc[q] = "write"
  <2>1. bare' = bare
    BY DEF Write, GapWrite, CrashInWrite, Dies
  <2>2. Next
    BY DEF Next, Step
  <2>3. \A q \in Procs : pc'[q] = "write" => q # p /\ pc[q] = "write"
    BY <1>1, BackIs DEF Write, GapWrite, CrashInWrite, Dies, Goto, HistoryTypes
  <2> QED
    BY <2>1, <2>2, <2>3, Backwards DEF Base
<1>9. /\ ~torn /\ bare = 0 => \A m \in Months : log[m] = <<>> => hollow
      /\ Strict => OnlyFirst /\ \A q \in Procs : pc[q] = "write" /\ prev[q] = Null => NoEvents
  BY StrictIs
<1>10. ASSUME ~torn', bare' = 0, NEW m \in Months, log'[m] = <<>> PROVE hollow'
  <2>1. CASE m # f
    BY <1>6, <1>8, <1>9, <1>10, <2>1
  <2>2. CASE m = f
    <3>1. Size(f)' = 0
      BY <1>10, <2>2 DEF Size, Lines
    <3>2. Len(ls) = 0
      BY <1>6, <1>7, <3>1 DEF More
    <3> QED
      BY <1>7, <3>2
  <2> QED
    BY <2>1, <2>2
<1>11. ASSUME Strict' PROVE OnlyFirst' /\ \A q \in Procs : pc'[q] = "write" /\ prev'[q] = Null => NoEvents'
  <2>1. Strict /\ OnlyFirst /\ ~torn' /\ bare = 0 /\ pc[p] = "write"
    BY <1>3, <1>5, <1>8, <1>9, <1>11 DEF Strict
  <2>2. /\ Links(p) = Null => NoEvents
        /\ \A q \in Procs : pc'[q] # "write"
    <3>1. \A q \in Procs : q # p => pc[q] # "write"
      BY <1>1, <2>1 DEF Locking, Inside
    <3> QED
      BY <1>8, <1>9, <2>1, <3>1 DEF Links
  <2>3. \A k \in 1..Len(ls) : ls[k].prev = Null => k = 1 /\ NoEvents
    <3> TAKE k \in 1..Len(ls)
    <3> HAVE ls[k].prev = Null
    <3>1. ls[k].prev = IF k = 1 THEN Links(p) ELSE batch[p][k - 1]
      BY <1>7, <2>1
    <3>2. \A j \in 1..Len(batch[p]) : batch[p][j] # Null
      <4>1. \A j \in 1..Len(batch[p]) : batch[p][j] \in 1..begun
        BY DEF Base, Unique
      <4>2. Null \notin 1..begun
        BY <1>1 DEF Null, HistoryTypes
      <4> QED
        BY <4>1, <4>2
    <3>3. k # 1 => k - 1 \in 1..Len(batch[p])
      <4>1. Len(batch[p]) \in Nat
        BY <1>3
      <4> QED
        BY <1>7, <4>1
    <3> QED
      BY <2>2, <3>1, <3>2, <3>3
  <2>4. /\ Size(f) \in Nat /\ f \in Nat
        /\ \A m, i : Ev(m, i) => log'[m][i] = log[m][i] /\ m \in Nat /\ i \in Nat /\ m <= f /\ (m = f => i <= Size(f))
        /\ \A m, i : Ev(m, i)' => \/ Ev(m, i)
                                  \/ m = f /\ i \in Nat /\ i > Size(f) /\ i - Size(f) \in 1..Len(ls) /\ log'[f][i] = ls[i - Size(f)]
    BY <1>6 DEF More, Months
  <2>5. ASSUME NEW m, NEW i, NEW n, NEW j, Ev(m, i)', log'[m][i].prev = Null, Ev(n, j)' PROVE ~Later(m, i, n, j)
    <3>1. CASE Ev(m, i) /\ Ev(n, j)
      BY <2>1, <2>4, <2>5, <3>1 DEF OnlyFirst
    <3>2. CASE Ev(m, i) /\ ~Ev(n, j)
      BY <2>4, <2>5, <3>2 DEF Later
    <3>3. CASE ~Ev(m, i)
      <4>1. m = f /\ i \in Nat /\ i > Size(f) /\ i - Size(f) = 1 /\ NoEvents
        BY <2>3, <2>4, <2>5, <3>3
      <4>2. n = f /\ j \in Nat /\ j > Size(f)
        BY <2>4, <2>5, <4>1 DEF NoEvents
      <4> QED
        BY <2>4, <4>1, <4>2 DEF Later
    <3> QED
      BY <3>1, <3>2, <3>3
  <2>6. OnlyFirst'
    BY <2>5 DEF OnlyFirst, Later
  <2> QED
    BY <2>2, <2>6
<1> QED
  BY <1>10, <1>11, StrictIsAfter

\* With the lock, and no death in a line, only the first event has no predecessor.
LEMMA StrictStep ==
  ASSUME Base, CoveredInv, StrictInv, Next
  PROVE  StrictInv'
<1> USE DEF history, caches, scratch
<1>1. /\ bare' >= bare /\ (torn => torn') /\ (hollow => hollow') /\ (Covered' => Covered) /\ (Strict' => Strict)
      /\ bare \in Nat /\ bare' \in Nat /\ HistoryTypes
  BY Backwards DEF Base, HistoryTypes
<1>2. bare' = 0 => bare = 0
  BY <1>1
<1>3. Strict => CoveredLog
  BY <1>1 DEF CoveredInv, Covered, Strict
<1>4. ASSUME NEW p \in Procs, Find(p) PROVE StrictInv'
  <2>1. /\ log' = log /\ prev'[p] = Predecessor(p, file[p])
        /\ \A q \in Procs : q # p => pc'[q] = pc[q] /\ prev'[q] = prev[q]
    BY <1>1, <1>4 DEF Find, Goto, HistoryTypes
  <2>2. Strict /\ prev'[p] = Null => NoEvents
    <3>1. ASSUME Strict, prev'[p] = Null PROVE \A n \in Months : \A j \in 1..Size(n) : ~Ev(n, j)
      BY <1>3, <2>1, <3>1, PredecessorNull
    <3> QED
      BY <3>1 DEF NoEvents, Ev
  <2>3. Strict => \A q \in Procs : pc'[q] = "write" /\ prev'[q] = Null => (pc[q] = "write" /\ prev[q] = Null) \/ NoEvents
    BY <2>1, <2>2
  <2> QED
    BY <1>1, <1>2, <2>1, <2>3, StrictQuiet
<1>5. ASSUME NEW p \in Procs,
             Begin(p) \/ Lock(p) \/ Drop(p) \/ Record(p) \/ Unlock(p) \/ Miss(p) \/ Invalidate(p) \/ Crash(p)
      PROVE  StrictInv'
  <2>1. log' = log
    BY <1>5 DEF Begin, Lock, Drop, Record, Unlock, Miss, Invalidate, Crash
  <2>2. \A q \in Procs : pc'[q] = "write" => pc[q] = "write" /\ prev'[q] = prev[q]
    <3>1. CASE Unlock(p) \/ Invalidate(p) \/ Crash(p)
      <4>1. Back(p)
        BY <3>1 DEF Unlock, Invalidate, Crash, Dies
      <4>2. pc'[p] = "idle" /\ \A q \in Procs \ {p} : pc'[q] = pc[q] /\ prev'[q] = prev[q]
        BY <1>1, <4>1, BackIs
      <4> QED
        BY <4>2
    <3>2. CASE Begin(p) \/ Lock(p) \/ Drop(p) \/ Record(p) \/ Miss(p)
      BY <1>1, <3>2 DEF Begin, Lock, Drop, Record, Miss, Goto, HistoryTypes
    <3> QED
      BY <1>5, <3>1, <3>2
  <2> QED
    BY <1>1, <1>2, <2>1, <2>2, StrictQuiet
<1>6. ASSUME Tick PROVE StrictInv'
  <2>1. log' = log /\ pc' = pc /\ prev' = prev
    BY <1>6 DEF Tick
  <2> QED
    BY <1>1, <1>2, <2>1, StrictQuiet
<1>7. ASSUME NEW p \in Procs, Truncate(p), Covered PROVE StrictInv'
  <2>1. torn /\ torn' = torn
    BY <1>7 DEF CoveredInv, CoveredLog, Knows, Placed, Truncate
  <2> QED
    BY <2>1 DEF StrictInv, Strict
<1>8. ASSUME ~Covered PROVE StrictInv'
  <2>1. bare > 0
    BY <1>8 DEF Covered
  <2>2. bare' # 0
    BY <1>1, <2>1
  <2> QED
    BY <2>2 DEF StrictInv, Strict
<1>9. ASSUME NEW p \in Procs, Write(p) \/ GapWrite(p) \/ CrashInWrite(p), Covered PROVE StrictInv'
  BY <1>1, <1>9, StrictAppend DEF CoveredInv
<1> QED
  BY <1>4, <1>5, <1>6, <1>7, <1>8, <1>9 DEF Next, Step

\* And all of it, in every state.
LEMMA HistoryHolds == Spec => [](Base /\ CoveredInv /\ StrictInv)
<1>1. Init => StrictInv
  <2> SUFFICES ASSUME Init PROVE StrictInv
    OBVIOUS
  <2>1. \A m \in Months : log[m] = NoFile /\ Size(m) = 0
    BY DEF Init, Size, Lines
  <2>2. <<>> \in Seq(Line)
    OBVIOUS
  <2>3. \A m \in Months : log[m] # <<>>
    BY <2>1, <2>2, FileAssumption
  <2> QED
    BY <2>1, <2>3 DEF StrictInv
<1>2. Base /\ CoveredInv /\ StrictInv /\ [Next]_vars => StrictInv'
  <2>1. ASSUME Base, CoveredInv, StrictInv, Next PROVE StrictInv'
    BY <2>1, StrictStep
  <2>2. ASSUME StrictInv, UNCHANGED vars PROVE StrictInv'
    <3>1. log' = log /\ torn' = torn /\ bare' = bare /\ hollow' = hollow /\ now' = now /\ pc' = pc /\ prev' = prev
      BY <2>2 DEF vars
    <3>2. Strict' => Strict
      BY <3>1 DEF Strict
    <3> QED
      BY <2>2, <3>1, <3>2, StrictQuiet
  <2> QED
    BY <2>1, <2>2
<1> QED
  BY <1>1, <1>2, CoveredHolds, PTL DEF Spec

----------------------------------------------------------------------------
(* The properties *)

\* A chain in the words of the properties.
LEMMA ChainSays ==
  ASSUME HistoryTypes, Chain, NEW x \in Events(log), At(log, x).prev # Null
  PROVE  \E y \in Events(log) : LinkOf(x, y) /\ \A z \in Earlier(log, x) : Before(y, z) => At(log, z).prev = Null
<1>1. PICK m, i : x = <<m, i>> /\ x[1] = m /\ x[2] = i /\ Ev(m, i) /\ At(log, x) = log[m][i]
  BY OrderIs
<1>2. m \in Months /\ i \in 1..Size(m)
  BY <1>1 DEF Ev
<1>3. PICK n \in Months : \E j \in 1..Size(n) : Follows(m, i, n, j)
  BY <1>1, <1>2 DEF Chain
<1>4. PICK j \in 1..Size(n) : Follows(m, i, n, j)
  BY <1>3
<1>5. PICK y : y = <<n, j>>
  OBVIOUS
<1>6. y \in Events(log) /\ y[1] = n /\ y[2] = j /\ At(log, y) = log[n][j]
  BY <1>4, <1>5, OrderIs DEF Follows, At
<1>7. \A u, v : Before(u, v) <=> Later(v[1], v[2], u[1], u[2])
  BY DEF Before, Later
<1>8. LinkOf(x, y)
  BY <1>1, <1>4, <1>6, <1>7 DEF LinkOf, Follows
<1>9. ASSUME NEW z \in Earlier(log, x), Before(y, z) PROVE At(log, z).prev = Null
  <2>1. z \in Events(log) /\ Before(z, x)
    BY DEF Earlier
  <2>2. Ev(z[1], z[2]) /\ At(log, z) = log[z[1]][z[2]]
    BY <2>1, OrderIs
  <2>3. Later(z[1], z[2], n, j) /\ Later(m, i, z[1], z[2])
    BY <1>1, <1>6, <1>7, <1>9, <2>1
  <2>4. z[1] \in Months /\ z[2] \in 1..Size(z[1])
    BY <2>2 DEF Ev
  <2> QED
    BY <1>4, <2>2, <2>3, <2>4 DEF Follows
<1> QED
  BY <1>6, <1>8, <1>9

\* Two events with one id are one.
LEMMA IdsDiffer ==
  ASSUME HistoryTypes, Unique, NEW x \in Events(log), NEW y \in Events(log), At(log, x).id = At(log, y).id
  PROVE  x = y
<1>1. /\ Ev(x[1], x[2]) /\ x = <<x[1], x[2]>> /\ At(log, x) = log[x[1]][x[2]]
      /\ Ev(y[1], y[2]) /\ y = <<y[1], y[2]>> /\ At(log, y) = log[y[1]][y[2]]
  BY OrderIs
<1>2. x[1] = y[1] /\ x[2] = y[2]
  BY <1>1 DEF Unique, Ev
<1> QED
  BY <1>1, <1>2

\* In a chain no two events name one predecessor.
LEMMA OneEach ==
  ASSUME HistoryTypes, Unique, Chain, NEW x \in Events(log), NEW y \in Events(log),
         At(log, x).prev = At(log, y).prev, At(log, x).prev # Null
  PROVE  x = y
<1>1. PICK u \in Events(log) : LinkOf(x, u) /\ \A z \in Earlier(log, x) : Before(u, z) => At(log, z).prev = Null
  BY ChainSays
<1>2. PICK v \in Events(log) : LinkOf(y, v) /\ \A z \in Earlier(log, y) : Before(v, z) => At(log, z).prev = Null
  BY ChainSays
<1>3. u = v
  BY <1>1, <1>2, IdsDiffer DEF LinkOf
<1>4. ~Before(x, y)
  <2>1. Before(x, y) => x \in Earlier(log, y) /\ Before(v, x)
    BY <1>1, <1>3 DEF LinkOf, Earlier
  <2> QED
    BY <1>2, <2>1
<1>5. ~Before(y, x)
  <2>1. Before(y, x) => y \in Earlier(log, x) /\ Before(u, y)
    BY <1>2, <1>3 DEF LinkOf, Earlier
  <2> QED
    BY <1>1, <2>1
<1> QED
  BY <1>4, <1>5, OrderIs

\* The log is one chain, while what the code does not cover does not happen: each event names an
\* earlier one with nothing but declared gaps in between, and no two name the same.
THEOREM LogIsOneChain == Spec => []OneChain
<1>1. ASSUME Base, CoveredInv PROVE OneChain
  <2> SUFFICES ASSUME Covered
               PROVE  /\ \A x \in Events(log) : At(log, x).prev # Null =>
                           \E y \in Events(log) :
                             /\ LinkOf(x, y)
                             /\ \A z \in Earlier(log, x) : Before(y, z) => At(log, z).prev = Null
                      /\ Forks(log) \subseteq {Null}
    BY DEF OneChain
  <2>1. HistoryTypes /\ Unique /\ Chain
    BY <1>1 DEF Base, CoveredInv, CoveredLog
  <2>2. ASSUME NEW f \in Forks(log), f # Null PROVE FALSE
    <3>1. PICK x \in Events(log), y \in Events(log) : x # y /\ At(log, x).prev = f /\ At(log, y).prev = f
      BY DEF Forks
    <3> QED
      BY <2>1, <2>2, <3>1, OneEach
  <2> QED
    BY <2>1, <2>2, ChainSays
<1> QED
  BY <1>1, CoveredHolds, PTL

\* An append that has returned true is in the log and stays there, under the same condition.
THEOREM AppendsStay == Spec => []AppendsLand
<1>1. ASSUME Base, CoveredInv PROVE AppendsLand
  <2> SUFFICES ASSUME Covered, NEW e \in done PROVE InLog(e)
    BY DEF AppendsLand
  <2>1. Logged(e)
    BY <1>1 DEF CoveredInv, CoveredLog
  <2>2. PICK m \in Months : \E i \in 1..Size(m) : Ev(m, i) /\ log[m][i].id = e
    BY <2>1 DEF Logged
  <2>3. PICK i \in 1..Size(m) : Ev(m, i) /\ log[m][i].id = e
    BY <2>2
  <2>4. <<m, i>> \in Events(log)
    BY <1>1, <2>3, OrderIs DEF Base
  <2>5. At(log, <<m, i>>).id = e
    BY <2>3 DEF At
  <2> QED
    BY <2>4, <2>5 DEF InLog
<1> QED
  BY <1>1, CoveredHolds, PTL

\* The verifier reads a log to which everybody appended with the lock, in one month, whoever died.
THEOREM VerifierReads == Spec => []VerifyAnswers
<1>1. ASSUME Base, CoveredInv PROVE VerifyAnswers
  <2> SUFFICES ASSUME bare = 0, now = 1, Refuses(log) PROVE FALSE
    BY DEF VerifyAnswers
  <2>1. Clean /\ HistoryTypes
    BY <1>1 DEF Base, CoveredInv, CoveredLog, Covered
  <2>2. DOMAIN log = Months
    BY <2>1 DEF HistoryTypes
  <2>3. PICK m \in Months : \E i \in 1..Len(Lines(log, m)) :
          log[m][i].kind # "event" /\ ~(i = Len(log[m]) /\ \A n \in Months : n > m => log[n] = NoFile)
    BY <2>2 DEF Refuses
  <2>4. PICK i \in 1..Size(m) :
          log[m][i].kind # "event" /\ ~(i = Len(log[m]) /\ \A n \in Months : n > m => log[n] = NoFile)
    BY <2>3 DEF Size
  <2>5. i = Size(m)
    BY <2>1, <2>4 DEF Clean
  <2>6. log[m] # NoFile /\ Size(m) = Len(log[m])
    BY <2>1, <2>4, LinesTyped DEF Size
  <2>7. \A n \in Months : n > m => log[n] = NoFile
    BY <1>1 DEF Base, Locking, Months
  <2> QED
    BY <2>4, <2>5, <2>6, <2>7
<1> QED
  BY <1>1, CoveredHolds, PTL

\* Gaps come of missed locks only: a log to which everybody appended with the lock verifies, if
\* nobody died in a line, nor, from the third month on, before the first line of a file.
THEOREM LockLeavesNoGap == Spec => []NoGapUnderLock
<1>1. ASSUME Base, CoveredInv, StrictInv PROVE NoGapUnderLock
  <2> SUFFICES ASSUME Strict PROVE Verified(log)
    BY DEF NoGapUnderLock, Strict
  <2>1. HistoryTypes /\ Unique /\ Clean /\ Chain /\ ~torn
    BY <1>1 DEF Base, CoveredInv, CoveredLog, Covered, Strict
  <2>2. \A x \in Events(log) : At(log, x).prev = Null => Earlier(log, x) = {}
    <3> SUFFICES ASSUME NEW x \in Events(log), At(log, x).prev = Null, NEW y \in Events(log), Before(y, x) PROVE FALSE
      BY DEF Earlier
    <3>1. /\ Ev(x[1], x[2]) /\ At(log, x) = log[x[1]][x[2]] /\ Ev(y[1], y[2])
          /\ Later(x[1], x[2], y[1], y[2])
      BY <2>1, OrderIs DEF Before, Later
    <3>2. OnlyFirst
      BY <1>1, StrictIs
    <3> QED
      BY <3>1, <3>2 DEF OnlyFirst
  <2>3. ~Refuses(log)
    <3>1. DOMAIN log = Months
      BY <2>1 DEF HistoryTypes
    <3>2. \A m \in Months : \A i \in 1..Len(Lines(log, m)) : log[m][i].kind = "event"
      BY <2>1 DEF Clean, Size
    <3> QED
      BY <3>1, <3>2 DEF Refuses
  <2>4. Dangling(log) = {}
    BY <2>1, ChainSays DEF Dangling, LinkOf
  <2>5. Gaps(log) = {}
    BY <2>2 DEF Gaps
  <2>6. Mismatched(log) = {}
    <3> SUFFICES ASSUME NEW x \in Events(log), At(log, x).prev # Null
                 PROVE  At(log, x).prev = At(log, Last(Earlier(log, x))).id
      BY DEF Mismatched
    <3>1. PICK y \in Events(log) : LinkOf(x, y) /\ \A z \in Earlier(log, x) : Before(y, z) => At(log, z).prev = Null
      BY <2>1, ChainSays
    <3>2. Earlier(log, x) \in SUBSET Events(log) /\ y \in Earlier(log, x)
      BY <3>1 DEF Earlier, LinkOf
    <3>3. ASSUME NEW z \in Earlier(log, x) \ {y} PROVE Before(z, y)
      <4>1. z \in Events(log)
        BY DEF Earlier
      <4>2. ~Before(y, z)
        <5>1. Before(y, z) => Earlier(log, z) # {}
          BY DEF Earlier
        <5> QED
          BY <2>2, <3>1, <4>1, <5>1
      <4> QED
        BY <2>1, <3>3, <4>1, <4>2, OrderIs
    <3>4. Last(Earlier(log, x)) = y
      BY <2>1, <3>2, <3>3, LastIs
    <3> QED
      BY <3>1, <3>4 DEF LinkOf
  <2>7. Forks(log) = {}
    <3> SUFFICES ASSUME NEW x \in Events(log), NEW y \in Events(log), x # y, At(log, x).prev = At(log, y).prev
                 PROVE  FALSE
      BY DEF Forks
    <3>1. At(log, x).prev = Null
      BY <2>1, OneEach
    <3>2. Before(x, y) \/ Before(y, x)
      BY <2>1, OrderIs
    <3>3. Earlier(log, x) # {} \/ Earlier(log, y) # {}
      BY <3>2 DEF Earlier
    <3> QED
      BY <2>2, <3>1, <3>3
  <2> QED
    BY <2>3, <2>4, <2>5, <2>6, <2>7 DEF Verified
<1> QED
  BY <1>1, HistoryHolds, PTL

==============================================================================
