--------------------------- MODULE InProcessProofs ---------------------------
(***************************************************************************)
(* What the calls of one server share beside the lock.                     *)
(*                                                                         *)
(* The snapshot of a store: stamps never go back, a snapshot is never      *)
(* stamped later than the file it holds was, and a store's own writes      *)
(* after its snapshot are those of a pull that has not returned.           *)
(*                                                                         *)
(* The view of a remote store: a listing read while no row goes has every  *)
(* row of its first pages that was there when it began, so that the last   *)
(* page leaves none out; that takes the count of the rows listed before    *)
(* another.                                                                *)
(*                                                                         *)
(* The sessions' scopes: a write that has its key goes to a scope that was *)
(* its own, or asks for its own session's.                                 *)
(*                                                                         *)
(* The queue of a key: its runs never overlap, they start in the order of  *)
(* their calls, and eviction never splits the waiters of a key across two  *)
(* mutexes; so that each key is a StoreMutex of its own.                   *)
(***************************************************************************)
EXTENDS StoreCache, RemoteCache, SessionScopes, AsyncMutex, FiniteSetTheorems, WellFoundedInduction, TLAPS

----------------------------------------------------------------------------
(* The snapshot of a store *)

Stamps == {NoSnapshot} \cup Nat

CacheTypes ==
  /\ tick \in Nat
  /\ writes \in Seq([by : Readers, at : Nat])
  /\ statted \in [Readers -> Stamps]
  /\ snapshot \in [Readers -> {NoSnapshot} \cup [mtime : Nat, seq : Nat]]
  /\ pulling \in [Readers -> BOOLEAN]

\* The clock only goes on, and with it the stamps of the file.
StampsGoOn ==
  /\ \A n \in 1..Len(writes) : writes[n].at <= tick
  /\ \A m, n \in 1..Len(writes) : m <= n => writes[m].at <= writes[n].at

\* A stamp was the file's when it was taken, so what is written later bears no earlier
\* one; a snapshot holds the file of its stamp or a later one.
StampsAreOld ==
  \A r \in Readers :
    /\ statted[r] # NoSnapshot => statted[r] <= tick
    /\ snapshot[r] # NoSnapshot =>
         /\ snapshot[r].mtime <= tick
         /\ \A n \in 1..Len(writes) : n > snapshot[r].seq => snapshot[r].mtime <= writes[n].at

\* Between the stat and the read a store writes nothing, and a write of its own takes
\* its snapshot away; only a pull leaves it, until it returns.
OwnWritesShow ==
  \A r \in Readers :
    snapshot[r] # NoSnapshot =>
      /\ snapshot[r].seq <= Len(writes)
      /\ \A n \in 1..Len(writes) : n > snapshot[r].seq /\ writes[n].by = r => pulling[r]

CacheInv == CacheTypes /\ StampsGoOn /\ StampsAreOld /\ OwnWritesShow

\* A cache begins empty.
LEMMA CacheStarts == CacheInit => CacheInv
  BY CacheAssumption DEF CacheInit, CacheInv, CacheTypes, Stamps, StampsGoOn, StampsAreOld,
     OwnWritesShow

\* What a replacement of the file adds, whoever replaces it.
LEMMA FileReplaced ==
  ASSUME CacheTypes, NEW r \in Readers, ReplaceFile(r)
  PROVE  /\ writes' \in Seq([by : Readers, at : Nat])
         /\ Len(writes') = Len(writes) + 1
         /\ \A n \in 1..Len(writes) : writes'[n] = writes[n]
         /\ writes'[Len(writes) + 1] = [by |-> r, at |-> tick]
  BY DEF ReplaceFile, CacheTypes

\* What is at a place of a sequence.
LEMMA ElementOf == ASSUME NEW S, NEW q \in Seq(S), NEW n \in 1..Len(q) PROVE q[n] \in S
  OBVIOUS

\* What the types say of the stamps.
LEMMA StampOf ==
  ASSUME CacheTypes, NEW n \in 1..Len(writes)
  PROVE  writes[n] \in [by : Readers, at : Nat] /\ writes[n].at \in Nat
<1>1. writes[n] \in [by : Readers, at : Nat]
  BY ElementOf DEF CacheTypes
<1> QED
  BY <1>1

\* The stamp of the file is that of its last write.
LEMMA LatestStamp ==
  ASSUME CacheTypes, Latest # 0
  PROVE  /\ Len(writes) \in 1..Len(writes) /\ Mtime = writes[Len(writes)].at
         /\ writes[Len(writes)] \in [by : Readers, at : Nat] /\ Mtime \in Nat
<1>1. Len(writes) \in 1..Len(writes)
  BY DEF CacheTypes, Latest
<1>2. writes[Len(writes)] \in [by : Readers, at : Nat]
  BY <1>1, StampOf
<1> QED
  BY <1>1, <1>2 DEF Mtime, Latest

\* Every step keeps the types ...
LEMMA CacheTypesKept == CacheTypes /\ [CacheNext]_cacheVars => CacheTypes'
<1> SUFFICES ASSUME CacheTypes, [CacheNext]_cacheVars PROVE CacheTypes'
  OBVIOUS
<1> USE CacheAssumption DEF CacheTypes, Stamps
<1>1. CASE Tick
  BY <1>1 DEF Tick
<1>2. ASSUME NEW r \in Readers, Stat(r) PROVE CacheTypes'
  <2>1. Mtime \in Nat
    BY <1>2, LatestStamp DEF Stat
  <2> QED BY <1>2, <2>1 DEF Stat
<1>3. ASSUME NEW r \in Readers, Read(r) PROVE CacheTypes'
  <2>1. Latest \in Nat /\ statted[r] \in Nat
    BY <1>3 DEF Read, Latest
  <2> QED BY <1>3, <2>1 DEF Read
<1>4. ASSUME NEW r \in Readers, SaveThrough(r) \/ Pull(r) PROVE CacheTypes'
  <2>1. writes' \in Seq([by : Readers, at : Nat])
    BY <1>4, FileReplaced DEF SaveThrough, Pull
  <2>2. CASE SaveThrough(r)
    BY <2>1, <2>2 DEF SaveThrough
  <2>3. CASE Pull(r)
    BY <2>1, <2>3 DEF Pull
  <2> QED BY <1>4, <2>2, <2>3
<1>5. ASSUME NEW r \in Readers, Invalidate(r) PROVE CacheTypes'
  BY <1>5 DEF Invalidate
<1>6. CASE UNCHANGED cacheVars
  BY <1>6 DEF cacheVars
<1> QED
  BY <1>1, <1>2, <1>3, <1>4, <1>5, <1>6 DEF CacheNext

\* ... and the rest of what is known of stamps and writes.
LEMMA CacheKept == CacheInv /\ [CacheNext]_cacheVars => CacheInv'
<1> SUFFICES ASSUME CacheInv, [CacheNext]_cacheVars PROVE CacheInv'
  OBVIOUS
<1>0. CacheTypes /\ CacheTypes'
  BY CacheTypesKept DEF CacheInv
<1>1. CASE Tick
  <2>1. tick <= tick' /\ UNCHANGED <<writes, statted, snapshot, pulling>>
    BY <1>0, <1>1 DEF Tick, CacheTypes
  <2>a. \A n \in 1..Len(writes) : writes[n].at \in Nat
    BY <1>0, StampOf
  <2>b. tick \in Nat /\ tick' \in Nat
    BY <1>0 DEF CacheTypes
  <2>2. StampsGoOn'
    <3>1. \A n \in 1..Len(writes) : writes[n].at <= tick
      BY DEF CacheInv, StampsGoOn
    <3>2. \A n \in 1..Len(writes) : writes[n].at <= tick'
      BY <2>1, <2>a, <2>b, <3>1
    <3>3. \A m, n \in 1..Len(writes) : m <= n => writes[m].at <= writes[n].at
      BY DEF CacheInv, StampsGoOn
    <3> QED
      BY <2>1, <3>2, <3>3 DEF StampsGoOn
  <2>3. StampsAreOld'
    BY <1>0, <2>1, CacheAssumption DEF CacheInv, StampsAreOld, CacheTypes, Stamps
  <2>4. OwnWritesShow'
    BY <2>1 DEF CacheInv, OwnWritesShow
  <2> QED BY <1>0, <2>2, <2>3, <2>4 DEF CacheInv
<1>2. ASSUME NEW r \in Readers, Stat(r) PROVE CacheInv'
  <2>1. Latest # 0 /\ Mtime <= tick
    BY <1>0, <1>2, LatestStamp DEF Stat, CacheInv, StampsGoOn
  <2>2. StampsGoOn' /\ OwnWritesShow'
    BY <1>2 DEF Stat, CacheInv, StampsGoOn, OwnWritesShow
  <2>3. StampsAreOld'
    BY <1>0, <1>2, <2>1 DEF Stat, CacheInv, StampsAreOld, CacheTypes
  <2> QED BY <1>0, <2>2, <2>3 DEF CacheInv
<1>3. ASSUME NEW r \in Readers, Read(r) PROVE CacheInv'
  <2>1. StampsGoOn'
    BY <1>3 DEF Read, CacheInv, StampsGoOn
  <2>0. /\ UNCHANGED <<tick, writes, pulling>>
        /\ snapshot'[r] = [mtime |-> statted[r], seq |-> Len(writes)] /\ statted[r] # NoSnapshot
        /\ \A q \in Readers : q # r => snapshot'[q] = snapshot[q]
        /\ \A q \in Readers : statted'[q] # NoSnapshot => statted'[q] = statted[q]
    BY <1>0, <1>3 DEF Read, Latest, CacheTypes
  <2>a. Len(writes) \in Nat
    BY <1>0 DEF CacheTypes
  <2>2. StampsAreOld'
    BY <2>0, <2>a DEF CacheInv, StampsAreOld
  <2>3. OwnWritesShow'
    BY <2>0, <2>a DEF CacheInv, OwnWritesShow
  <2> QED BY <1>0, <2>1, <2>2, <2>3 DEF CacheInv
<1>4. ASSUME NEW r \in Readers, SaveThrough(r) \/ Pull(r) PROVE CacheInv'
  <2>0. ReplaceFile(r) /\ tick' = tick /\ statted' = statted
    BY <1>4 DEF SaveThrough, Pull
  <2>a. /\ Len(writes') = Len(writes) + 1
        /\ \A n \in 1..Len(writes) : writes'[n] = writes[n]
        /\ writes'[Len(writes) + 1].by = r /\ writes'[Len(writes) + 1].at = tick
    <3>1. /\ Len(writes') = Len(writes) + 1
          /\ \A n \in 1..Len(writes) : writes'[n] = writes[n]
          /\ writes'[Len(writes) + 1] = [by |-> r, at |-> tick]
      BY <1>0, <2>0, FileReplaced, Zenon
    <3> QED BY <3>1
  <2>b. Len(writes) \in Nat /\ tick \in Nat
    BY <1>0 DEF CacheTypes
  <2>1. StampsGoOn'
    <3>1. \A n \in 1..Len(writes') : n \in 1..Len(writes) \/ n = Len(writes) + 1
      BY <2>a, <2>b
    <3>2. \A n \in 1..Len(writes) : writes[n].at \in Nat
      BY <1>0, StampOf
    <3>3. /\ \A n \in 1..Len(writes) : writes[n].at <= tick
          /\ \A m, n \in 1..Len(writes) : m <= n => writes[m].at <= writes[n].at
      BY DEF CacheInv, StampsGoOn
    <3>4. \A n \in 1..Len(writes') : writes'[n].at <= tick'
      BY <2>0, <2>a, <2>b, <3>1, <3>3
    <3>5. ASSUME NEW m \in 1..Len(writes'), NEW n \in 1..Len(writes'), m <= n
          PROVE  writes'[m].at <= writes'[n].at
      <4>1. CASE n \in 1..Len(writes)
        <5>1. m \in 1..Len(writes)
          BY <2>a, <2>b, <3>5, <4>1
        <5> QED
          BY <2>a, <3>3, <3>5, <4>1, <5>1
      <4>2. CASE n = Len(writes) + 1
        <5>1. m \in 1..Len(writes) => writes'[m].at <= tick
          BY <2>a, <3>3
        <5>2. m = Len(writes) + 1 => writes'[m].at <= tick
          BY <2>a, <2>b
        <5> QED
          BY <2>a, <3>1, <4>2, <5>1, <5>2
      <4> QED
        BY <3>1, <4>1, <4>2
    <3> QED BY <3>4, <3>5 DEF StampsGoOn
  <2>2. \A q \in Readers : snapshot'[q] # NoSnapshot => snapshot'[q] = snapshot[q]
    BY <1>0, <1>4 DEF SaveThrough, Pull, CacheTypes
  <2>3. StampsAreOld'
    <3> SUFFICES ASSUME NEW q \in Readers
                 PROVE  /\ statted'[q] # NoSnapshot => statted'[q] <= tick'
                        /\ snapshot'[q] # NoSnapshot =>
                             /\ snapshot'[q].mtime <= tick'
                             /\ \A n \in 1..Len(writes') :
                                  n > snapshot'[q].seq => snapshot'[q].mtime <= writes'[n].at
      BY DEF StampsAreOld
    <3>1. statted'[q] # NoSnapshot => statted'[q] <= tick'
      BY <2>0 DEF CacheInv, StampsAreOld
    <3>2. ASSUME snapshot'[q] # NoSnapshot, NEW n \in 1..Len(writes'), n > snapshot'[q].seq
          PROVE  snapshot'[q].mtime <= writes'[n].at
      BY <2>0, <2>2, <2>a, <2>b, <3>2 DEF CacheInv, StampsAreOld
    <3> QED BY <2>0, <2>2, <3>1, <3>2 DEF CacheInv, StampsAreOld
  <2>4. OwnWritesShow'
    <3> SUFFICES ASSUME NEW q \in Readers, snapshot'[q] # NoSnapshot
                 PROVE  /\ snapshot'[q].seq <= Len(writes')
                        /\ \A n \in 1..Len(writes') :
                             n > snapshot'[q].seq /\ writes'[n].by = q => pulling'[q]
      BY DEF OwnWritesShow
    <3>1. snapshot'[q].seq \in Nat /\ snapshot'[q].seq <= Len(writes)
      BY <1>0, <2>2 DEF CacheInv, OwnWritesShow, CacheTypes
    <3>2. pulling[q] => pulling'[q]
      BY <1>0, <1>4 DEF SaveThrough, Pull, CacheTypes
    <3>3. q = r => pulling'[q]
      BY <1>0, <1>4 DEF SaveThrough, Pull, CacheTypes
    <3>4. ASSUME NEW n \in 1..Len(writes'), n > snapshot'[q].seq, writes'[n].by = q PROVE pulling'[q]
      <4>1. CASE n \in 1..Len(writes)
        BY <2>2, <2>a, <3>2, <3>4, <4>1 DEF CacheInv, OwnWritesShow
      <4>2. CASE n = Len(writes) + 1
        BY <2>a, <3>3, <3>4, <4>2
      <4> QED BY <2>a, <2>b, <3>4, <4>1, <4>2
    <3> QED BY <2>a, <2>b, <3>1, <3>4
  <2> QED BY <1>0, <2>1, <2>3, <2>4 DEF CacheInv
<1>5. ASSUME NEW r \in Readers, Invalidate(r) PROVE CacheInv'
  <2>1. /\ UNCHANGED <<tick, writes, statted>>
        /\ \A q \in Readers : snapshot'[q] # NoSnapshot => q # r /\ snapshot'[q] = snapshot[q]
        /\ \A q \in Readers : q # r => pulling'[q] = pulling[q]
    BY <1>0, <1>5 DEF Invalidate, CacheTypes
  <2>2. StampsGoOn' /\ StampsAreOld' /\ OwnWritesShow'
    BY <2>1 DEF CacheInv, StampsGoOn, StampsAreOld, OwnWritesShow
  <2> QED BY <1>0, <2>2 DEF CacheInv
<1>6. CASE UNCHANGED cacheVars
  BY <1>0, <1>6 DEF cacheVars, CacheInv, StampsGoOn, StampsAreOld, OwnWritesShow
<1> QED
  BY <1>1, <1>2, <1>3, <1>4, <1>5, <1>6 DEF CacheNext

\* The snapshot's stamp is the file's: every write after the snapshot lies between the two.
LEMMA CacheTiesOnly == CacheInv => HitMissesOnlyTies
<1> SUFFICES ASSUME CacheInv, NEW r \in Readers, Hit(r),
                    NEW n \in (snapshot[r].seq + 1)..Latest
             PROVE  /\ writes[n].at = snapshot[r].mtime
                    /\ writes[n].by = r => pulling[r]
  BY DEF HitMissesOnlyTies
<1>1. /\ snapshot[r] # NoSnapshot /\ snapshot[r].seq \in Nat /\ snapshot[r].mtime \in Nat
      /\ Len(writes) \in Nat \ {0} /\ snapshot[r].mtime = writes[Len(writes)].at
  BY DEF Hit, Mtime, Latest, CacheInv, CacheTypes
<1>2. n \in 1..Len(writes) /\ n > snapshot[r].seq /\ Len(writes) \in 1..Len(writes)
  BY <1>1 DEF Latest
<1>3. writes[n].at \in Nat /\ snapshot[r].mtime <= writes[n].at /\ writes[n].at <= writes[Len(writes)].at
  BY <1>1, <1>2, StampOf DEF CacheInv, StampsGoOn, StampsAreOld
<1> QED
  BY <1>1, <1>2, <1>3 DEF CacheInv, OwnWritesShow

\* A cached read misses only writes that share its snapshot's tick, and none of the
\* store's own that has returned (loadCached and save of yaml-primary-store.ts), for any
\* number of stores and writes.
THEOREM CacheMissesTies == CacheSpec => []HitMissesOnlyTies
<1>1. CacheInit => CacheInv
  BY CacheStarts
<1>2. CacheInv /\ [CacheNext]_cacheVars => CacheInv'
  BY CacheKept
<1>3. CacheInv => HitMissesOnlyTies
  BY CacheTiesOnly
<1> QED
  BY <1>1, <1>2, <1>3, PTL DEF CacheSpec

----------------------------------------------------------------------------
(* The view of a remote store *)

Views == [ts : Nat, ids : SUBSET Ids]
Loads == [at : {"next", "sent", "complete", "broken"}, pages : Nat, all : SUBSET Ids,
          known : SUBSET Ids, steady : BOOLEAN]
Requests == [kind : {"append", "remove"}, store : Stores, id : Ids]

RemoteTypeOK ==
  /\ live \in [Stores -> SUBSET Ids] /\ minted \in SUBSET Ids
  /\ granted \in [Stores -> BOOLEAN] /\ hostUp \in BOOLEAN
  /\ now \in Nat /\ now >= TTL
  /\ cached \in [Stores -> Views \union {Nothing}] /\ loading \in [Stores -> Loads \union {Nothing}]
  /\ request \in Requests \union {Nothing} /\ markedAt \in Nat \union {Nothing}
  /\ basis \in [Stores -> [known : SUBSET Ids, steady : BOOLEAN]]
  /\ confirmed \in [Stores -> SUBSET Ids] /\ retired \in [Stores -> SUBSET Ids]
  /\ trouble \in Nat

\* The server gives its ids in their order, and none twice.
InOrder ==
  /\ IsFiniteSet(minted)
  /\ \A m \in minted, o \in Ids \ minted : m < o
  /\ \A s \in Stores : live[s] \subseteq minted /\ confirmed[s] \subseteq minted /\ retired[s] \subseteq minted
  /\ request # Nothing => request.id \in minted

\* What is removed is not on the server, in a load, in the cache or about to join it.
Gone ==
  /\ \A s \in Stores : \A id \in retired[s] :
       /\ id \notin live[s]
       /\ cached[s] # Nothing => id \notin cached[s].ids
       /\ loading[s] # Nothing => id \notin loading[s].all
       /\ request # Nothing => ~(request.kind = "append" /\ request.store = s /\ request.id = id)
  /\ request # Nothing /\ request.kind = "remove" => request.id \notin live[request.store]

\* A listing read while no row goes has every row of its first pages that was there when
\* it began, and whoever was pushed before began was.
Listing ==
  \A s \in Stores : loading[s] # Nothing /\ loading[s].steady =>
    /\ granted[s] /\ loading[s].known \subseteq live[s] /\ loading[s].all \subseteq live[s]
    /\ confirmed[s] \intersect live[s] \subseteq loading[s].known
    /\ \A id \in loading[s].known : Position(s, id) < loading[s].pages * PageSize => id \in loading[s].all
    /\ loading[s].at = "complete" => loading[s].known \subseteq loading[s].all

\* So has the cache it became.
View ==
  \A s \in Stores : cached[s] # Nothing /\ cached[s].ts > 0 /\ basis[s].steady =>
    /\ basis[s].known \subseteq minted
    /\ (basis[s].known \union confirmed[s]) \intersect live[s] \subseteq cached[s].ids

RemoteInv == RemoteTypeOK /\ InOrder /\ Gone /\ Listing /\ View

----------------------------------------------------------------------------
(* Pages *)

\* A set of ids has a least one.
LEMMA Least ==
  ASSUME NEW T \in SUBSET Nat, T # {}
  PROVE  \E x \in T : \A y \in T : x <= y
<1> DEFINE R == OpToRel(<, Nat)
<1>1. IsWellFoundedOn(R, Nat)
  BY NatLessThanWellFounded
<1>2. \A x, y \in Nat : <<y, x>> \notin R => ~(y < x)
  BY DEF OpToRel
<1> HIDE DEF R
<1>3. \E x \in T : \A y \in T : ~(<<y, x>> \in R)
  BY <1>1, WFMin
<1>4. PICK x \in T : \A y \in T : ~(<<y, x>> \in R)
  BY <1>3
<1>5. \A y \in T : x \in Nat /\ y \in Nat /\ ~(y < x)
  BY <1>2, <1>4
<1>6. \A y \in T : x <= y
  BY <1>5
<1> QED
  BY <1>6

\* The next id comes after all that have been given.
LEMMA NextIds ==
  ASSUME minted \in SUBSET Ids, Ids # minted
  PROVE  NextId \in Ids \ minted /\ \A o \in Ids \ minted : NextId <= o
<1>1. Ids \ minted \in SUBSET Nat /\ Ids \ minted # {}
  BY RemoteAssumption
<1>2. \E x \in Ids \ minted : \A o \in Ids \ minted : x <= o
  BY <1>1, Least
<1> QED
  BY <1>2 DEF NextId

\* An id that is listed before another is in a place before it.
LEMMA Places ==
  ASSUME NEW L \in SUBSET Nat, IsFiniteSet(L), NEW a \in L
  PROVE  /\ Cardinality({x \in L : x < a}) \in Nat
         /\ \A b \in L : b < a => Cardinality({x \in L : x < b}) < Cardinality({x \in L : x < a})
<1>1. \A b \in L : IsFiniteSet({x \in L : x < b}) /\ Cardinality({x \in L : x < b}) \in Nat
  <2> SUFFICES ASSUME NEW b \in L PROVE IsFiniteSet({x \in L : x < b}) /\ Cardinality({x \in L : x < b}) \in Nat
    OBVIOUS
  <2>1. IsFiniteSet({x \in L : x < b})
    BY FS_Subset
  <2> QED
    BY <2>1, FS_CardinalityType
<1>2. ASSUME NEW b \in L, b < a
      PROVE  Cardinality({x \in L : x < b}) < Cardinality({x \in L : x < a})
  <2> DEFINE A == {x \in L : x < a}
             B == {x \in L : x < b}
  <2>0. \A x \in L : x < b => x < a
    <3>1. \A x \in L : x \in Nat
      OBVIOUS
    <3> QED
      BY <1>2, <3>1
  <2>a. b \in Nat /\ ~(b < b)
    OBVIOUS
  <2>1. B \in SUBSET A /\ b \in A /\ b \notin B
    BY <1>2, <2>0, <2>a, Zenon
  <2>2. IsFiniteSet(A) /\ Cardinality(A) \in Nat /\ Cardinality(B) \in Nat
    BY <1>1
  <2> HIDE DEF A, B
  <2>3. Cardinality(B) <= Cardinality(A) /\ (Cardinality(A) = Cardinality(B) => A = B)
    BY <2>1, <2>2, FS_Subset
  <2>4. Cardinality(B) < Cardinality(A)
    BY <2>1, <2>2, <2>3
  <2> QED
    BY <2>4 DEF A, B
<1> QED
  BY <1>1, <1>2

\* Where a row is listed, every place before it is some row's.
LEMMA PlacesFilled ==
  ASSUME NEW L \in SUBSET Nat, IsFiniteSet(L), NEW a \in L, NEW n \in Nat,
         n < Cardinality({x \in L : x < a})
  PROVE  \E b \in L : Cardinality({x \in L : x < b}) = n
<1> DEFINE S == {x \in L : x < a}
           place(b) == Cardinality({x \in L : x < b})
           k == place(a)
           f == [b \in S |-> place(b)]
<1>1. \A b \in L : place(b) \in Nat
  BY Places
<1>2. \A b, c \in L : b < c => place(b) < place(c)
  BY Places
<1>3. IsFiniteSet(S) /\ Cardinality(S) = k
  BY FS_Subset
<1>4. k \in Nat /\ IsFiniteSet(0..(k - 1)) /\ Cardinality(0..(k - 1)) = k
  <2>1. k \in Nat
    BY <1>1
  <2> HIDE DEF k
  <2>2. IsFiniteSet(0..(k - 1)) /\ Cardinality(0..(k - 1)) = IF 0 > k - 1 THEN 0 ELSE (k - 1) - 0 + 1
    BY <2>1, FS_Interval
  <2> QED
    BY <2>1, <2>2
<1>5. f \in [S -> 0..(k - 1)]
  <2>1. \A b \in S : place(b) \in Nat /\ place(b) < k
    BY <1>1, <1>2
  <2> HIDE DEF place, S
  <2>2. \A b \in S : place(b) \in 0..(k - 1)
    BY <1>4, <2>1
  <2> QED
    BY <2>2
<1>6. \A b, c \in S : f[b] = f[c] => b = c
  <2> SUFFICES ASSUME NEW b \in S, NEW c \in S, b # c PROVE place(b) # place(c)
    OBVIOUS
  <2>1. b < c \/ c < b
    OBVIOUS
  <2>2. place(b) \in Nat /\ place(c) \in Nat
    BY <1>1
  <2>3. b < c => place(b) < place(c)
    BY <1>2
  <2>4. c < b => place(c) < place(b)
    BY <1>2
  <2> HIDE DEF place
  <2> QED
    BY <2>1, <2>2, <2>3, <2>4
<1>0. S \subseteq L /\ n < k
  OBVIOUS
<1>f. \A b \in S : f[b] = place(b)
  OBVIOUS
<1> HIDE DEF f, k, S, place
<1>7. f \in Injection(S, 0..(k - 1))
  BY <1>5, <1>6 DEF Injection, IsInjective
<1>8. f \in Surjection(S, 0..(k - 1))
  BY <1>3, <1>4, <1>7, FS_Injection
<1>9. \E b \in S : f[b] = n
  BY <1>0, <1>4, <1>8 DEF Surjection
<1>10. \E b \in L : place(b) = n
  BY <1>0, <1>9, <1>f
<1> QED
  BY <1>10 DEF place

\* A page that is short is the last: no row is listed behind it.
LEMMA ShortPageEnds ==
  ASSUME NEW L \in SUBSET Nat, IsFiniteSet(L), NEW a \in L, NEW offset \in Nat, NEW size \in Nat \ {0},
         Cardinality({x \in L : x < a}) >= offset + size
  PROVE  Cardinality({b \in L : Cardinality({x \in L : x < b}) \in offset..(offset + size - 1)}) >= size
<1> DEFINE place(b) == Cardinality({x \in L : x < b})
           P == {b \in L : place(b) \in offset..(offset + size - 1)}
           I == offset..(offset + size - 1)
           g == [b \in P |-> place(b)]
<1>1. g \in [P -> I]
  OBVIOUS
<1>2. ASSUME NEW n \in I PROVE \E b \in P : g[b] = n
  <2>1. n \in Nat /\ n < offset + size
    OBVIOUS
  <2>2. place(a) \in Nat
    BY Places
  <2>3. n < place(a)
    BY <2>1, <2>2
  <2>4. \E b \in L : place(b) = n
    BY <2>1, <2>3, PlacesFilled
  <2> QED
    BY <2>4
<1>3. IsFiniteSet(P)
  BY FS_Subset
<1>4. Cardinality(I) = size
  <2>1. Cardinality(I) = IF offset > offset + size - 1 THEN 0 ELSE (offset + size - 1) - offset + 1
    BY FS_Interval
  <2> QED
    BY <2>1
<1> HIDE DEF g, I, P, place
<1>5. g \in Surjection(P, I)
  BY <1>1, <1>2 DEF Surjection
<1>6. Cardinality(I) <= Cardinality(P)
  BY <1>3, <1>5, FS_Surjection
<1> QED
  BY <1>4, <1>6 DEF P, place

----------------------------------------------------------------------------
(* Steps *)

\* The types of a load that goes on, and of a cache that a row joins.
LEMMA LoadFields ==
  ASSUME NEW v \in Loads
  PROVE  /\ v.at \in {"next", "sent", "complete", "broken"} /\ v.pages \in Nat /\ v.all \in SUBSET Ids
         /\ v.known \in SUBSET Ids /\ v.steady \in BOOLEAN
         /\ \A at \in {"next", "sent", "complete", "broken"} : [v EXCEPT !.at = at] \in Loads
         /\ [v EXCEPT !.steady = FALSE] \in Loads
BY DEF Loads

\* A load that is under way is one.
LEMMA LoadTyped ==
  ASSUME RemoteTypeOK, NEW s \in Stores, loading[s] # Nothing
  PROVE  loading[s] \in Loads
BY DEF RemoteTypeOK

\* One load goes on to another stage.
LEMMA GoesTo ==
  ASSUME RemoteTypeOK, NEW s \in Stores, NEW at \in {"next", "sent", "complete", "broken"},
         loading[s] # Nothing, LoadGoto(s, at)
  PROVE  /\ loading' \in [Stores -> Loads \union {Nothing}]
         /\ loading'[s].at = at /\ loading'[s].pages = loading[s].pages /\ loading'[s].all = loading[s].all
         /\ loading'[s].known = loading[s].known /\ loading'[s].steady = loading[s].steady
         /\ \A t \in Stores \ {s} : loading'[t] = loading[t]
<1>1. loading[s] \in Loads /\ loading \in [Stores -> Loads \union {Nothing}]
  BY LoadTyped DEF RemoteTypeOK
<1>2. [loading[s] EXCEPT !.at = at] \in Loads
  BY <1>1, LoadFields
<1>3. loading' = [loading EXCEPT ![s] = [loading[s] EXCEPT !.at = at]]
  BY DEF LoadGoto
<1>4. /\ loading' \in [Stores -> Loads \union {Nothing}] /\ loading'[s] = [loading[s] EXCEPT !.at = at]
      /\ \A t \in Stores \ {s} : loading'[t] = loading[t]
  BY <1>1, <1>2, <1>3
<1> QED
  BY <1>1, <1>4 DEF Loads

\* Rows go, or the permission changes: the load is no view of one moment.
LEMMA Unsettled ==
  ASSUME RemoteTypeOK, NEW s \in Stores, Unsteady(s)
  PROVE  /\ loading' \in [Stores -> Loads \union {Nothing}]
         /\ loading'[s] # Nothing /\ loading[s] # Nothing => /\ ~loading'[s].steady
                                                             /\ loading'[s].all = loading[s].all
         /\ loading[s] = Nothing => loading'[s] = Nothing
         /\ \A t \in Stores \ {s} : loading'[t] = loading[t]
<1>0. loading \in [Stores -> Loads \union {Nothing}]
  BY DEF RemoteTypeOK
<1>1. CASE loading[s] = Nothing
  BY <1>0, <1>1 DEF Unsteady
<1>2. CASE loading[s] # Nothing
  <2>1. loading[s] \in Loads
    BY <1>2, LoadTyped
  <2>2. [loading[s] EXCEPT !.steady = FALSE] \in Loads
    BY <2>1, LoadFields
  <2>3. loading' = [loading EXCEPT ![s] = [loading[s] EXCEPT !.steady = FALSE]]
    BY <1>2 DEF Unsteady
  <2>4. loading'[s] = [loading[s] EXCEPT !.steady = FALSE] /\ \A t \in Stores \ {s} : loading'[t] = loading[t]
    BY <1>0, <2>3
  <2> QED
    BY <1>0, <1>2, <2>1, <2>2, <2>3, <2>4 DEF Loads
<1> QED
  BY <1>1, <1>2

\* What the server lists of a store is finite.
LEMMA Listed ==
  ASSUME RemoteTypeOK, InOrder, NEW s \in Stores
  PROVE  /\ IsFiniteSet(live[s]) /\ live[s] \in SUBSET Nat /\ Cardinality(live[s]) \in Nat
         /\ \A id \in live[s] : Position(s, id) \in Nat
<1>1. live[s] \in SUBSET minted /\ IsFiniteSet(minted)
  BY DEF InOrder
<1>2. IsFiniteSet(live[s])
  BY <1>1, FS_Subset
<1>3. live[s] \in SUBSET Nat
  BY RemoteAssumption DEF RemoteTypeOK
<1>4. \A id \in live[s] : Position(s, id) \in Nat
  BY <1>2, <1>3, Places DEF Position
<1> QED
  BY <1>2, <1>3, <1>4, FS_CardinalityType

\* The steps that change neither rows nor caches nor what is held against them.
Quiet ==
  /\ UNCHANGED <<live, minted, granted, cached, basis, confirmed, retired>>
  /\ request' = request \/ request' = Nothing
  /\ loading' \in [Stores -> Loads \union {Nothing}]
  /\ \A s \in Stores : \/ loading'[s] = loading[s]
                       \/ /\ loading[s] # Nothing /\ loading'[s].at # "complete"
                          /\ loading'[s].pages = loading[s].pages /\ loading'[s].all = loading[s].all
                          /\ loading'[s].known = loading[s].known /\ loading'[s].steady = loading[s].steady

\* They disturb nothing.
LEMMA QuietKeeps ==
  ASSUME RemoteInv, Quiet
  PROVE  InOrder' /\ Gone' /\ Listing' /\ View'
<1>1. InOrder'
  BY DEF RemoteInv, InOrder, Quiet
<1>2. Gone'
  BY DEF RemoteInv, Gone, Quiet
<1>3. Listing'
  <2> SUFFICES ASSUME NEW s \in Stores, loading'[s] # Nothing, loading'[s].steady
               PROVE  /\ granted'[s] /\ loading'[s].known \subseteq live'[s] /\ loading'[s].all \subseteq live'[s]
                      /\ confirmed'[s] \intersect live'[s] \subseteq loading'[s].known
                      /\ \A id \in loading'[s].known : Position(s, id)' < loading'[s].pages * PageSize
                           => id \in loading'[s].all
                      /\ loading'[s].at = "complete" => loading'[s].known \subseteq loading'[s].all
    BY DEF Listing
  <2>1. \A id : Position(s, id)' = Position(s, id)
    BY DEF Position, Quiet
  <2>2. loading'[s] = loading[s] \/
          /\ loading[s] # Nothing /\ loading'[s].at # "complete"
          /\ loading'[s].pages = loading[s].pages /\ loading'[s].all = loading[s].all
          /\ loading'[s].known = loading[s].known /\ loading'[s].steady = loading[s].steady
    BY DEF Quiet
  <2>3. UNCHANGED <<live, granted, confirmed>>
    BY DEF Quiet
  <2> HIDE DEF Quiet
  <2> QED
    BY <2>1, <2>2, <2>3 DEF RemoteInv, Listing
<1>4. View'
  BY DEF RemoteInv, View, Quiet
<1> QED
  BY <1>1, <1>2, <1>3, <1>4

\* Asking for a page, an answer that is of no use, and time.
LEMMA QuietSteps ==
  ASSUME RemoteInv,
         \/ \E s \in Stores : SendPage(s) \/ ReceiveTrouble(s) \/ PageTimesOut(s)
         \/ AnswerLost \/ SiblingAsks \/ HostFails \/ HostRecovers \/ Pass
  PROVE  RemoteInv'
<1>t. RemoteTypeOK
  BY DEF RemoteInv
<1>1. ASSUME NEW s \in Stores, SendPage(s) \/ ReceiveTrouble(s) \/ PageTimesOut(s) PROVE Quiet /\ RemoteTypeOK'
  <2>1. PICK at \in {"broken", "sent"} : LoadGoto(s, at) /\ loading[s] # Nothing
    BY <1>1 DEF SendPage, ReceiveTrouble, PageTimesOut, AtPage
  <2>2. UNCHANGED <<live, minted, granted, hostUp, now, cached, request, basis, confirmed, retired>>
    BY <1>1 DEF SendPage, ReceiveTrouble, PageTimesOut, server
  <2>3. trouble' \in Nat /\ markedAt' \in Nat \union {Nothing}
    BY <1>1, <1>t DEF SendPage, ReceiveTrouble, PageTimesOut, HostAnswers, RemoteTypeOK
  <2>4. loading' \in [Stores -> Loads \union {Nothing}]
    BY <1>t, <2>1, GoesTo
  <2>5. Quiet
    BY <1>t, <2>1, <2>2, <2>4, GoesTo DEF Quiet
  <2> QED
    BY <1>t, <2>2, <2>3, <2>4, <2>5 DEF RemoteTypeOK
<1>2. ASSUME AnswerLost \/ SiblingAsks \/ HostFails \/ HostRecovers \/ Pass PROVE Quiet /\ RemoteTypeOK'
  <2>1. /\ UNCHANGED <<live, minted, granted, cached, basis, confirmed, retired, loading>>
        /\ request' = request \/ request' = Nothing
    BY <1>2 DEF AnswerLost, SiblingAsks, HostFails, HostRecovers, Pass, server
  <2>a. hostUp' \in BOOLEAN
    BY <1>2, <1>t DEF AnswerLost, SiblingAsks, HostFails, HostRecovers, Pass, server, RemoteTypeOK
  <2>b. now' \in Nat /\ now' >= TTL
    <3>1. TTL \in Nat /\ now \in Nat /\ now >= TTL
      BY <1>t, RemoteAssumption DEF RemoteTypeOK
    <3>2. now' = now \/ now' = now + 1
      BY <1>2 DEF AnswerLost, SiblingAsks, HostFails, HostRecovers, Pass
    <3> QED
      BY <3>1, <3>2
  <2>c. trouble' \in Nat
    <3>1. trouble' = trouble \/ trouble' = trouble + 1
      BY <1>2 DEF AnswerLost, SiblingAsks, HostFails, HostRecovers, Pass
    <3> QED
      BY <1>t, <3>1 DEF RemoteTypeOK
  <2>d. markedAt' \in Nat \union {Nothing}
    <3>1. markedAt' = now \/ markedAt' = Nothing \/ markedAt' = markedAt
      BY <1>2 DEF AnswerLost, SiblingAsks, HostFails, HostRecovers, Pass, HostAnswers
    <3> QED
      BY <1>t, <3>1 DEF RemoteTypeOK
  <2>3. Quiet
    BY <1>t, <2>1 DEF Quiet, RemoteTypeOK
  <2> QED
    BY <1>t, <2>1, <2>a, <2>b, <2>c, <2>d, <2>3 DEF RemoteTypeOK
<1> QED
  BY <1>1, <1>2, QuietKeeps DEF RemoteInv

\* A load begins with the rows there are.
LEMMA StartKeeps ==
  ASSUME RemoteInv, NEW s \in Stores, StartLoad(s)
  PROVE  RemoteInv'
<1> DEFINE v == [at |-> "next", pages |-> 0, all |-> {}, known |-> live[s], steady |-> granted[s]]
<1>1. RemoteTypeOK /\ InOrder /\ Gone /\ Listing /\ View
  BY DEF RemoteInv
<1>2. /\ UNCHANGED <<live, minted, granted, hostUp, now, cached, request, markedAt, basis, confirmed, retired, trouble>>
      /\ loading' = [loading EXCEPT ![s] = v]
  BY DEF StartLoad, server
<1>3. v \in Loads
  BY <1>1 DEF RemoteTypeOK, Loads
<1>4. v.at = "next" /\ v.pages = 0 /\ v.all = {} /\ v.known = live[s] /\ v.steady = granted[s]
  OBVIOUS
<1> HIDE DEF v
<1>5. loading' \in [Stores -> Loads \union {Nothing}]
  BY <1>1, <1>2, <1>3 DEF RemoteTypeOK
<1>6. loading'[s] = v /\ \A t \in Stores \ {s} : loading'[t] = loading[t]
  BY <1>1, <1>2 DEF RemoteTypeOK
<1>7. RemoteTypeOK'
  BY <1>1, <1>2, <1>5 DEF RemoteTypeOK
<1>8. InOrder' /\ View'
  BY <1>1, <1>2 DEF InOrder, View
<1>9. Gone'
  BY <1>1, <1>2, <1>4, <1>6 DEF Gone
<1>10. Listing'
  <2>1. ASSUME NEW t \in Stores, t # s PROVE \A id : Position(t, id)' = Position(t, id)
    BY <1>2 DEF Position
  <2>2. \A id \in live[s] : ~(Position(s, id)' < 0 * PageSize)
    <3>1. \A id : Position(s, id)' = Position(s, id)
      BY <1>2 DEF Position
    <3>2. \A id \in live[s] : Position(s, id) \in Nat
      BY <1>1, Listed
    <3>3. 0 * PageSize = 0
      BY RemoteAssumption
    <3> QED
      BY <3>1, <3>2, <3>3
  <2>3. ASSUME v.steady
        PROVE  /\ granted'[s] /\ v.known \subseteq live'[s] /\ v.all \subseteq live'[s]
               /\ confirmed'[s] \intersect live'[s] \subseteq v.known
               /\ \A id \in v.known : Position(s, id)' < v.pages * PageSize => id \in v.all
               /\ v.at = "complete" => v.known \subseteq v.all
    BY <1>2, <1>4, <2>2, <2>3
  <2>4. \A id : Position(s, id)' = Position(s, id)
    BY <1>2 DEF Position
  <2> QED
    BY <1>1, <1>2, <1>6, <2>1, <2>3 DEF Listing
<1> QED
  BY <1>7, <1>8, <1>9, <1>10 DEF RemoteInv

\* A page adds the rows of its places, and the last leaves none out.
LEMMA PageKeeps ==
  ASSUME RemoteInv, NEW s \in Stores, ReceivePage(s)
  PROVE  RemoteInv'
<1> DEFINE page == PageAt(s, loading[s].pages * PageSize)
           all == loading[s].all \union page
           last == Cardinality(all) >= Cardinality(live[s]) \/ Cardinality(page) < PageSize
           next == IF last THEN "complete" ELSE "next"
           v == [loading[s] EXCEPT !.all = all, !.pages = loading[s].pages + 1, !.at = next]
<1>1. RemoteTypeOK /\ InOrder /\ Gone /\ Listing /\ View
  BY DEF RemoteInv
<1>2. /\ UNCHANGED <<live, minted, granted, hostUp, now, cached, request, basis, confirmed, retired, trouble>>
      /\ loading[s] # Nothing /\ granted[s] /\ markedAt' = Nothing
  BY DEF ReceivePage, server, AtPage, HostAnswers
<1>3. loading' = [loading EXCEPT ![s] = v]
  BY DEF ReceivePage
<1>4. loading[s] \in Loads
  BY <1>1, <1>2, LoadTyped
<1>5. page \in SUBSET live[s] /\ live[s] \in SUBSET Ids
  BY <1>1 DEF PageAt, RemoteTypeOK
<1>6. all \in SUBSET Ids
  BY <1>4, <1>5, LoadFields
<1>7. /\ v \in Loads /\ v.at = next /\ v.pages = loading[s].pages + 1 /\ v.all = all
      /\ v.known = loading[s].known /\ v.steady = loading[s].steady
  <2>1. next \in {"next", "sent", "complete", "broken"}
    OBVIOUS
  <2>2. loading[s].pages + 1 \in Nat
    BY <1>4 DEF Loads
  <2> HIDE DEF next, all
  <2>3. v \in Loads
    BY <1>4, <1>6, <2>1, <2>2 DEF Loads
  <2>4. v.at = next /\ v.pages = loading[s].pages + 1 /\ v.all = all
    BY <1>4 DEF Loads
  <2>5. v.known = loading[s].known /\ v.steady = loading[s].steady
    BY <1>4 DEF Loads
  <2> QED
    BY <2>3, <2>4, <2>5
<1>8. loading'[s] = v /\ (\A t \in Stores \ {s} : loading'[t] = loading[t]) /\ loading' \in [Stores -> Loads \union {Nothing}]
  <2> HIDE DEF v
  <2> QED
    BY <1>1, <1>3, <1>7 DEF RemoteTypeOK
<1>9. RemoteTypeOK'
  BY <1>1, <1>2, <1>8 DEF RemoteTypeOK
<1>10. InOrder' /\ View'
  BY <1>1, <1>2 DEF InOrder, View
<1>11. Gone'
  <2>1. \A id \in retired[s] : id \notin all
    BY <1>1, <1>2, <1>5 DEF Gone
  <2> HIDE DEF all, v
  <2> QED
    BY <1>1, <1>2, <1>7, <1>8, <2>1 DEF Gone
<1>12. ASSUME loading[s].steady
       PROVE  /\ loading[s].known \subseteq live[s] /\ all \subseteq live[s]
              /\ confirmed[s] \intersect live[s] \subseteq loading[s].known
              /\ \A id \in loading[s].known : Position(s, id) < (loading[s].pages + 1) * PageSize => id \in all
              /\ last => loading[s].known \subseteq all
  <2> DEFINE offset == loading[s].pages * PageSize
  <2>1. /\ loading[s].known \subseteq live[s] /\ loading[s].all \subseteq live[s]
        /\ confirmed[s] \intersect live[s] \subseteq loading[s].known
        /\ \A id \in loading[s].known : Position(s, id) < offset => id \in loading[s].all
    BY <1>1, <1>2, <1>12 DEF Listing
  <2>2. all \subseteq live[s]
    BY <1>5, <2>1
  <2>3. IsFiniteSet(live[s]) /\ live[s] \in SUBSET Nat /\ Cardinality(live[s]) \in Nat
        /\ \A id \in live[s] : Position(s, id) \in Nat
    BY <1>1, Listed
  <2>4. offset \in Nat /\ (loading[s].pages + 1) * PageSize = offset + PageSize /\ PageSize \in Nat \ {0}
    <3>1. loading[s].pages \in Nat /\ PageSize \in Nat \ {0}
      BY <1>4, LoadFields, RemoteAssumption
    <3>2. \A p, q \in Nat : p * q \in Nat /\ (p + 1) * q = p * q + q
      OBVIOUS
    <3> QED
      BY <3>1, <3>2
  <2>5. \A id \in live[s] : Position(s, id) \in offset..(offset + PageSize - 1) => id \in page
    BY DEF PageAt
  <2>6. ASSUME NEW id \in loading[s].known, Position(s, id) < offset + PageSize PROVE id \in all
    <3>1. CASE Position(s, id) < offset
      BY <2>1, <3>1
    <3>2. CASE ~(Position(s, id) < offset)
      <4>1. Position(s, id) \in Nat /\ id \in live[s]
        BY <2>1, <2>3
      <4> HIDE DEF offset
      <4>2. Position(s, id) \in offset..(offset + PageSize - 1)
        BY <2>4, <2>6, <3>2, <4>1
      <4> QED
        BY <2>5, <4>1, <4>2
    <3> QED
      BY <3>1, <3>2
  <2>7. CASE Cardinality(all) >= Cardinality(live[s])
    <3> HIDE DEF all
    <3>1. Cardinality(all) <= Cardinality(live[s]) /\ (Cardinality(all) = Cardinality(live[s]) => all = live[s])
          /\ Cardinality(all) \in Nat
      BY <2>2, <2>3, FS_Subset, FS_CardinalityType
    <3> QED
      BY <2>1, <2>2, <2>3, <2>4, <2>6, <2>7, <3>1
  <2>8. CASE Cardinality(page) < PageSize
    <3>1. ASSUME NEW id \in loading[s].known, ~(Position(s, id) < offset + PageSize) PROVE FALSE
      <4>1. id \in live[s] /\ Position(s, id) \in Nat
        BY <2>1, <2>3
      <4>2. Cardinality({x \in live[s] : x < id}) >= offset + PageSize
        <5> HIDE DEF offset
        <5> QED
          BY <2>4, <3>1, <4>1 DEF Position
      <4>3. Cardinality({b \in live[s] : Cardinality({x \in live[s] : x < b}) \in offset..(offset + PageSize - 1)})
            >= PageSize
        <5> HIDE DEF offset
        <5> QED
          BY <2>3, <2>4, <4>1, <4>2, ShortPageEnds
      <4>4. Cardinality(page) >= PageSize
        BY <4>3 DEF PageAt, Position
      <4>5. Cardinality(page) \in Nat
        <5>1. IsFiniteSet(page)
          BY <1>5, <2>3, FS_Subset
        <5> HIDE DEF page
        <5> QED
          BY <5>1, FS_CardinalityType
      <4> HIDE DEF page
      <4> QED
        BY <2>4, <2>8, <4>4, <4>5
    <3>2. loading[s].known \subseteq all
      <4> HIDE DEF all, offset
      <4> QED
        BY <2>6, <3>1
    <3> HIDE DEF all
    <3> QED
      BY <2>1, <2>2, <3>2
  <2>9. last => loading[s].known \subseteq all
    <3>1. last => Cardinality(all) >= Cardinality(live[s]) \/ Cardinality(page) < PageSize
      OBVIOUS
    <3> HIDE DEF last, all, page
    <3> QED
      BY <2>7, <2>8, <3>1
  <2>10. \A id \in loading[s].known : Position(s, id) < (loading[s].pages + 1) * PageSize => id \in all
    <3> HIDE DEF all, offset
    <3> QED
      BY <2>4, <2>6
  <2> HIDE DEF all, last
  <2> QED
    BY <2>1, <2>2, <2>9, <2>10
<1>13. Listing'
  <2>1. \A t \in Stores : \A id : Position(t, id)' = Position(t, id)
    BY <1>2 DEF Position
  <2>2. next = "complete" => last
    BY Zenon
  <2> HIDE DEF v, all, next, last, page
  <2> SUFFICES ASSUME NEW t \in Stores, loading'[t] # Nothing, loading'[t].steady
               PROVE  /\ granted'[t] /\ loading'[t].known \subseteq live'[t] /\ loading'[t].all \subseteq live'[t]
                      /\ confirmed'[t] \intersect live'[t] \subseteq loading'[t].known
                      /\ \A id \in loading'[t].known : Position(t, id)' < loading'[t].pages * PageSize
                           => id \in loading'[t].all
                      /\ loading'[t].at = "complete" => loading'[t].known \subseteq loading'[t].all
    BY DEF Listing
  <2>3. CASE t = s
    BY <1>2, <1>7, <1>8, <1>12, <2>1, <2>2, <2>3
  <2>4. CASE t # s
    BY <1>1, <1>2, <1>8, <2>1, <2>4 DEF Listing
  <2> QED
    BY <2>3, <2>4
<1> QED
  BY <1>9, <1>10, <1>11, <1>13 DEF RemoteInv

\* A store that may not be read has no load that is held to anything.
LEMMA DenialKeeps ==
  ASSUME RemoteInv, NEW s \in Stores, ReceiveDenial(s)
  PROVE  RemoteInv'
<1>1. RemoteTypeOK /\ InOrder /\ Gone /\ Listing /\ View
  BY DEF RemoteInv
<1>2. /\ UNCHANGED <<live, minted, granted, hostUp, now, cached, request, basis, confirmed, retired, trouble>>
      /\ loading[s] # Nothing /\ ~granted[s] /\ markedAt' = Nothing /\ LoadGoto(s, "complete")
  BY DEF ReceiveDenial, server, AtPage, HostAnswers
<1>3. /\ loading' \in [Stores -> Loads \union {Nothing}]
      /\ loading'[s].all = loading[s].all /\ loading'[s].steady = loading[s].steady
      /\ \A t \in Stores \ {s} : loading'[t] = loading[t]
  BY <1>1, <1>2, GoesTo
<1>4. ~loading[s].steady
  BY <1>1, <1>2 DEF Listing
<1>5. RemoteTypeOK'
  BY <1>1, <1>2, <1>3 DEF RemoteTypeOK
<1>6. InOrder' /\ View'
  BY <1>1, <1>2 DEF InOrder, View
<1>7. Gone'
  BY <1>1, <1>2, <1>3 DEF Gone
<1>8. Listing'
  <2>1. \A t \in Stores : \A id : Position(t, id)' = Position(t, id)
    BY <1>2 DEF Position
  <2> QED
    BY <1>1, <1>2, <1>3, <1>4, <2>1 DEF Listing
<1> QED
  BY <1>5, <1>6, <1>7, <1>8 DEF RemoteInv

\* A complete listing is a cache that may be held to what the listing was held to.
LEMMA EndKeeps ==
  ASSUME RemoteInv, NEW s \in Stores, EndLoad(s)
  PROVE  RemoteInv'
<1> DEFINE v == [ts |-> now, ids |-> loading[s].all]
           b == [known |-> loading[s].known, steady |-> loading[s].steady]
<1>1. RemoteTypeOK /\ InOrder /\ Gone /\ Listing /\ View
  BY DEF RemoteInv
<1>2. /\ UNCHANGED <<live, minted, granted, hostUp, now, request, markedAt, confirmed, retired, trouble>>
      /\ loading[s] # Nothing /\ loading' = [loading EXCEPT ![s] = Nothing]
  BY DEF EndLoad, server
<1>3. loading' \in [Stores -> Loads \union {Nothing}] /\ loading'[s] = Nothing
      /\ \A t \in Stores \ {s} : loading'[t] = loading[t]
  BY <1>1, <1>2 DEF RemoteTypeOK
<1>4. loading[s] \in Loads
  BY <1>1, <1>2, LoadTyped
<1>5. InOrder'
  BY <1>1, <1>2 DEF InOrder
<1>6. Listing'
  <2>1. \A t \in Stores : \A id : Position(t, id)' = Position(t, id)
    BY <1>2 DEF Position
  <2> QED
    BY <1>1, <1>2, <1>3, <2>1 DEF Listing
<1>7. CASE loading[s].at = "complete"
  <2>1. cached' = [cached EXCEPT ![s] = v] /\ basis' = [basis EXCEPT ![s] = b]
    BY <1>7 DEF EndLoad
  <2>2. v \in Views /\ v.ids = loading[s].all /\ b \in [known : SUBSET Ids, steady : BOOLEAN]
        /\ b.known = loading[s].known /\ b.steady = loading[s].steady
    BY <1>1, <1>4, LoadFields DEF RemoteTypeOK, Views
  <2> HIDE DEF v, b
  <2>3. cached' \in [Stores -> Views \union {Nothing}] /\ basis' \in [Stores -> [known : SUBSET Ids, steady : BOOLEAN]]
    BY <1>1, <2>1, <2>2 DEF RemoteTypeOK
  <2>4. cached'[s] = v /\ basis'[s] = b /\ \A t \in Stores \ {s} : cached'[t] = cached[t] /\ basis'[t] = basis[t]
    BY <1>1, <2>1 DEF RemoteTypeOK
  <2>5. RemoteTypeOK'
    BY <1>1, <1>2, <1>3, <2>3 DEF RemoteTypeOK
  <2>6. Gone'
    BY <1>1, <1>2, <1>3, <2>2, <2>4 DEF Gone
  <2>7. ASSUME b.steady
        PROVE  b.known \subseteq minted /\ (b.known \union confirmed[s]) \intersect live[s] \subseteq v.ids
    BY <1>1, <1>2, <1>7, <2>2, <2>7 DEF Listing, InOrder
  <2>8. View'
    BY <1>1, <1>2, <2>4, <2>7 DEF View
  <2> QED
    BY <1>5, <1>6, <2>5, <2>6, <2>8 DEF RemoteInv
<1>8. CASE loading[s].at # "complete"
  <2>1. UNCHANGED <<cached, basis>>
    BY <1>8 DEF EndLoad
  <2>2. RemoteTypeOK'
    BY <1>1, <1>2, <1>3, <2>1 DEF RemoteTypeOK
  <2>3. Gone' /\ View'
    BY <1>1, <1>2, <1>3, <2>1 DEF Gone, View
  <2> QED
    BY <1>5, <1>6, <2>2, <2>3 DEF RemoteInv
<1> QED
  BY <1>7, <1>8

\* A new row comes after all others, and moves none.
LEMMA InsertKeeps ==
  ASSUME RemoteInv, NEW s \in Stores, Insert(s),
         UNCHANGED <<granted, hostUp, now, cached, loading, markedAt, basis, confirmed, retired, trouble>>,
         request' = request \/ request' = [kind |-> "append", store |-> s, id |-> NextId]
  PROVE  RemoteInv'
<1> DEFINE n == NextId
<1>1. RemoteTypeOK /\ InOrder /\ Gone /\ Listing /\ View
  BY DEF RemoteInv
<1>2. n \in Ids \ minted /\ \A o \in Ids \ minted : n <= o
  BY <1>1, NextIds DEF Insert, RemoteTypeOK
<1>3. live' = [live EXCEPT ![s] = live[s] \union {n}] /\ minted' = minted \union {n}
  BY DEF Insert
<1>r. /\ request' \in Requests \union {Nothing}
      /\ request' = request \/ (request'.kind = "append" /\ request'.store = s /\ request'.id = n)
  <2>1. CASE request' = request
    BY <1>1, <2>1 DEF RemoteTypeOK
  <2>2. CASE request' # request
    BY <1>2, <2>2 DEF Requests
  <2> QED
    BY <2>1, <2>2
<1> HIDE DEF n
<1>4. live'[s] = live[s] \union {n} /\ (\A t \in Stores \ {s} : live'[t] = live[t])
  BY <1>1, <1>3 DEF RemoteTypeOK
<1>5. live' \in [Stores -> SUBSET Ids] /\ minted' \in SUBSET Ids
  BY <1>1, <1>2, <1>3 DEF RemoteTypeOK
<1>6. RemoteTypeOK'
  BY <1>1, <1>5, <1>r DEF RemoteTypeOK
<1>7. InOrder'
  <2>1. IsFiniteSet(minted')
    BY <1>1, <1>3, FS_AddElement DEF InOrder
  <2>2. ASSUME NEW m \in minted', NEW o \in Ids \ minted' PROVE m < o
    <3>1. o \in Ids \ minted /\ o # n
      BY <1>3
    <3>2. m \in minted \/ m = n
      BY <1>3
    <3>3. n \in Nat /\ o \in Nat
      BY <1>2, <3>1, RemoteAssumption
    <3> QED
      BY <1>1, <1>2, <3>1, <3>2, <3>3 DEF InOrder
  <2>3. \A t \in Stores : live'[t] \subseteq minted' /\ confirmed'[t] \subseteq minted' /\ retired'[t] \subseteq minted'
    BY <1>1, <1>3, <1>4 DEF InOrder
  <2>4. request' # Nothing => request'.id \in minted'
    BY <1>1, <1>3, <1>r DEF InOrder
  <2> QED
    BY <2>1, <2>2, <2>3, <2>4 DEF InOrder
<1>8. Gone'
  <2>1. \A t \in Stores : n \notin retired[t]
    BY <1>1, <1>2 DEF InOrder
  <2>2. ASSUME NEW t \in Stores, NEW id \in retired[t] PROVE id \notin live'[t]
    BY <1>1, <1>4, <2>1 DEF Gone
  <2>3. request' # Nothing /\ request'.kind = "remove" => request'.id \notin live'[request'.store]
    <3> SUFFICES ASSUME request' # Nothing, request'.kind = "remove" PROVE request'.id \notin live'[request'.store]
      OBVIOUS
    <3>1. request' = request
      BY <1>r
    <3>2. request.id # n /\ request.store \in Stores
      BY <1>1, <1>2, <3>1 DEF InOrder, RemoteTypeOK, Requests
    <3> QED
      BY <1>1, <1>4, <3>1, <3>2 DEF Gone
  <2> QED
    BY <1>1, <1>r, <2>1, <2>2, <2>3 DEF Gone
<1>9. ASSUME NEW t \in Stores, NEW id \in live[t] PROVE Position(t, id)' = Position(t, id)
  <2>1. id \in minted
    BY <1>1 DEF InOrder
  <2>2. id \in Nat /\ n \in Nat /\ id < n
    BY <1>1, <1>2, <2>1, RemoteAssumption DEF InOrder, RemoteTypeOK
  <2>3. ~(n < id)
    BY <2>2
  <2>4. {r \in live'[t] : r < id} = {r \in live[t] : r < id}
    BY <1>4, <2>3, Zenon
  <2> QED
    BY <2>4 DEF Position
<1>10. Listing'
  <2> SUFFICES ASSUME NEW t \in Stores, loading[t] # Nothing, loading[t].steady
               PROVE  /\ granted[t] /\ loading[t].known \subseteq live'[t] /\ loading[t].all \subseteq live'[t]
                      /\ confirmed[t] \intersect live'[t] \subseteq loading[t].known
                      /\ \A id \in loading[t].known : Position(t, id)' < loading[t].pages * PageSize
                           => id \in loading[t].all
                      /\ loading[t].at = "complete" => loading[t].known \subseteq loading[t].all
    BY DEF Listing
  <2>1. n \notin confirmed[t]
    BY <1>1, <1>2 DEF InOrder
  <2>2. /\ granted[t] /\ loading[t].known \subseteq live[t] /\ loading[t].all \subseteq live[t]
        /\ confirmed[t] \intersect live[t] \subseteq loading[t].known
        /\ \A id \in loading[t].known : Position(t, id) < loading[t].pages * PageSize
                           => id \in loading[t].all
        /\ loading[t].at = "complete" => loading[t].known \subseteq loading[t].all
    BY <1>1 DEF Listing
  <2>3. \A id \in loading[t].known : Position(t, id)' = Position(t, id)
    BY <1>9, <2>2
  <2> QED
    BY <1>4, <2>1, <2>2, <2>3
<1>11. View'
  <2>1. \A t \in Stores : n \notin confirmed[t]
    BY <1>1, <1>2 DEF InOrder
  <2> QED
    BY <1>1, <1>2, <1>3, <1>4, <2>1 DEF View
<1> QED
  BY <1>6, <1>7, <1>8, <1>10, <1>11 DEF RemoteInv

\* A row that goes leaves no load that is held to anything.
LEMMA DeleteKeeps ==
  ASSUME RemoteInv, NEW s \in Stores, NEW id \in Ids, Delete(s, id),
         UNCHANGED <<minted, granted, hostUp, now, cached, markedAt, basis, confirmed, retired, trouble>>,
         request' = request \/ request' = [kind |-> "remove", store |-> s, id |-> id]
  PROVE  RemoteInv'
<1>1. RemoteTypeOK /\ InOrder /\ Gone /\ Listing /\ View
  BY DEF RemoteInv
<1>2. live' = [live EXCEPT ![s] = live[s] \ {id}] /\ id \in live[s] /\ Unsteady(s)
  BY DEF Delete
<1>3. /\ loading' \in [Stores -> Loads \union {Nothing}]
      /\ loading'[s] # Nothing /\ loading[s] # Nothing => ~loading'[s].steady /\ loading'[s].all = loading[s].all
      /\ loading[s] = Nothing => loading'[s] = Nothing
      /\ \A t \in Stores \ {s} : loading'[t] = loading[t]
  BY <1>1, <1>2, Unsettled
<1>4. live' \in [Stores -> SUBSET Ids] /\ live'[s] = live[s] \ {id} /\ (\A t \in Stores \ {s} : live'[t] = live[t])
  BY <1>1, <1>2 DEF RemoteTypeOK
<1>r. /\ request' \in Requests \union {Nothing}
      /\ request' = request \/ (request'.kind = "remove" /\ request'.store = s /\ request'.id = id)
  <2>1. CASE request' = request
    BY <1>1, <2>1 DEF RemoteTypeOK
  <2>2. CASE request' # request
    BY <2>2 DEF Requests
  <2> QED
    BY <2>1, <2>2
<1>5. RemoteTypeOK'
  BY <1>1, <1>3, <1>4, <1>r DEF RemoteTypeOK
<1>6. InOrder'
  <2>1. \A t \in Stores : live'[t] \subseteq live[t]
    BY <1>4
  <2>2. request' # Nothing => request'.id \in minted
    BY <1>1, <1>2, <1>r DEF InOrder
  <2> QED
    BY <1>1, <2>1, <2>2 DEF InOrder
<1>7. Gone'
  <2>1. \A t \in Stores : live'[t] \subseteq live[t]
    BY <1>4
  <2>2. \A t \in Stores : \A r \in retired[t] : loading'[t] # Nothing => r \notin loading'[t].all
    BY <1>1, <1>3 DEF Gone
  <2>3. request' # Nothing /\ request'.kind = "remove" => request'.id \notin live'[request'.store]
    <3>1. CASE request' = request
      <4> SUFFICES ASSUME request # Nothing, request.kind = "remove" PROVE request.id \notin live'[request.store]
        BY <3>1
      <4>1. request.store \in Stores
        BY <1>1 DEF RemoteTypeOK, Requests
      <4> QED
        BY <1>1, <2>1, <4>1 DEF Gone
    <3>2. CASE request' # request
      BY <1>4, <1>r, <3>2
    <3> QED
      BY <3>1, <3>2
  <2> QED
    BY <1>1, <1>r, <2>1, <2>2, <2>3 DEF Gone
<1>8. Listing'
  <2>1. ASSUME NEW t \in Stores, t # s PROVE \A i : Position(t, i)' = Position(t, i)
    BY <1>4, <2>1 DEF Position
  <2>2. loading'[s] # Nothing => ~loading'[s].steady
    BY <1>3
  <2> QED
    BY <1>1, <1>3, <1>4, <2>1, <2>2 DEF Listing
<1>9. View'
  <2>1. \A t \in Stores : live'[t] \subseteq live[t]
    BY <1>4
  <2> QED
    BY <1>1, <2>1 DEF View
<1> QED
  BY <1>5, <1>6, <1>7, <1>8, <1>9 DEF RemoteInv

\* A permission that changes leaves no load that is held to anything.
LEMMA GrantKeeps ==
  ASSUME RemoteInv, NEW s \in Stores, ChangeGrant(s)
  PROVE  RemoteInv'
<1>1. RemoteTypeOK /\ InOrder /\ Gone /\ Listing /\ View
  BY DEF RemoteInv
<1>2. /\ UNCHANGED <<live, minted, hostUp, now, cached, request, markedAt, basis, confirmed, retired>>
      /\ Unsteady(s) /\ trouble' = trouble + 1 /\ granted' = [granted EXCEPT ![s] = ~granted[s]]
  BY DEF ChangeGrant
<1>3. /\ loading' \in [Stores -> Loads \union {Nothing}]
      /\ loading'[s] # Nothing /\ loading[s] # Nothing => ~loading'[s].steady /\ loading'[s].all = loading[s].all
      /\ loading[s] = Nothing => loading'[s] = Nothing
      /\ \A t \in Stores \ {s} : loading'[t] = loading[t]
  BY <1>1, <1>2, Unsettled
<1>4. granted' \in [Stores -> BOOLEAN] /\ trouble' \in Nat /\ \A t \in Stores \ {s} : granted'[t] = granted[t]
  BY <1>1, <1>2 DEF RemoteTypeOK
<1>5. RemoteTypeOK'
  BY <1>1, <1>2, <1>3, <1>4 DEF RemoteTypeOK
<1>6. InOrder' /\ View'
  BY <1>1, <1>2 DEF InOrder, View
<1>7. Gone'
  <2>1. \A t \in Stores : \A r \in retired[t] : loading'[t] # Nothing => r \notin loading'[t].all
    BY <1>1, <1>3 DEF Gone
  <2> QED
    BY <1>1, <1>2, <2>1 DEF Gone
<1>8. Listing'
  <2>1. \A t \in Stores : \A i : Position(t, i)' = Position(t, i)
    BY <1>2 DEF Position
  <2>2. loading'[s] # Nothing => ~loading'[s].steady
    BY <1>3
  <2> QED
    BY <1>1, <1>2, <1>3, <1>4, <2>1, <2>2 DEF Listing
<1> QED
  BY <1>5, <1>6, <1>7, <1>8 DEF RemoteInv

\* A row that was pushed joins the cache, and is held against it from then on.
LEMMA AnsweredKeeps ==
  ASSUME RemoteInv, AppendAnswered
  PROVE  RemoteInv'
<1> DEFINE s == request.store
           id == request.id
           v == IF cached[s] = Nothing THEN [ts |-> 0, ids |-> {id}]
                ELSE [ts |-> cached[s].ts, ids |-> cached[s].ids \union {id}]
<1>1. RemoteTypeOK /\ InOrder /\ Gone /\ Listing /\ View
  BY DEF RemoteInv
<1>2. /\ UNCHANGED <<live, minted, granted, hostUp, now, loading, basis, retired, trouble>>
      /\ request # Nothing /\ request.kind = "append" /\ request' = Nothing /\ markedAt' = Nothing
  BY DEF AppendAnswered, server, HostAnswers
<1>3. cached' = [cached EXCEPT ![s] = v] /\ confirmed' = Noted(confirmed, s)
  BY DEF AppendAnswered
<1>4. s \in Stores /\ id \in Ids
  BY <1>1, <1>2 DEF RemoteTypeOK, Requests
<1>5. /\ v \in Views
      /\ cached[s] = Nothing => v.ts = 0 /\ v.ids = {id}
      /\ cached[s] # Nothing => v.ts = cached[s].ts /\ v.ids = cached[s].ids \union {id}
  <2>1. CASE cached[s] = Nothing
    <3>1. v = [ts |-> 0, ids |-> {id}]
      BY <2>1
    <3> QED
      BY <1>4, <2>1, <3>1 DEF Views
  <2>2. CASE cached[s] # Nothing
    <3>1. cached[s] \in Views
      BY <1>1, <1>4, <2>2 DEF RemoteTypeOK
    <3>2. v = [ts |-> cached[s].ts, ids |-> cached[s].ids \union {id}]
      BY <2>2
    <3> HIDE DEF v
    <3> QED
      BY <1>4, <2>2, <3>1, <3>2 DEF Views
  <2> QED
    BY <2>1, <2>2
<1>6. /\ confirmed' \in [Stores -> SUBSET Ids]
      /\ \A t \in Stores \ {s} : confirmed'[t] = confirmed[t]
      /\ \/ confirmed'[s] = confirmed[s]
         \/ loading[s] = Nothing /\ confirmed'[s] = confirmed[s] \union {id}
  <2>1. \/ confirmed' = confirmed
        \/ loading[s] = Nothing /\ confirmed' = [confirmed EXCEPT ![s] = confirmed[s] \union {id}]
    BY <1>3 DEF Noted
  <2>2. confirmed \in [Stores -> SUBSET Ids]
    BY <1>1 DEF RemoteTypeOK
  <2> HIDE DEF s, id
  <2> QED
    BY <1>4, <2>1, <2>2
<1>n. request' = Nothing /\ id \in minted /\ \A r \in retired[s] : r # id
  BY <1>1, <1>2, <1>4 DEF InOrder, Gone
<1>7. cached' \in [Stores -> Views \union {Nothing}] /\ cached'[s] = v /\ \A t \in Stores \ {s} : cached'[t] = cached[t]
  <2> HIDE DEF v, s
  <2> QED
    BY <1>1, <1>3, <1>4, <1>5 DEF RemoteTypeOK
<1> HIDE DEF s, id, v
<1>8. RemoteTypeOK'
  BY <1>1, <1>2, <1>6, <1>7 DEF RemoteTypeOK
<1>9. InOrder'
  BY <1>1, <1>2, <1>4, <1>6, <1>n DEF InOrder
<1>10. Gone'
  <2>1. \A t \in Stores : \A r \in retired[t] : cached'[t] # Nothing => r \notin cached'[t].ids
    <3>1. \A r \in retired[s] : cached[s] # Nothing => r \notin cached[s].ids
      BY <1>1, <1>4 DEF Gone
    <3>2. \A r \in retired[s] : r \notin v.ids
      BY <1>5, <1>n, <3>1
    <3> QED
      BY <1>1, <1>7, <3>2 DEF Gone
  <2> QED
    BY <1>1, <1>2, <2>1 DEF Gone
<1>11. Listing'
  <2>1. \A t \in Stores : \A i : Position(t, i)' = Position(t, i)
    BY <1>2 DEF Position
  <2>2. \A t \in Stores : loading[t] # Nothing => confirmed'[t] = confirmed[t]
    BY <1>6
  <2> QED
    BY <1>1, <1>2, <2>1, <2>2 DEF Listing
<1>12. View'
  <2>1. ASSUME v.ts > 0, basis[s].steady
        PROVE  basis[s].known \subseteq minted /\ (basis[s].known \union confirmed'[s]) \intersect live[s] \subseteq v.ids
    <3>1. cached[s] # Nothing
      BY <1>5, <2>1
    <3>2. basis[s].known \subseteq minted /\ (basis[s].known \union confirmed[s]) \intersect live[s] \subseteq cached[s].ids
      BY <1>1, <1>4, <1>5, <2>1, <3>1 DEF View
    <3> QED
      BY <1>5, <1>6, <3>1, <3>2
  <2> QED
    BY <1>1, <1>2, <1>4, <1>6, <1>7, <2>1 DEF View
<1> QED
  BY <1>8, <1>9, <1>10, <1>11, <1>12 DEF RemoteInv

\* The cache is dropped: nothing is held against it, and a removed row is read nowhere.
LEMMA DropKeeps ==
  ASSUME RemoteInv, AppendHeld \/ RemoveAnswered
  PROVE  RemoteInv'
<1> DEFINE s == request.store
           id == request.id
<1>1. RemoteTypeOK /\ InOrder /\ Gone /\ Listing /\ View
  BY DEF RemoteInv
<1>2. /\ UNCHANGED <<live, minted, granted, hostUp, now, loading, confirmed, trouble>>
      /\ request # Nothing /\ request' = Nothing /\ markedAt' = Nothing
  BY DEF AppendHeld, RemoveAnswered, server, HostAnswers
<1>3. cached' = [cached EXCEPT ![s] = Nothing] /\ basis' = [basis EXCEPT ![s] = NoExcuse]
  BY DEF AppendHeld, RemoveAnswered
<1>r. retired' = retired \/ (request.kind = "remove" /\ retired' = Noted(retired, s))
  BY DEF AppendHeld, RemoveAnswered
<1>4. s \in Stores /\ id \in Ids
  BY <1>1, <1>2 DEF RemoteTypeOK, Requests
<1>5. /\ retired' \in [Stores -> SUBSET Ids]
      /\ \A t \in Stores \ {s} : retired'[t] = retired[t]
      /\ \/ retired'[s] = retired[s]
         \/ request.kind = "remove" /\ loading[s] = Nothing /\ retired'[s] = retired[s] \union {id}
  <2>1. \/ retired' = retired
        \/ request.kind = "remove" /\ loading[s] = Nothing /\ retired' = [retired EXCEPT ![s] = retired[s] \union {id}]
    BY <1>r DEF Noted
  <2>2. retired \in [Stores -> SUBSET Ids]
    BY <1>1 DEF RemoteTypeOK
  <2> HIDE DEF s, id
  <2> QED
    BY <1>4, <2>1, <2>2
<1>6. id \in minted /\ (request.kind = "remove" => id \notin live[s])
  BY <1>1, <1>2 DEF InOrder, Gone
<1> HIDE DEF s, id
<1>7. cached' \in [Stores -> Views \union {Nothing}] /\ cached'[s] = Nothing /\ \A t \in Stores \ {s} : cached'[t] = cached[t]
  BY <1>1, <1>3, <1>4 DEF RemoteTypeOK
<1>8. basis' \in [Stores -> [known : SUBSET Ids, steady : BOOLEAN]] /\ \A t \in Stores \ {s} : basis'[t] = basis[t]
  <2>1. NoExcuse \in [known : SUBSET Ids, steady : BOOLEAN]
    BY DEF NoExcuse
  <2> QED
    BY <1>1, <1>3, <1>4, <2>1 DEF RemoteTypeOK
<1>9. RemoteTypeOK'
  BY <1>1, <1>2, <1>5, <1>7, <1>8 DEF RemoteTypeOK
<1>10. InOrder'
  BY <1>1, <1>2, <1>4, <1>5, <1>6 DEF InOrder
<1>11. Gone'
  <2> SUFFICES ASSUME NEW t \in Stores, NEW r \in retired'[t]
               PROVE  /\ r \notin live[t]
                      /\ cached'[t] # Nothing => r \notin cached'[t].ids
                      /\ loading[t] # Nothing => r \notin loading[t].all
    BY <1>2 DEF Gone
  <2>1. CASE r \in retired[t]
    BY <1>1, <1>7, <2>1 DEF Gone
  <2>2. CASE r \notin retired[t]
    BY <1>5, <1>6, <1>7, <2>2
  <2> QED
    BY <2>1, <2>2
<1>12. Listing'
  <2>1. \A t \in Stores : \A i : Position(t, i)' = Position(t, i)
    BY <1>2 DEF Position
  <2> QED
    BY <1>1, <1>2, <2>1 DEF Listing
<1>13. View'
  BY <1>1, <1>2, <1>7, <1>8 DEF View
<1> QED
  BY <1>9, <1>10, <1>11, <1>12, <1>13 DEF RemoteInv

\* At first nothing is listed and nothing is loaded.
LEMMA RemoteStarts == RemoteInit => RemoteInv
<1> SUFFICES ASSUME RemoteInit PROVE RemoteInv
  OBVIOUS
<1>1. RemoteTypeOK
  BY RemoteAssumption DEF RemoteInit, RemoteTypeOK, NoExcuse
<1>2. InOrder
  BY FS_EmptySet DEF RemoteInit, InOrder
<1>3. Gone /\ Listing /\ View
  BY DEF RemoteInit, Gone, Listing, View
<1> QED
  BY <1>1, <1>2, <1>3 DEF RemoteInv

\* Every step of the process, the server and the host keeps the view what it is.
LEMMA RemoteSteps == RemoteInv /\ [RemoteNext]_remoteVars => RemoteInv'
<1> SUFFICES ASSUME RemoteInv, [RemoteNext]_remoteVars PROVE RemoteInv'
  OBVIOUS
<1>1. ASSUME NEW s \in Stores, StartLoad(s) PROVE RemoteInv'
  BY <1>1, StartKeeps
<1>2. ASSUME NEW s \in Stores, SendPage(s) \/ ReceiveTrouble(s) \/ PageTimesOut(s) PROVE RemoteInv'
  BY <1>2, QuietSteps
<1>3. ASSUME NEW s \in Stores, ReceivePage(s) PROVE RemoteInv'
  BY <1>3, PageKeeps
<1>4. ASSUME NEW s \in Stores, ReceiveDenial(s) PROVE RemoteInv'
  BY <1>4, DenialKeeps
<1>5. ASSUME NEW s \in Stores, EndLoad(s) PROVE RemoteInv'
  BY <1>5, EndKeeps
<1>6. ASSUME NEW s \in Stores, SendAppend(s) \/ OthersAppend(s) PROVE RemoteInv'
  <2>1. /\ Insert(s)
        /\ UNCHANGED <<granted, hostUp, now, cached, loading, markedAt, basis, confirmed, retired, trouble>>
        /\ request' = request \/ request' = [kind |-> "append", store |-> s, id |-> NextId]
    BY <1>6 DEF SendAppend, OthersAppend
  <2> QED
    BY <2>1, InsertKeeps
<1>7. ASSUME NEW s \in Stores, NEW id \in Ids, SendRemove(s, id) \/ OthersRemove(s, id) PROVE RemoteInv'
  <2>1. /\ Delete(s, id)
        /\ UNCHANGED <<minted, granted, hostUp, now, cached, markedAt, basis, confirmed, retired, trouble>>
        /\ request' = request \/ request' = [kind |-> "remove", store |-> s, id |-> id]
    BY <1>7 DEF SendRemove, OthersRemove
  <2> QED
    BY <2>1, DeleteKeeps
<1>8. ASSUME NEW s \in Stores, ChangeGrant(s) PROVE RemoteInv'
  BY <1>8, GrantKeeps
<1>9. CASE AppendAnswered
  BY <1>9, AnsweredKeeps
<1>10. CASE AppendHeld \/ RemoveAnswered
  BY <1>10, DropKeeps
<1>11. CASE AnswerLost \/ SiblingAsks \/ HostFails \/ HostRecovers \/ Pass
  BY <1>11, QuietSteps
<1>12. CASE UNCHANGED remoteVars
  <2>1. UNCHANGED <<live, minted, granted, hostUp, now, cached, loading, request, markedAt, basis, confirmed,
                    retired, trouble>>
    BY <1>12 DEF remoteVars
  <2>2. \A t \in Stores : \A i : Position(t, i)' = Position(t, i)
    BY <2>1 DEF Position
  <2>3. RemoteTypeOK' /\ InOrder' /\ Gone' /\ View'
    BY <2>1 DEF RemoteInv, RemoteTypeOK, InOrder, Gone, View
  <2>4. Listing'
    BY <2>1, <2>2 DEF RemoteInv, Listing
  <2> QED
    BY <2>3, <2>4 DEF RemoteInv
<1> QED
  BY <1>1, <1>2, <1>3, <1>4, <1>5, <1>6, <1>7, <1>8, <1>9, <1>10, <1>11, <1>12 DEF RemoteNext

\* Whatever the server says and in whatever order, the view keeps its types.
THEOREM RemoteTyped == RemoteSpec => []RemoteTypeOK
<1>1. RemoteInv => RemoteTypeOK
  BY DEF RemoteInv
<1> QED
  BY <1>1, RemoteStarts, RemoteSteps, PTL DEF RemoteSpec

\* The guards may trust that an id is absent, for any number of rows, pages and stores.
THEOREM AbsentHolds == RemoteSpec => []AbsentIsSound
<1>1. RemoteInv => AbsentIsSound
  <2> SUFFICES ASSUME RemoteInv, NEW s \in Stores, NEW id \in live[s],
                      CacheAnswer(s, id) = "absent", basis[s].steady,
                      id \in basis[s].known \union confirmed[s]
               PROVE  FALSE
    BY DEF AbsentIsSound
  <2>1. cached[s] # Nothing /\ cached[s].ts > 0 /\ id \notin cached[s].ids
    BY DEF CacheAnswer
  <2> QED
    BY <2>1 DEF RemoteInv, View
<1> QED
  BY <1>1, RemoteStarts, RemoteSteps, PTL DEF RemoteSpec

\* A row this process removed is never read from its cache again.
THEOREM RemovalHolds == RemoteSpec => []RemovedStaysGone
<1>1. RemoteInv => RemovedStaysGone
  <2> SUFFICES ASSUME RemoteInv, NEW s \in Stores, NEW id \in retired[s], CacheAnswer(s, id) = "present"
               PROVE  FALSE
    BY DEF RemovedStaysGone
  <2>1. cached[s] # Nothing /\ id \in cached[s].ids
    BY DEF CacheAnswer
  <2> QED
    BY <2>1 DEF RemoteInv, Gone
<1> QED
  BY <1>1, RemoteStarts, RemoteSteps, PTL DEF RemoteSpec

----------------------------------------------------------------------------
(* The sessions' scopes *)

Given == Scopes \union {NoScope, Unregistered}
Records == [start : Scopes \union {NoScope}, adjusted : BOOLEAN, at : Workspaces \union {NoSession}]
Calls == [at : {"no", "admitted", "chosen", "done"}, session : Sessions \union {NoSession},
          key : Sessions \union Scopes \union {NoSession}]

\* The process default is never anybody's scope.
SessionTypes ==
  /\ workspace \in Workspaces
  /\ records \in [Sessions -> Records \union {NoSession}]
  /\ starting \in [Sessions -> {"no", "begun", "done"}]
  /\ registered \in [Sessions -> Given] /\ slot = NoScope
  /\ expired \in SUBSET Sessions /\ evictions \in SUBSET Sessions
  /\ writing \in [Writes -> Calls] /\ landed \in [Writes -> Given]
  /\ allowed \in [Writes -> SUBSET Given]

\* A write that has its key goes to a scope that was its own, or asks for its own
\* session's, which holds one that was.
KeysAreOwn ==
  \A w \in Writes : writing[w].at = "chosen" =>
    /\ writing[w].key \in Scopes => writing[w].key \in allowed[w]
    /\ writing[w].key \in Sessions =>
         /\ writing[w].key = writing[w].session
         /\ registered[writing[w].key] \in allowed[w] \union {NoScope, Unregistered}

SessionInv == SessionTypes /\ KeysAreOwn /\ LandsAtHome

\* No session has begun.
LEMMA SessionStarts == SessionInit => SessionInv
<1> SUFFICES ASSUME SessionInit PROVE SessionInv
  OBVIOUS
<1>1. SessionTypes
  BY DEF SessionInit, SessionTypes, Given, Calls
<1> QED
  BY <1>1 DEF SessionInit, SessionInv, KeysAreOwn, LandsAtHome

\* The scope of a workspace, and a session's own scopes.
LEMMA OwnTyped ==
  ASSUME SessionTypes, NEW s \in Sessions \union {NoSession}
  PROVE  ScopeAt[workspace] \in Scopes \union {NoScope} /\ OwnScopes(s) \in SUBSET Given
<1>1. ScopeAt[workspace] \in Scopes \union {NoScope}
  BY SessionAssumption DEF SessionTypes
<1>2. s # NoSession => registered[s] \in Given
  BY DEF SessionTypes
<1> QED
  BY <1>1, <1>2 DEF OwnScopes, Given

\* What the history of a call in flight takes in with each step.
LEMMA Watched ==
  ASSUME SessionTypes, NEW put \in SUBSET Sessions, WatchPut(put),
         workspace' \in Workspaces, registered' \in [Sessions -> Given], writing' \in [Writes -> Calls]
  PROVE  /\ allowed' \in [Writes -> SUBSET Given]
         /\ \A w \in Writes :
              /\ allowed[w] \subseteq allowed'[w]
              /\ InFlight(w)' => /\ OwnScopes(writing[w].session)' \subseteq allowed'[w]
                                 /\ writing[w].session \in put =>
                                      registered'[writing[w].session] \in allowed'[w]
<1>1. ASSUME NEW w \in Writes PROVE OwnScopes(writing[w].session)' \in SUBSET Given
  <2>1. writing'[w] \in Calls
    BY <1>1
  <2>2. writing'[w].session \in Sessions \union {NoSession}
    BY <2>1 DEF Calls
  <2>3. ScopeAt[workspace'] \in Scopes \union {NoScope}
    BY SessionAssumption
  <2>4. writing'[w].session # NoSession => registered'[writing'[w].session] \in Given
    BY <2>2
  <2> QED
    BY <2>3, <2>4 DEF OwnScopes, Given
<1>2. \A w \in Writes : {registered'[s] : s \in put \intersect {writing[w].session}} \in SUBSET Given
  OBVIOUS
<1>3. \A w \in Writes : allowed[w] \in SUBSET Given
  BY DEF SessionTypes
<1>4. allowed' = [w \in Writes |->
         IF InFlight(w)' THEN allowed[w] \union OwnScopes(writing[w].session)'
                              \union {registered'[s] : s \in put \intersect {writing[w].session}}
         ELSE allowed[w]]
  BY DEF WatchPut
<1>5. allowed' \in [Writes -> SUBSET Given]
  BY <1>1, <1>2, <1>3, <1>4
<1>6. ASSUME NEW w \in Writes
      PROVE  /\ allowed[w] \subseteq allowed'[w]
             /\ InFlight(w)' => /\ OwnScopes(writing[w].session)' \subseteq allowed'[w]
                                /\ writing[w].session \in put =>
                                     registered'[writing[w].session] \in allowed'[w]
  <2>1. CASE InFlight(w)'
    <3>1. allowed'[w] = allowed[w] \union OwnScopes(writing[w].session)'
                          \union {registered'[s] : s \in put \intersect {writing[w].session}}
      BY <1>4, <2>1
    <3> QED
      BY <3>1
  <2>2. CASE ~InFlight(w)'
    BY <1>4, <2>2
  <2> QED
    BY <2>1, <2>2
<1> QED
  BY <1>5, <1>6

\* While a session's calls wait, only its own user puts a scope in its place.
LEMMA OthersKeep ==
  ASSUME SessionInv, NEW put \in SUBSET Sessions, WatchPut(put), UNCHANGED <<writing, landed, slot>>,
         workspace' \in Workspaces, registered' \in [Sessions -> Given],
         records' \in [Sessions -> Records \union {NoSession}],
         starting' \in [Sessions -> {"no", "begun", "done"}],
         expired' \in SUBSET Sessions, evictions' \in SUBSET Sessions,
         \A s \in Sessions \ put : registered'[s] \in {registered[s], Unregistered}
  PROVE  SessionInv'
<1>1. SessionTypes /\ KeysAreOwn /\ LandsAtHome
  BY DEF SessionInv
<1>2. writing' \in [Writes -> Calls] /\ \A w \in Writes : writing[w] \in Calls
  BY <1>1 DEF SessionTypes
<1>3. /\ allowed' \in [Writes -> SUBSET Given]
      /\ \A w \in Writes : allowed[w] \subseteq allowed'[w]
      /\ \A w \in Writes : InFlight(w)' /\ writing[w].session \in put =>
                             registered'[writing[w].session] \in allowed'[w]
  BY <1>1, <1>2, Watched
<1>4. SessionTypes'
  BY <1>1, <1>3 DEF SessionTypes
<1>5. KeysAreOwn'
  <2> SUFFICES ASSUME NEW w \in Writes, writing[w].at = "chosen"
               PROVE  /\ writing[w].key \in Scopes => writing[w].key \in allowed'[w]
                      /\ writing[w].key \in Sessions =>
                           /\ writing[w].key = writing[w].session
                           /\ registered'[writing[w].key] \in allowed'[w] \union {NoScope, Unregistered}
    BY DEF KeysAreOwn
  <2>1. /\ writing[w].key \in Scopes => writing[w].key \in allowed[w]
        /\ writing[w].key \in Sessions =>
             /\ writing[w].key = writing[w].session
             /\ registered[writing[w].key] \in allowed[w] \union {NoScope, Unregistered}
    BY <1>1 DEF KeysAreOwn
  <2>2. InFlight(w)'
    BY DEF InFlight
  <2>3. CASE writing[w].session \in put
    BY <1>3, <2>1, <2>2, <2>3
  <2>4. CASE writing[w].session \notin put
    BY <1>3, <2>1, <2>4
  <2> QED
    BY <2>3, <2>4
<1>6. LandsAtHome'
  BY <1>1, <1>3 DEF LandsAtHome
<1> QED
  BY <1>4, <1>5, <1>6 DEF SessionInv

\* A session starts, in its two stretches.
LEMMA StartsKeep ==
  ASSUME SessionInv, NEW s \in Sessions,
         BeginStart(s) \/ \E c \in Choices \union {NoScope}, known \in BOOLEAN : FinishStart(s, c, known)
  PROVE  SessionInv'
<1>1. SessionTypes
  BY DEF SessionInv
<1>2. CASE BeginStart(s)
  <2>1. /\ UNCHANGED <<workspace, slot, expired, writing, landed>> /\ WatchPut({})
        /\ starting' = [starting EXCEPT ![s] = "begun"] /\ evictions' = {}
    BY <1>2 DEF BeginStart, calls, Watch
  <2>2. NewRecord \in Records
    BY DEF NewRecord, Records
  <2>3. records' \in [Sessions -> Records \union {NoSession}]
    BY <1>1, <1>2, <2>2 DEF BeginStart, SessionTypes
  <2>4. registered' = [t \in Sessions |-> IF t \in evictions \union (expired \intersect OpenSessions)
                                          THEN Unregistered ELSE registered[t]]
    BY <1>2 DEF BeginStart
  <2>5. registered' \in [Sessions -> Given] /\ \A t \in Sessions : registered'[t] \in {registered[t], Unregistered}
    BY <1>1, <2>4 DEF SessionTypes, Given
  <2>6. workspace' \in Workspaces /\ expired' \in SUBSET Sessions /\ evictions' \in SUBSET Sessions
        /\ starting' \in [Sessions -> {"no", "begun", "done"}]
    BY <1>1, <2>1 DEF SessionTypes
  <2> QED
    BY <2>1, <2>3, <2>5, <2>6, OthersKeep
<1>3. ASSUME NEW c \in Choices \union {NoScope}, NEW known \in BOOLEAN, FinishStart(s, c, known)
      PROVE  SessionInv'
  <2> DEFINE default == IF c # NoScope THEN c ELSE IF known THEN ScopeAt[workspace] ELSE NoScope
             at == IF known THEN workspace ELSE NoSession
  <2>1. /\ UNCHANGED <<workspace, slot, expired, evictions, writing, landed>> /\ WatchPut({s})
        /\ starting' = [starting EXCEPT ![s] = "done"]
        /\ registered' = [registered EXCEPT ![s] = default]
        /\ records' = IF records[s] = NoSession THEN records
                      ELSE [records EXCEPT ![s].start = default, ![s].at = at]
    BY <1>3 DEF FinishStart, calls
  <2>2. default \in Scopes \union {NoScope}
    BY <1>1, SessionAssumption DEF SessionTypes
  <2>3. at \in Workspaces \union {NoSession}
    BY <1>1 DEF SessionTypes
  <2> HIDE DEF default, at
  <2>4. records' \in [Sessions -> Records \union {NoSession}]
    <3>1. CASE records[s] = NoSession
      BY <1>1, <2>1, <3>1 DEF SessionTypes
    <3>2. CASE records[s] # NoSession
      <4>1. records[s] \in Records /\ records \in [Sessions -> Records \union {NoSession}]
        BY <1>1, <3>2 DEF SessionTypes
      <4>2. [records[s] EXCEPT !.start = default, !.at = at] \in Records
        BY <2>2, <2>3, <4>1 DEF Records
      <4>3. records' = [records EXCEPT ![s] = [records[s] EXCEPT !.start = default, !.at = at]]
        BY <2>1, <3>2
      <4> QED
        BY <4>1, <4>2, <4>3
    <3> QED
      BY <3>1, <3>2
  <2>5. registered' \in [Sessions -> Given] /\ \A t \in Sessions \ {s} : registered'[t] = registered[t]
    BY <1>1, <2>1, <2>2 DEF SessionTypes, Given
  <2>6. workspace' \in Workspaces /\ expired' \in SUBSET Sessions /\ evictions' \in SUBSET Sessions
        /\ starting' \in [Sessions -> {"no", "begun", "done"}]
    BY <1>1, <2>1 DEF SessionTypes
  <2>7. \A t \in Sessions \ {s} : registered'[t] \in {registered[t], Unregistered}
    BY <2>5
  <2>8. {s} \in SUBSET Sessions
    OBVIOUS
  <2> QED
    BY <2>1, <2>4, <2>5, <2>6, <2>7, <2>8, OthersKeep
<1> QED
  BY <1>2, <1>3

\* The session's user sets, clears or ends what it has.
LEMMA UsersKeep ==
  ASSUME SessionInv, NEW s \in Sessions,
         (\E c \in Choices : SetScope(s, c)) \/ ClearScope(s) \/ EndSession(s)
  PROVE  SessionInv'
<1>1. SessionTypes
  BY DEF SessionInv
<1>2. UNCHANGED <<workspace, starting, slot, expired, evictions, writing, landed>>
  BY DEF SetScope, ClearScope, EndSession, calls
<1>3. workspace' \in Workspaces /\ expired' \in SUBSET Sessions /\ evictions' \in SUBSET Sessions
      /\ starting' \in [Sessions -> {"no", "begun", "done"}] /\ {s} \in SUBSET Sessions
  BY <1>1, <1>2 DEF SessionTypes
<1>4. ASSUME NEW b \in BOOLEAN,
             records' = IF records[s] = NoSession THEN records ELSE [records EXCEPT ![s].adjusted = b]
      PROVE  records' \in [Sessions -> Records \union {NoSession}]
  <2>1. CASE records[s] = NoSession
    BY <1>1, <1>4, <2>1 DEF SessionTypes
  <2>2. CASE records[s] # NoSession
    <3>1. records[s] \in Records /\ records \in [Sessions -> Records \union {NoSession}]
      BY <1>1, <2>2 DEF SessionTypes
    <3>2. [records[s] EXCEPT !.adjusted = b] \in Records
      BY <3>1 DEF Records
    <3>3. records' = [records EXCEPT ![s] = [records[s] EXCEPT !.adjusted = b]]
      BY <1>4, <2>2
    <3> QED
      BY <3>1, <3>2, <3>3
  <2> QED
    BY <2>1, <2>2
<1>5. ASSUME NEW v \in Given, registered' = [registered EXCEPT ![s] = v]
      PROVE  registered' \in [Sessions -> Given] /\ \A t \in Sessions \ {s} : registered'[t] \in {registered[t], Unregistered}
  BY <1>1, <1>5 DEF SessionTypes
<1>6. ASSUME NEW c \in Choices, SetScope(s, c) PROVE SessionInv'
  <2>1. c \in Given
    BY SessionAssumption DEF Given
  <2>2. registered' = [registered EXCEPT ![s] = c] /\ WatchPut({s})
    BY <1>6 DEF SetScope
  <2>3. records' = IF records[s] = NoSession THEN records ELSE [records EXCEPT ![s].adjusted = TRUE]
    BY <1>6 DEF SetScope
  <2>4. registered' \in [Sessions -> Given] /\ \A t \in Sessions \ {s} : registered'[t] \in {registered[t], Unregistered}
    BY <1>5, <2>1, <2>2
  <2>5. records' \in [Sessions -> Records \union {NoSession}]
    BY <1>4, <2>3
  <2> QED
    BY <1>2, <1>3, <2>2, <2>4, <2>5, OthersKeep
<1>7. CASE ClearScope(s)
  <2> DEFINE v == IF records[s] = NoSession THEN NoScope ELSE records[s].start
  <2>1. v \in Given
    BY <1>1 DEF SessionTypes, Records, Given
  <2>2. registered' = [registered EXCEPT ![s] = v] /\ WatchPut({s})
    BY <1>7 DEF ClearScope
  <2>3. records' = IF records[s] = NoSession THEN records ELSE [records EXCEPT ![s].adjusted = FALSE]
    BY <1>7 DEF ClearScope
  <2> HIDE DEF v
  <2>4. registered' \in [Sessions -> Given] /\ \A t \in Sessions \ {s} : registered'[t] \in {registered[t], Unregistered}
    BY <1>5, <2>1, <2>2
  <2>5. records' \in [Sessions -> Records \union {NoSession}]
    BY <1>4, <2>3
  <2> QED
    BY <1>2, <1>3, <2>2, <2>4, <2>5, OthersKeep
<1>8. CASE EndSession(s)
  <2>1. records' = [records EXCEPT ![s] = NoSession] /\ registered' = [registered EXCEPT ![s] = Unregistered]
        /\ WatchPut({})
    BY <1>8 DEF EndSession, Watch
  <2>2. records' \in [Sessions -> Records \union {NoSession}]
    BY <1>1, <2>1 DEF SessionTypes
  <2>3. registered' \in [Sessions -> Given] /\ \A t \in Sessions : registered'[t] \in {registered[t], Unregistered}
    BY <1>1, <2>1 DEF SessionTypes, Given
  <2> QED
    BY <1>2, <1>3, <2>1, <2>2, <2>3, OthersKeep
<1> QED
  BY <1>6, <1>7, <1>8

\* The client moves, and sessions grow old.
LEMMA ClientKeeps ==
  ASSUME SessionInv, ChangeWorkspace \/ \E s \in Sessions : Age(s)
  PROVE  SessionInv'
<1>1. SessionTypes
  BY DEF SessionInv
<1>2. /\ UNCHANGED <<records, starting, registered, slot, evictions, writing, landed>>
      /\ WatchPut({}) /\ workspace' \in Workspaces /\ expired' \in SUBSET Sessions
  BY <1>1 DEF ChangeWorkspace, Age, Watch, calls, SessionTypes
<1>3. registered' \in [Sessions -> Given] /\ records' \in [Sessions -> Records \union {NoSession}]
      /\ starting' \in [Sessions -> {"no", "begun", "done"}] /\ evictions' \in SUBSET Sessions
  BY <1>1, <1>2 DEF SessionTypes
<1>4. \A s \in Sessions \ {} : registered'[s] \in {registered[s], Unregistered}
  BY <1>2
<1> QED
  BY <1>2, <1>3, <1>4, OthersKeep

\* A step of one write, which touches no session's scope.
LEMMA WriteKeeps ==
  ASSUME SessionInv, NEW w \in Writes, WatchPut({}),
         UNCHANGED <<workspace, starting, registered, slot, expired>>,
         records' \in [Sessions -> Records \union {NoSession}], evictions' \in SUBSET Sessions,
         writing' \in [Writes -> Calls], landed' \in [Writes -> Given],
         \A u \in Writes \ {w} : writing'[u] = writing[u] /\ landed'[u] = landed[u],
         writing'[w].at = "chosen" =>
           /\ writing'[w].key \in Scopes => writing'[w].key \in allowed'[w]
           /\ writing'[w].key \in Sessions =>
                /\ writing'[w].key = writing'[w].session
                /\ registered[writing'[w].key] \in allowed'[w] \union {NoScope, Unregistered},
         landed'[w] = landed[w] \/ landed'[w] \in allowed[w] \union {NoScope, Unregistered}
  PROVE  SessionInv'
<1>1. SessionTypes /\ KeysAreOwn /\ LandsAtHome
  BY DEF SessionInv
<1>2. workspace' \in Workspaces /\ registered' \in [Sessions -> Given]
  BY <1>1 DEF SessionTypes
<1>3. allowed' \in [Writes -> SUBSET Given] /\ \A u \in Writes : allowed[u] \subseteq allowed'[u]
  BY <1>1, <1>2, Watched
<1>4. SessionTypes'
  BY <1>1, <1>2, <1>3 DEF SessionTypes
<1>5. KeysAreOwn'
  BY <1>1, <1>3 DEF KeysAreOwn
<1>6. LandsAtHome'
  BY <1>1, <1>3 DEF LandsAtHome
<1> QED
  BY <1>4, <1>5, <1>6 DEF SessionInv

\* A write is let in for a session that is open, or for none.
LEMMA AdmitsKeep ==
  ASSUME SessionInv, NEW w \in Writes, (\E s \in Sessions : AdmitNamed(w, s)) \/ AdmitNameless(w)
  PROVE  SessionInv'
<1>1. SessionTypes
  BY DEF SessionInv
<1>2. PICK session \in Sessions \union {NoSession} : Admit(w, session)
  <2>1. Lone \in Sessions \union {NoSession}
    <3>1. CASE \E s \in OpenSessions \ expired : OpenSessions \ expired = {s}
      BY <3>1 DEF Lone, OpenSessions
    <3>2. CASE ~\E s \in OpenSessions \ expired : OpenSessions \ expired = {s}
      BY <3>2 DEF Lone
    <3> QED
      BY <3>1, <3>2
  <2> HIDE DEF Lone
  <2> QED
    BY <2>1 DEF AdmitNamed, AdmitNameless
<1>3. UNCHANGED <<workspace, starting, registered, slot, expired, landed>> /\ WatchPut({})
  BY DEF AdmitNamed, AdmitNameless, Watch
<1>4. records' \in [Sessions -> Records \union {NoSession}] /\ evictions' \in SUBSET Sessions
  BY <1>1 DEF AdmitNamed, AdmitNameless, Sweep, SessionTypes, OpenSessions
<1> DEFINE v == [at |-> "admitted", session |-> session, key |-> NoSession]
<1>5. writing' = [writing EXCEPT ![w] = v] /\ v \in Calls /\ v.at = "admitted"
  BY <1>2 DEF Admit, Calls
<1> HIDE DEF v
<1>6. writing' \in [Writes -> Calls] /\ writing'[w] = v /\ \A u \in Writes \ {w} : writing'[u] = writing[u]
  BY <1>1, <1>5 DEF SessionTypes
<1>7. landed' \in [Writes -> Given]
  BY <1>1, <1>3 DEF SessionTypes
<1>8. writing'[w].at # "chosen"
  BY <1>5, <1>6
<1> QED
  BY <1>3, <1>4, <1>6, <1>7, <1>8, WriteKeeps

\* The key is a session that holds a scope of the write's, a scope of its workspace, or none.
LEMMA ChoosesKeep ==
  ASSUME SessionInv, NEW w \in Writes, NEW known \in BOOLEAN, Choose(w, known)
  PROVE  SessionInv'
<1> DEFINE s == writing[w].session
           k == IF Holds(s, known) THEN s
                ELSE IF known /\ ScopeAt[workspace] # NoScope THEN ScopeAt[workspace] ELSE NoSession
<1>1. SessionTypes
  BY DEF SessionInv
<1>2. /\ UNCHANGED <<workspace, records, starting, registered, slot, expired, evictions, landed>>
      /\ WatchPut({}) /\ writing' = [writing EXCEPT ![w].at = "chosen", ![w].key = k]
  BY DEF Choose, Watch
<1>3. writing[w] \in Calls /\ s \in Sessions \union {NoSession}
  BY <1>1 DEF SessionTypes, Calls
<1>4. ScopeAt[workspace] \in Scopes \union {NoScope}
  BY <1>1, SessionAssumption DEF SessionTypes
<1>5. \/ k = s /\ s \in Sessions /\ Holds(s, known)
      \/ k = ScopeAt[workspace] /\ k \in Scopes
      \/ k = NoSession
  BY <1>3, <1>4 DEF Holds
<1>6. k \in Sessions \union Scopes \union {NoSession}
  BY <1>5
<1> HIDE DEF k
<1>7. /\ writing' \in [Writes -> Calls] /\ writing'[w].at = "chosen" /\ writing'[w].key = k
      /\ writing'[w].session = s /\ \A u \in Writes \ {w} : writing'[u] = writing[u]
  <2> DEFINE v == [writing[w] EXCEPT !.at = "chosen", !.key = k]
  <2>1. v \in Calls /\ v.at = "chosen" /\ v.key = k /\ v.session = s
    BY <1>3, <1>6 DEF Calls
  <2>2. writing' = [writing EXCEPT ![w] = v]
    BY <1>2
  <2> HIDE DEF v, s
  <2> QED
    BY <1>1, <2>1, <2>2 DEF SessionTypes
<1>8. workspace' \in Workspaces /\ registered' \in [Sessions -> Given] /\ landed' \in [Writes -> Given]
      /\ records' \in [Sessions -> Records \union {NoSession}] /\ evictions' \in SUBSET Sessions
  BY <1>1, <1>2 DEF SessionTypes
<1>9. OwnScopes(writing[w].session)' \subseteq allowed'[w]
  <2>1. InFlight(w)'
    BY <1>7 DEF InFlight
  <2> QED
    BY <1>1, <1>2, <1>7, <1>8, <2>1, Watched
<1>10. /\ ScopeAt[workspace] \in allowed'[w]
       /\ s # NoSession /\ records[s] # NoSession /\ registered[s] # Unregistered
            /\ (records[s].adjusted \/ records[s].at = workspace) => registered[s] \in allowed'[w]
  BY <1>2, <1>7, <1>9 DEF OwnScopes
<1> HIDE DEF s
<1>11. k \in Scopes => k \in allowed'[w]
  <2>1. CASE k = s /\ s \in Sessions
    BY <2>1, SessionAssumption
  <2>2. CASE k = NoSession
    BY <2>2, SessionAssumption
  <2>3. CASE k = ScopeAt[workspace]
    BY <1>10, <2>3
  <2> QED
    BY <1>5, <2>1, <2>2, <2>3
<1>12. k \in Sessions => k = s /\ registered[k] \in allowed'[w] \union {NoScope, Unregistered}
  <2> SUFFICES ASSUME k \in Sessions PROVE k = s /\ registered[k] \in allowed'[w] \union {NoScope, Unregistered}
    OBVIOUS
  <2>1. k = s /\ Holds(s, known)
    BY <1>5, SessionAssumption
  <2>2. s # NoSession /\ records[s] # NoSession /\ (records[s].adjusted \/ records[s].at = workspace)
    BY <2>1 DEF Holds
  <2> QED
    BY <1>10, <2>1, <2>2
<1> QED
  BY <1>2, <1>7, <1>8, <1>11, <1>12, WriteKeeps

\* A write lands where its key says when core gets there.
LEMMA LandsKeep ==
  ASSUME SessionInv, NEW w \in Writes, RefuseSplit(w) \/ Land(w)
  PROVE  SessionInv'
<1>1. SessionTypes /\ KeysAreOwn
  BY DEF SessionInv
<1>2. /\ UNCHANGED <<workspace, records, starting, registered, slot, expired, evictions>>
      /\ WatchPut({}) /\ writing' = [writing EXCEPT ![w].at = "done"]
  BY DEF RefuseSplit, Land, Watch
<1>3. writing[w] \in Calls
  BY <1>1 DEF SessionTypes
<1>4. writing' \in [Writes -> Calls] /\ writing'[w].at = "done" /\ \A u \in Writes \ {w} : writing'[u] = writing[u]
  <2> DEFINE v == [writing[w] EXCEPT !.at = "done"]
  <2>1. v \in Calls /\ v.at = "done"
    BY <1>3 DEF Calls
  <2>2. writing' = [writing EXCEPT ![w] = v]
    BY <1>2
  <2> HIDE DEF v
  <2> QED
    BY <1>1, <2>1, <2>2 DEF SessionTypes
<1>5. records' \in [Sessions -> Records \union {NoSession}] /\ evictions' \in SUBSET Sessions
  BY <1>1, <1>2 DEF SessionTypes
<1>6. CASE RefuseSplit(w)
  <2>1. landed' = landed /\ landed' \in [Writes -> Given]
    BY <1>1, <1>6 DEF RefuseSplit, SessionTypes
  <2> QED
    BY <1>2, <1>4, <1>5, <2>1, WriteKeeps
<1>7. CASE Land(w)
  <2> DEFINE k == writing[w].key
             l == IF k \in Scopes THEN k ELSE IF k = NoSession THEN NoScope ELSE Get(k)
  <2>1. landed' = [landed EXCEPT ![w] = l] /\ writing[w].at = "chosen"
    BY <1>7 DEF Land, AtWrite
  <2>2. k \in Sessions \union Scopes \union {NoSession}
    BY <1>3 DEF Calls
  <2>3. /\ k \in Scopes => k \in allowed[w]
        /\ k \in Sessions => registered[k] \in allowed[w] \union {NoScope, Unregistered}
    BY <1>1, <2>1 DEF KeysAreOwn
  <2>4. l \in allowed[w] \union {NoScope, Unregistered}
    <3>1. k \in Sessions => Get(k) \in {registered[k], NoScope}
      BY <1>1 DEF Get, SessionTypes
    <3> HIDE DEF k
    <3> QED
      BY <2>2, <2>3, <3>1
  <2>5. l \in Given
    <3>1. allowed[w] \in SUBSET Given
      BY <1>1 DEF SessionTypes
    <3> HIDE DEF l
    <3> QED
      BY <2>4, <3>1 DEF Given
  <2> HIDE DEF l
  <2>6. landed' \in [Writes -> Given] /\ landed'[w] = l /\ \A u \in Writes \ {w} : landed'[u] = landed[u]
    BY <1>1, <2>1, <2>5 DEF SessionTypes
  <2> QED
    BY <1>2, <1>4, <1>5, <2>4, <2>6, WriteKeeps
<1> QED
  BY <1>6, <1>7

\* Every step of any session, call or client keeps the keys their own.
LEMMA SessionSteps == SessionInv /\ [SessionNext]_sessionVars => SessionInv'
<1> SUFFICES ASSUME SessionInv, [SessionNext]_sessionVars PROVE SessionInv'
  OBVIOUS
<1>1. ASSUME NEW s \in Sessions,
             BeginStart(s) \/ \E c \in Choices \union {NoScope}, known \in BOOLEAN : FinishStart(s, c, known)
      PROVE  SessionInv'
  BY <1>1, StartsKeep
<1>2. ASSUME NEW s \in Sessions, (\E c \in Choices : SetScope(s, c)) \/ ClearScope(s) \/ EndSession(s)
      PROVE  SessionInv'
  BY <1>2, UsersKeep
<1>3. CASE ChangeWorkspace \/ \E s \in Sessions : Age(s)
  BY <1>3, ClientKeeps
<1>4. ASSUME NEW w \in Writes, (\E s \in Sessions : AdmitNamed(w, s)) \/ AdmitNameless(w)
      PROVE  SessionInv'
  BY <1>4, AdmitsKeep
<1>5. ASSUME NEW w \in Writes, NEW known \in BOOLEAN, Choose(w, known) PROVE SessionInv'
  BY <1>5, ChoosesKeep
<1>6. ASSUME NEW w \in Writes, RefuseSplit(w) \/ Land(w) PROVE SessionInv'
  BY <1>6, LandsKeep
<1>7. CASE UNCHANGED sessionVars
  BY <1>7 DEF sessionVars, SessionInv, SessionTypes, KeysAreOwn, LandsAtHome
<1> QED
  BY <1>1, <1>2, <1>3, <1>4, <1>5, <1>6, <1>7 DEF SessionNext

\* Any number of sessions may start, end, expire and move beside each other: the state
\* keeps its types, and the process default stays empty.
THEOREM SessionTyped == SessionSpec => []SessionTypes
<1>1. SessionInv => SessionTypes
  BY DEF SessionInv
<1> QED
  BY <1>1, SessionStarts, SessionSteps, PTL DEF SessionSpec

\* A write without a scope never lands in another session's.
THEOREM WritesLandAtHome == SessionSpec => []LandsAtHome
<1>1. SessionInv => LandsAtHome
  BY DEF SessionInv
<1> QED
  BY <1>1, SessionStarts, SessionSteps, PTL DEF SessionSpec

----------------------------------------------------------------------------
(* The queues of calls *)

\* The runs a mutex has to count.
Active(m) == {r \in Runs : pc[r] \in {"queued", "running"} /\ mutex[r] = m}
Older(r, s) == order[r] > order[s]

\* A mutex belongs to the key of the run that created it.
Named ==
  /\ \A k \in Keys : map[k] # None => map[k] \in Called /\ key[map[k]] = k
  /\ \A r \in Called : mutex[r] \in Called /\ key[mutex[r]] = key[r]

Ordered ==
  /\ \A r, s \in Called : r # s => order[r] # order[s]
  /\ \A r \in Runs \ Called : order[r] = 0

\* A run awaits the one called just before it on its mutex.
Chained ==
  /\ \A s \in Called :
       prev[s] # None => prev[s] \in Called /\ mutex[prev[s]] = mutex[s]
  /\ \A r, s \in Called :
       mutex[r] = mutex[s] /\ Older(r, s) => prev[s] # None /\ (r = prev[s] \/ Older(r, prev[s]))

\* The tail of a queue is the youngest run of its mutex.
Tailed ==
  /\ \A m \in Mutexes : queue[m] # None => queue[m] \in Called /\ mutex[queue[m]] = m
  /\ \A r \in Called :
       queue[mutex[r]] # None /\ (r = queue[mutex[r]] \/ Older(r, queue[mutex[r]]))

\* Whoever has started has everybody older on its mutex behind it.
Served ==
  \A r, s \in Called :
    mutex[r] = mutex[s] /\ Older(r, s) /\ pc[s] # "queued" => Released(r)

Counted == \A m \in Mutexes : depth[m] = Cardinality(Active(m))

\* The runs of an evicted mutex are older than all that are waiting.
Superseded ==
  \A r, s \in Called :
    key[r] = key[s] /\ mutex[r] # mutex[s] /\ pc[s] \in {"queued", "running"} => Older(r, s)

QueueInv ==
  TypeOK /\ Named /\ Ordered /\ Chained /\ Tailed /\ Served /\ Counted /\ NoSplit /\ Superseded

\* Only a run and its mutex are active on it; the count is of a finite set.
LEMMA ActiveFinite == \A m \in Mutexes : IsFiniteSet(Active(m)) /\ Cardinality(Active(m)) \in Nat
<1> TAKE m \in Mutexes
<1>1. Active(m) \subseteq Runs
  BY DEF Active
<1> QED
  BY <1>1, QueueAssumption, FS_Subset, FS_CardinalityType

\* The invariant holds when nobody has called.
LEMMA QueueInit == Init => QueueInv
<1> SUFFICES ASSUME Init PROVE QueueInv
  OBVIOUS
<1>1. Called = {} /\ \A m \in Mutexes : Active(m) = {}
  BY DEF Init, Called, Active
<1>2. TypeOK
  BY <1>1 DEF Init, TypeOK, Stages
<1>3. Counted
  BY <1>1, FS_EmptySet DEF Init, Counted
<1>4. Named /\ Ordered /\ Chained /\ Tailed /\ Served /\ NoSplit /\ Superseded
  BY <1>1 DEF Init, Named, Ordered, Chained, Tailed, Served, NoSplit, Superseded
<1> QED
  BY <1>2, <1>3, <1>4 DEF QueueInv

\* A call keeps it: the new run is the youngest, and is chained to a mutex that
\* is new or in the map.
LEMMA CallStep ==
  ASSUME QueueInv, NEW r \in Runs, NEW k \in Keys, Call(r, k)
  PROVE  QueueInv'
<1> USE DEF Mutexes
<1>m. PICK m \in Runs : m = IF map[k] = None THEN r ELSE map[k]
  BY DEF QueueInv, TypeOK
<1>1. r \notin Called /\ Called' = Called \union {r} /\ pc' = [pc EXCEPT ![r] = "queued"]
  BY DEF Call, Goto, Called, QueueInv, TypeOK
<1>2. /\ m \in Runs
      /\ map' = [map EXCEPT ![k] = m]
      /\ depth' = [depth EXCEPT ![m] = @ + 1]
      /\ mutex' = [mutex EXCEPT ![r] = m]
      /\ prev' = [prev EXCEPT ![r] = queue[m]]
      /\ queue' = [queue EXCEPT ![m] = r]
      /\ key' = [key EXCEPT ![r] = k]
  BY <1>m DEF Call
<1>3. /\ \A p, q \in Called : Older(p, q)' <=> Older(p, q)
      /\ \A p \in Called : Older(p, r)' /\ ~Older(r, p)'
      /\ order' \in [Runs -> Nat]
  BY <1>1 DEF Call, Older, QueueInv, TypeOK, Ordered, Called
<1>4. /\ m \in Called => key[m] = k
      /\ m \in Called \/ m = r
      /\ m \notin Called => \A q \in Called : mutex[q] # m
      /\ m \notin Called => queue[m] = None
  BY <1>1, <1>m DEF QueueInv, Named, Tailed
<1>5. \A q \in Called : /\ q # r /\ mutex'[q] = mutex[q] /\ prev'[q] = prev[q] /\ key'[q] = key[q]
                        /\ pc'[q] = pc[q] /\ mutex[q] \in Called
  BY <1>1, <1>2 DEF QueueInv, TypeOK, Called, Named
<1>6. mutex'[r] = m /\ prev'[r] = queue[m] /\ key'[r] = k /\ pc'[r] = "queued"
  BY <1>1, <1>2 DEF QueueInv, TypeOK
<1>7. TypeOK'
  <2>1. /\ map' \in [Keys -> Runs \union {None}]
        /\ depth' \in [Runs -> Nat]
        /\ queue' \in [Runs -> Runs \union {None}]
        /\ key' \in [Runs -> Keys \union {None}]
        /\ mutex' \in [Runs -> Runs \union {None}]
        /\ prev' \in [Runs -> Runs \union {None}]
    BY <1>2 DEF QueueInv, TypeOK
  <2>2. pc' \in [Runs -> Stages]
    BY <1>1 DEF QueueInv, TypeOK, Stages
  <2>3. \A q \in Called' : key'[q] \in Keys /\ mutex'[q] \in Runs
    BY <1>1, <1>5, <1>6 DEF QueueInv, TypeOK
  <2>4. map' \in [Keys -> Runs \union {None}] /\ order' \in [Runs -> Nat]
    BY <2>1, <1>3
  <2> QED
    BY <2>1, <2>2, <2>3, <2>4 DEF TypeOK
<1>8. Named'
  BY <1>1, <1>2, <1>4, <1>5, <1>6 DEF QueueInv, Named, TypeOK
<1>9. Ordered'
  <2>1. \A q \in Runs \ Called' : order'[q] = 0
    BY <1>1 DEF Call, Called, QueueInv, TypeOK, Ordered
  <2>2. ASSUME NEW p \in Called', NEW q \in Called', p # q
        PROVE  order'[p] # order'[q]
    <3>1. CASE p = r \/ q = r
      BY <3>1, <2>2, <1>1, <1>3 DEF Older, Called
    <3>2. CASE p # r /\ q # r
      <4>1. p \in Called /\ q \in Called /\ (Older(p, q) \/ Older(q, p))
        BY <2>2, <3>2, <1>1 DEF QueueInv, Ordered, Older, TypeOK, Called
      <4> QED
        BY <4>1, <1>3 DEF Older, Called
    <3> QED
      BY <3>1, <3>2
  <2> QED
    BY <2>1, <2>2 DEF Ordered
<1>10. Chained'
  <2>1. ASSUME NEW s \in Called', prev'[s] # None
        PROVE  prev'[s] \in Called' /\ mutex'[prev'[s]] = mutex'[s]
    BY <2>1, <1>1, <1>2, <1>5, <1>6 DEF QueueInv, Chained, Tailed
  <2>2. ASSUME NEW p \in Called', NEW s \in Called', mutex'[p] = mutex'[s], Older(p, s)'
        PROVE  prev'[s] # None /\ (p = prev'[s] \/ order'[p] > order'[prev'[s]])
    <3>1. p \in Called
      BY <2>2, <1>1, <1>3 DEF Older
    <3>2. CASE s = r
      <4>1. mutex[p] = m
        BY <2>2, <3>1, <3>2, <1>5, <1>6
      <4>2. queue[m] # None /\ queue[m] \in Called /\ (p = queue[m] \/ Older(p, queue[m]))
        BY <3>1, <4>1, <1>m DEF QueueInv, Tailed
      <4> QED
        BY <3>1, <3>2, <4>2, <1>3, <1>6 DEF Older
    <3>3. CASE s # r
      <4>1. s \in Called /\ mutex[p] = mutex[s] /\ Older(p, s)
        BY <2>2, <3>1, <3>3, <1>1, <1>3, <1>5
      <4>2. prev[s] # None /\ prev[s] \in Called /\ (p = prev[s] \/ Older(p, prev[s]))
        BY <3>1, <4>1 DEF QueueInv, Chained
      <4> QED
        BY <3>1, <4>1, <4>2, <1>3, <1>5 DEF Older
    <3> QED
      BY <3>2, <3>3
  <2> QED
    BY <2>1, <2>2 DEF Chained, Older
<1>11. Tailed'
  BY <1>1, <1>2, <1>3, <1>4, <1>5, <1>6, QueueAssumption DEF QueueInv, Tailed, TypeOK
<1>12. Served'
  BY <1>1, <1>3, <1>5, <1>6 DEF QueueInv, Served, Released
<1>13. Counted'
  <2>1. Active(m)' = Active(m) \union {r} /\ r \notin Active(m)
    BY <1>1, <1>2, <1>5, <1>6 DEF Active, Called, QueueInv, TypeOK
  <2>2. \A n \in Runs : n # m => Active(n)' = Active(n)
    BY <1>1, <1>2, <1>5, <1>6 DEF Active, Called, QueueInv, TypeOK
  <2>3. Cardinality(Active(m)') = Cardinality(Active(m)) + 1
    BY <1>2, <2>1, ActiveFinite, FS_AddElement
  <2> QED
    BY <1>2, <2>2, <2>3, ActiveFinite DEF QueueInv, Counted, TypeOK
<1>14. NoSplit'
  <2> SUFFICES ASSUME NEW q \in Runs, pc'[q] \in {"queued", "running"}
               PROVE  map'[key'[q]] = mutex'[q]
    BY DEF NoSplit
  <2>1. CASE q = r
    BY <2>1, <1>2, <1>6 DEF QueueInv, TypeOK
  <2>2. CASE q # r
    <3>1. q \in Called /\ map[key[q]] = mutex[q]
      BY <2>2, <1>1 DEF Called, QueueInv, NoSplit, TypeOK
    <3> QED
      BY <3>1, <1>m, <1>2, <1>5, QueueAssumption DEF QueueInv, TypeOK
  <2> QED
    BY <2>1, <2>2
<1>15. Superseded'
  <2> SUFFICES ASSUME NEW p \in Called', NEW q \in Called', key'[p] = key'[q],
                      mutex'[p] # mutex'[q], pc'[q] \in {"queued", "running"}
               PROVE  Older(p, q)'
    BY DEF Superseded
  <2>1. CASE q = r
    BY <2>1, <1>1, <1>3
  <2>2. CASE q # r /\ p # r
    BY <2>2, <1>1, <1>3, <1>5 DEF QueueInv, Superseded
  <2>3. CASE q # r /\ p = r
    <3>1. map[key[q]] = mutex[q] /\ key[q] = k
      BY <2>3, <1>1, <1>5, <1>6 DEF Called, QueueInv, NoSplit
    <3>2. mutex[q] = m
      BY <2>3, <3>1, <1>m, <1>1, <1>5, QueueAssumption DEF Called
    <3> QED
      BY <2>3, <3>2, <1>1, <1>5, <1>6
  <2> QED
    BY <2>1, <2>2, <2>3
<1> QED
  BY <1>7, <1>8, <1>9, <1>10, <1>11, <1>12, <1>13, <1>14, <1>15 DEF QueueInv

\* A start keeps it: everybody older has settled.
LEMMA StartStep ==
  ASSUME QueueInv, NEW r \in Runs, Start(r)
  PROVE  QueueInv'
<1>1. /\ r \in Called /\ Called' = Called
      /\ pc' = [pc EXCEPT ![r] = "running"] /\ pc[r] = "queued" /\ Released(prev[r])
      /\ UNCHANGED <<map, depth, queue, key, mutex, prev, order>>
  BY DEF Start, Goto, Called, QueueInv, TypeOK
<1>2. TypeOK'
  BY <1>1 DEF QueueInv, TypeOK, Stages
<1>3. Named' /\ Ordered' /\ Chained' /\ Tailed'
  BY <1>1 DEF QueueInv, Named, Ordered, Chained, Tailed, Older
<1>4. Served'
  <2>1. \A q \in Called : mutex[q] = mutex[r] /\ Older(q, r) => Released(q)
    <3> SUFFICES ASSUME NEW q \in Called, mutex[q] = mutex[r], Older(q, r) PROVE Released(q)
      OBVIOUS
    <3>1. prev[r] # None /\ prev[r] \in Called /\ mutex[prev[r]] = mutex[r]
          /\ (q = prev[r] \/ Older(q, prev[r]))
      BY <1>1 DEF QueueInv, Chained
    <3>2. pc[prev[r]] # "queued"
      BY <1>1, <3>1 DEF Released
    <3> QED
      BY <1>1, <3>1, <3>2 DEF QueueInv, Served
  <2>2. \A q \in Called : Released(q) => Released(q)'
    BY <1>1 DEF Released, Called, QueueInv, TypeOK
  <2> QED
    BY <1>1, <2>1, <2>2 DEF QueueInv, Served, Older, TypeOK, Called
<1>5. \A m \in Mutexes : Active(m)' = Active(m)
  BY <1>1 DEF Active, QueueInv, TypeOK
<1>6. Counted'
  BY <1>1, <1>5 DEF QueueInv, Counted
<1>7. NoSplit' /\ Superseded'
  BY <1>1 DEF QueueInv, NoSplit, Superseded, Older, TypeOK
<1> QED
  BY <1>2, <1>3, <1>4, <1>6, <1>7 DEF QueueInv

\* Settling keeps it: the count goes down with the active runs.
LEMMA SettleStep ==
  ASSUME QueueInv, NEW r \in Runs, Settle(r)
  PROVE  QueueInv'
<1>1. /\ r \in Called /\ Called' = Called
      /\ pc' = [pc EXCEPT ![r] = "settled"] /\ pc[r] = "running" /\ mutex[r] \in Mutexes
      /\ depth' = [depth EXCEPT ![mutex[r]] = @ - 1]
      /\ UNCHANGED <<map, queue, key, mutex, prev, order>>
  BY DEF Settle, Goto, Called, QueueInv, TypeOK
<1>2. Active(mutex[r])' = Active(mutex[r]) \ {r} /\ r \in Active(mutex[r])
  BY <1>1 DEF Active, QueueInv, TypeOK
<1>3. \A m \in Mutexes : m # mutex[r] => Active(m)' = Active(m)
  BY <1>1 DEF Active, QueueInv, TypeOK
<1>4. Cardinality(Active(mutex[r])') = Cardinality(Active(mutex[r])) - 1
  BY <1>1, <1>2, ActiveFinite, FS_RemoveElement
<1>5. depth[mutex[r]] # 0
  BY <1>1, <1>2, ActiveFinite, FS_EmptySet DEF QueueInv, Counted
<1>6. TypeOK'
  BY <1>1, <1>5 DEF QueueInv, TypeOK, Stages
<1>7. Counted'
  BY <1>1, <1>3, <1>4, ActiveFinite DEF QueueInv, Counted, TypeOK
<1>8. Named' /\ Ordered' /\ Chained' /\ Tailed'
  BY <1>1 DEF QueueInv, Named, Ordered, Chained, Tailed, Older
<1>9. Served'
  BY <1>1 DEF QueueInv, Served, Older, Released, TypeOK, Called
<1>10. NoSplit' /\ Superseded'
  BY <1>1 DEF QueueInv, NoSplit, Superseded, Older, TypeOK
<1> QED
  BY <1>6, <1>7, <1>8, <1>9, <1>10 DEF QueueInv

\* Eviction keeps it: a mutex that counts nobody has no active run.
LEMMA EvictStep ==
  ASSUME QueueInv, NEW r \in Runs, Evict(r)
  PROVE  QueueInv'
<1>1. /\ r \in Called /\ Called' = Called /\ key[r] \in Keys /\ mutex[r] \in Mutexes
      /\ pc' = [pc EXCEPT ![r] = "done"] /\ pc[r] = "settled"
      /\ UNCHANGED <<depth, queue, key, mutex, prev, order>>
      /\ \/ UNCHANGED map
         \/ /\ depth[mutex[r]] = 0 /\ map[key[r]] = mutex[r]
            /\ map' = [map EXCEPT ![key[r]] = None]
  BY DEF Evict, Goto, Called, QueueInv, TypeOK
<1>2. TypeOK'
  BY <1>1 DEF QueueInv, TypeOK, Stages
<1>3. Named' /\ Ordered' /\ Chained' /\ Tailed'
  BY <1>1 DEF QueueInv, Named, Ordered, Chained, Tailed, Older, TypeOK
<1>4. Served'
  BY <1>1 DEF QueueInv, Served, Older, Released, TypeOK, Called
<1>5. \A m \in Mutexes : Active(m)' = Active(m)
  BY <1>1 DEF Active, QueueInv, TypeOK
<1>6. Counted'
  BY <1>1, <1>5 DEF QueueInv, Counted
<1>7. NoSplit'
  <2>1. CASE UNCHANGED map
    BY <1>1, <2>1 DEF QueueInv, NoSplit, TypeOK
  <2>2. CASE depth[mutex[r]] = 0 /\ map[key[r]] = mutex[r] /\ map' = [map EXCEPT ![key[r]] = None]
    <3>1. Active(mutex[r]) = {}
      BY <1>1, <2>2, ActiveFinite, FS_EmptySet DEF QueueInv, Counted
    <3>2. \A q \in Runs : pc[q] \in {"queued", "running"} => key[q] # key[r]
      BY <1>1, <2>2, <3>1 DEF Active, QueueInv, NoSplit
    <3> QED
      BY <1>1, <2>2, <3>2 DEF QueueInv, NoSplit, TypeOK, Called
  <2> QED
    BY <1>1, <2>1, <2>2
<1>8. Superseded'
  BY <1>1 DEF QueueInv, Superseded, Older, TypeOK
<1> QED
  BY <1>2, <1>3, <1>4, <1>6, <1>7, <1>8 DEF QueueInv

\* The invariant holds in every state.
LEMMA QueueInvariant == Spec => []QueueInv
<1>1. QueueInv /\ [Next]_vars => QueueInv'
  <2> SUFFICES ASSUME QueueInv, [Next]_vars PROVE QueueInv'
    OBVIOUS
  <2>1. CASE UNCHANGED vars
    BY <2>1 DEF vars, QueueInv, TypeOK, Named, Ordered, Chained, Tailed, Served, Counted, NoSplit,
       Superseded, Called, Active, Older, Released
  <2>2. CASE Next
    BY <2>2, CallStep, StartStep, SettleStep, EvictStep DEF Next
  <2> QED
    BY <2>1, <2>2
<1> QED
  BY <1>1, QueueInit, PTL DEF Spec

\* Two runs of one key never execute at once, whoever evicts its mutex when.
THEOREM RunsAlone == Spec => []OneRunPerKey
<1>1. QueueInv => OneRunPerKey
  <2> SUFFICES ASSUME QueueInv, NEW r \in Runs, NEW s \in Runs, r # s,
                      pc[r] = "running", pc[s] = "running", key[r] = key[s]
               PROVE  FALSE
    BY DEF OneRunPerKey
  <2>1. r \in Called /\ s \in Called /\ mutex[r] = mutex[s]
    BY DEF QueueInv, NoSplit, Called
  <2>2. Older(r, s) \/ Older(s, r)
    BY <2>1 DEF QueueInv, Ordered, Older, TypeOK
  <2> QED
    BY <2>1, <2>2, QueueAssumption DEF QueueInv, Served, Released
<1> QED
  BY <1>1, QueueInvariant, PTL

\* Runs of one key start in the order of their calls, across evictions.
THEOREM RunsInOrder == Spec => []FirstComeFirstServed
<1>1. QueueInv => FirstComeFirstServed
  <2> SUFFICES ASSUME QueueInv, NEW r \in Called, NEW s \in Called,
                      pc[r] # "queued", pc[s] = "queued", key[r] = key[s]
               PROVE  Older(r, s)
    BY DEF FirstComeFirstServed, Older
  <2>1. CASE mutex[r] # mutex[s]
    BY <2>1 DEF QueueInv, Superseded
  <2>2. CASE mutex[r] = mutex[s]
    <3>1. Older(r, s) \/ Older(s, r)
      BY DEF QueueInv, Ordered, Older, TypeOK, Called
    <3>2. ~Older(s, r)
      BY <2>2, QueueAssumption DEF QueueInv, Served, Released, Called
    <3> QED
      BY <3>1, <3>2
  <2> QED
    BY <2>1, <2>2
<1> QED
  BY <1>1, QueueInvariant, PTL

\* Eviction never splits two waiters of a key across two mutexes.
THEOREM WaitersStayTogether == Spec => []NoSplit
<1>1. QueueInv => NoSplit
  BY DEF QueueInv
<1> QED
  BY <1>1, QueueInvariant, PTL

\* A step of a run asks for, takes or leaves the mutex of its own key.
LEMMA TurnStep ==
  ASSUME QueueInv, OneRunPerKey', NEW k \in Keys, NEW r \in Runs,
         (\E c \in Keys : Call(r, c)) \/ Start(r) \/ Settle(r) \/ Evict(r)
  PROVE  [Turn(k)!AbsNext]_(TurnsOf(k))
<1>0. TypeOK
  BY DEF QueueInv
<1> USE DEF TurnsOf, Goto, Turn!AbsVars
<1> DEFINE T == TurnsOf(k)
<1>1. CASE UNCHANGED <<key, pc>>
  BY <1>1
<1>2. ASSUME NEW c \in Keys, Call(r, c) PROVE T' = T \/ Turn(k)!Ask(r)
  BY <1>0, <1>2 DEF Call, Turn!Ask, TypeOK, Called
<1>3. CASE Start(r)
  <2>1. CASE key[r] # k
    BY <1>0, <1>3, <2>1 DEF Start, TypeOK
  <2>2. CASE key[r] = k
    <3>1. \A s \in Runs : T[s] # "in"
      BY <1>0, <1>3, <2>2 DEF Start, TypeOK, OneRunPerKey, Stages
    <3>2. T[r] = "waiting" /\ T' = [T EXCEPT ![r] = "in"]
      BY <1>0, <1>3, <2>2 DEF Start, TypeOK
    <3> QED
      BY <3>1, <3>2 DEF Turn!AbsNext, Turn!Enter
  <2> QED
    BY <2>1, <2>2
<1>4. CASE Settle(r)
  BY <1>0, <1>4 DEF Settle, TypeOK, Turn!AbsNext, Turn!Exit
<1>5. CASE Evict(r)
  BY <1>0, <1>5 DEF Evict, TypeOK
<1> QED
  BY <1>2, <1>3, <1>4, <1>5 DEF Turn!AbsNext

\* The queue is one StoreMutex for each key: its calls enter one at a time, and
\* only after they have asked.
THEOREM QueueImplementsMutexes ==
  ASSUME NEW k \in Keys
  PROVE  Spec => Turn(k)!AbsSpec
<1>1. Init => Turn(k)!AbsInit
  BY DEF Init, Turn!AbsInit, TurnsOf
<1>2. QueueInv /\ OneRunPerKey' /\ [Next]_vars => [Turn(k)!AbsNext]_(Turn(k)!AbsVars)
  <2> SUFFICES ASSUME QueueInv, OneRunPerKey', [Next]_vars
               PROVE  [Turn(k)!AbsNext]_(TurnsOf(k))
    BY DEF Turn!AbsVars
  <2>1. CASE UNCHANGED vars
    BY <2>1 DEF vars, TurnsOf
  <2>2. CASE Next
    BY <2>2, TurnStep DEF Next
  <2> QED
    BY <2>1, <2>2
<1> QED
  BY <1>1, <1>2, QueueInvariant, RunsAlone, PTL DEF Spec, Turn!AbsSpec

=============================================================================
