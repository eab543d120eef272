----------------------------- MODULE RemoteCache -----------------------------
(***************************************************************************)
(* The in-memory view a process keeps of a remote store (remote-store.ts): *)
(* filled by a paged load that callers share, amended by its own writes,   *)
(* and asked by the ambiguity guards whether an id is there                *)
(* (_remoteCacheAnswer, index.ts).  All stores of a host share a breaker:  *)
(* a network failure marks the host down and loads skip it for a while.    *)
(*                                                                         *)
(* A request reaches the server in one step and its answer is handled in a *)
(* later one, so that other requests' answers may come in between.  Rows   *)
(* are ids, listed by the server in the order they were created.           *)
(***************************************************************************)
EXTENDS Naturals, FiniteSets

CONSTANTS
  Stores,       \* the drivers of this process, all of one host
  Ids,          \* bound: 1..n, the ids the server may give
  PageSize, MaxPages,
  TTL, Cooldown,
  MaxTime,      \* bound: ticks of the clock
  MaxTrouble,   \* bound: outages and 5xx answers
  Nothing

ASSUME RemoteAssumption ==
  /\ Ids \subseteq Nat /\ PageSize \in Nat \ {0} /\ MaxPages \in Nat \ {0}
  /\ TTL \in Nat \ {0} /\ Cooldown \in Nat \ {0} /\ MaxTime \in Nat /\ MaxTrouble \in Nat

VARIABLES
  live,      \* per store: the rows on the server
  minted,    \* ids the server has given
  granted,   \* per store: may this token read the scope?
  hostUp,
  now,
  cached,    \* per store: [ts, ids], or Nothing
  loading,   \* per store: the load in flight, or Nothing
  request,   \* a write of this process the server has applied, its answer on its way
  markedAt,  \* downHosts: when the host was marked down, or Nothing
  basis,     \* history, per store: what the cache may be held to
  confirmed, \* history, per store: own ids answered while no load was in flight
  retired,   \* history, per store: the same of own removals
  trouble

server == <<live, minted, granted, hostUp>>
remoteVars == <<live, minted, granted, hostUp, now, cached, loading, request, markedAt,
                basis, confirmed, retired, trouble>>

\* Nothing excuses a cache that no load has filled.
NoExcuse == [known |-> Ids, steady |-> TRUE]

RemoteInit ==
  /\ live = [s \in Stores |-> {}] /\ minted = {}
  /\ granted = [s \in Stores |-> TRUE] /\ hostUp = TRUE
  /\ now = TTL
  /\ cached = [s \in Stores |-> Nothing] /\ loading = [s \in Stores |-> Nothing]
  /\ request = Nothing /\ markedAt = Nothing
  /\ basis = [s \in Stores |-> NoExcuse]
  /\ confirmed = [s \in Stores |-> {}] /\ retired = [s \in Stores |-> {}]
  /\ trouble = 0

Fresh(s) == cached[s] # Nothing /\ now - cached[s].ts < TTL
Marked == markedAt # Nothing /\ now - markedAt < Cooldown

\* clearRemoteHostDown: the host has answered, whatever the status.
HostAnswers == markedAt' = Nothing

\* The i-th live row is on the page of its offset.
Position(s, id) == Cardinality({r \in live[s] : r < id})
PageAt(s, offset) == {id \in live[s] : Position(s, id) \in offset..(offset + PageSize - 1)}

----------------------------------------------------------------------------
(* load *)

\* A fresh cache answers, and a load in flight is shared.
StartLoad(s) ==
  /\ ~Fresh(s) /\ loading[s] = Nothing
  /\ loading' = [loading EXCEPT ![s] =
       [at |-> "next", pages |-> 0, all |-> {}, known |-> live[s], steady |-> granted[s]]]
  /\ UNCHANGED <<server, now, cached, request, markedAt, basis, confirmed, retired, trouble>>

AtPage(s, at) == loading[s] # Nothing /\ loading[s].at = at
LoadGoto(s, at) == loading' = [loading EXCEPT ![s].at = at]

SendPage(s) ==
  /\ AtPage(s, "next")
  /\ LoadGoto(s, IF Marked \/ loading[s].pages = MaxPages THEN "broken" ELSE "sent")
  /\ UNCHANGED <<server, now, cached, request, markedAt, basis, confirmed, retired, trouble>>

\* A page arrives: the last one when it is short, or when the rows come to its total.
ReceivePage(s) ==
  /\ AtPage(s, "sent") /\ hostUp /\ granted[s]
  /\ HostAnswers
  /\ LET page == PageAt(s, loading[s].pages * PageSize)
         all == loading[s].all \cup page
         last == Cardinality(all) >= Cardinality(live[s]) \/ Cardinality(page) < PageSize
     IN loading' = [loading EXCEPT ![s].all = all, ![s].pages = @ + 1,
                                   ![s].at = IF last THEN "complete" ELSE "next"]
  /\ UNCHANGED <<server, now, cached, request, basis, confirmed, retired, trouble>>

\* 403 and 404 are stable answers: what was read so far is all there is.
ReceiveDenial(s) ==
  /\ AtPage(s, "sent") /\ hostUp /\ ~granted[s]
  /\ HostAnswers /\ LoadGoto(s, "complete")
  /\ UNCHANGED <<server, now, cached, request, basis, confirmed, retired, trouble>>

\* A 5xx, or a body that cannot be read.
ReceiveTrouble(s) ==
  /\ AtPage(s, "sent") /\ hostUp /\ trouble < MaxTrouble
  /\ trouble' = trouble + 1
  /\ HostAnswers /\ LoadGoto(s, "broken")
  /\ UNCHANGED <<server, now, cached, request, basis, confirmed, retired>>

\* markRemoteHostDown.
PageTimesOut(s) ==
  /\ AtPage(s, "sent") /\ ~hostUp
  /\ markedAt' = now
  /\ LoadGoto(s, "broken")
  /\ UNCHANGED <<server, now, cached, request, basis, confirmed, retired, trouble>>

\* Mutant: whatever was read becomes the cache.
EndPartial(s) ==
  /\ loading[s] # Nothing /\ loading[s].at \in {"complete", "broken"}
  /\ cached' = [cached EXCEPT ![s] = [ts |-> now, ids |-> loading[s].all]]
  /\ basis' = [basis EXCEPT ![s] = [known |-> loading[s].known, steady |-> loading[s].steady]]
  /\ loading' = [loading EXCEPT ![s] = Nothing]
  /\ UNCHANGED <<server, now, request, markedAt, confirmed, retired, trouble>>

\* Only a complete listing replaces the cache.
EndLoad(s) ==
  /\ loading[s] # Nothing /\ loading[s].at \in {"complete", "broken"}
  /\ IF loading[s].at = "complete"
       THEN /\ cached' = [cached EXCEPT ![s] = [ts |-> now, ids |-> loading[s].all]]
            /\ basis' = [basis EXCEPT ![s] = [known |-> loading[s].known,
                                              steady |-> loading[s].steady]]
       ELSE UNCHANGED <<cached, basis>>
  /\ loading' = [loading EXCEPT ![s] = Nothing]
  /\ UNCHANGED <<server, now, request, markedAt, confirmed, retired, trouble>>

----------------------------------------------------------------------------
(* The writes of this process: fetchBounded asks no breaker *)

\* A listing read while rows go is not a view of any one moment.
Unsteady(s) == loading' = IF loading[s] = Nothing THEN loading
                          ELSE [loading EXCEPT ![s].steady = FALSE]

NextId == CHOOSE id \in Ids \ minted : \A o \in Ids \ minted : id <= o

Insert(s) ==
  /\ Ids # minted
  /\ live' = [live EXCEPT ![s] = @ \cup {NextId}]
  /\ minted' = minted \cup {NextId}
Delete(s, id) ==
  /\ id \in live[s]
  /\ live' = [live EXCEPT ![s] = @ \ {id}]
  /\ Unsteady(s)

SendAppend(s) ==
  /\ request = Nothing /\ hostUp
  /\ Insert(s)
  /\ request' = [kind |-> "append", store |-> s, id |-> NextId]
  /\ UNCHANGED <<granted, hostUp, now, cached, loading, markedAt, basis, confirmed, retired, trouble>>

\* remove and removeIdempotent; feedback and patch drop the cache the same way.
SendRemove(s, id) ==
  /\ request = Nothing /\ hostUp
  /\ Delete(s, id)
  /\ request' = [kind |-> "remove", store |-> s, id |-> id]
  /\ UNCHANGED <<minted, granted, hostUp, now, cached, markedAt, basis, confirmed, retired, trouble>>

Noted(history, s) ==
  IF loading[s] = Nothing THEN [history EXCEPT ![s] = @ \cup {request.id}] ELSE history

\* The row joins the cache, or starts one that no TTL makes fresh.
AppendAnswered ==
  /\ request # Nothing /\ request.kind = "append"
  /\ HostAnswers
  /\ LET s == request.store
     IN /\ cached' = [cached EXCEPT ![s] =
             IF @ = Nothing THEN [ts |-> 0, ids |-> {request.id}]
             ELSE [ts |-> @.ts, ids |-> @.ids \cup {request.id}]]
        /\ confirmed' = Noted(confirmed, s)
  /\ request' = Nothing
  /\ UNCHANGED <<server, now, loading, basis, retired, trouble>>

\* Held for review, the row is no memory yet: the cache is dropped.
AppendHeld ==
  /\ request # Nothing /\ request.kind = "append"
  /\ HostAnswers
  /\ cached' = [cached EXCEPT ![request.store] = Nothing]
  /\ basis' = [basis EXCEPT ![request.store] = NoExcuse]
  /\ request' = Nothing
  /\ UNCHANGED <<server, now, loading, confirmed, retired, trouble>>

\* Mutant: the cache keeps the removed row.
RemoveKeeps ==
  /\ request # Nothing /\ request.kind = "remove"
  /\ HostAnswers
  /\ retired' = Noted(retired, request.store)
  /\ request' = Nothing
  /\ UNCHANGED <<server, now, cached, basis, loading, confirmed, trouble>>

RemoveAnswered ==
  /\ request # Nothing /\ request.kind = "remove"
  /\ HostAnswers
  /\ cached' = [cached EXCEPT ![request.store] = Nothing]
  /\ basis' = [basis EXCEPT ![request.store] = NoExcuse]
  /\ retired' = Noted(retired, request.store)
  /\ request' = Nothing
  /\ UNCHANGED <<server, now, loading, confirmed, trouble>>

\* The answer is lost with the host: the caller throws, and the row is on the server.
AnswerLost ==
  /\ request # Nothing /\ ~hostUp
  /\ markedAt' = now
  /\ request' = Nothing
  /\ UNCHANGED <<server, now, cached, loading, basis, confirmed, retired, trouble>>

----------------------------------------------------------------------------
(* Everybody else, and time *)

OthersAppend(s) ==
  /\ Insert(s)
  /\ UNCHANGED <<granted, hostUp, now, cached, loading, request, markedAt, basis, confirmed,
                 retired, trouble>>

OthersRemove(s, id) ==
  /\ Delete(s, id)
  /\ UNCHANGED <<minted, granted, hostUp, now, cached, request, markedAt, basis, confirmed,
                 retired, trouble>>

\* Another driver of the host, or another endpoint, is asked.
SiblingAsks ==
  /\ IF hostUp THEN HostAnswers ELSE markedAt' = now
  /\ UNCHANGED <<server, now, cached, loading, request, basis, confirmed, retired, trouble>>

ChangeGrant(s) ==
  /\ trouble < MaxTrouble
  /\ trouble' = trouble + 1
  /\ granted' = [granted EXCEPT ![s] = ~@]
  /\ Unsteady(s)
  /\ UNCHANGED <<live, minted, hostUp, now, cached, request, markedAt, basis, confirmed,
                 retired>>

HostFails ==
  /\ hostUp /\ trouble < MaxTrouble
  /\ trouble' = trouble + 1
  /\ hostUp' = FALSE
  /\ UNCHANGED <<live, minted, granted, now, cached, loading, request, markedAt, basis,
                 confirmed, retired>>

HostRecovers ==
  /\ ~hostUp /\ hostUp' = TRUE
  /\ UNCHANGED <<live, minted, granted, now, cached, loading, request, markedAt, basis,
                 confirmed, retired, trouble>>

\* remoteHostDownRemainingMs forgets a mark whose cooldown is over.
Pass ==
  /\ now < MaxTime
  /\ now' = now + 1
  /\ IF markedAt # Nothing /\ now' - markedAt >= Cooldown THEN HostAnswers
     ELSE UNCHANGED markedAt
  /\ UNCHANGED <<server, cached, loading, request, basis, confirmed, retired, trouble>>

RemoteNext ==
  \/ \E s \in Stores :
       \/ StartLoad(s) \/ SendPage(s) \/ ReceivePage(s) \/ ReceiveDenial(s)
       \/ ReceiveTrouble(s) \/ PageTimesOut(s) \/ EndLoad(s)
       \/ SendAppend(s) \/ (\E id \in Ids : SendRemove(s, id))
       \/ OthersAppend(s) \/ (\E id \in Ids : OthersRemove(s, id)) \/ ChangeGrant(s)
  \/ AppendAnswered \/ AppendHeld \/ RemoveAnswered \/ AnswerLost
  \/ SiblingAsks \/ HostFails \/ HostRecovers \/ Pass

RemoteSpec == RemoteInit /\ [][RemoteNext]_remoteVars

----------------------------------------------------------------------------
(* Properties *)

\* _remoteCacheAnswer.
CacheAnswer(s, id) ==
  IF cached[s] = Nothing \/ cached[s].ids = {} THEN "unknown"
  ELSE IF id \in cached[s].ids THEN "present"
  ELSE IF cached[s].ts > 0 /\ Fresh(s) THEN "absent"
  ELSE "unknown"

\* The guards may trust "absent": of a row that is on the server it is only said when
\* the row came after the load began, or rows went while it ran; and never of a row
\* this process pushed, unless a load was in flight when the answer came
\* (_remoteCacheAnswer's peek_absent_sound; forget and feedback act on it).
AbsentIsSound ==
  \A s \in Stores : \A id \in live[s] :
    CacheAnswer(s, id) = "absent" /\ basis[s].steady =>
      id \notin basis[s].known \cup confirmed[s]

\* A row this process removed is not read from its cache again, unless a load was in
\* flight when the answer came (remove, removeIdempotent).
RemovedStaysGone ==
  \A s \in Stores : \A id \in retired[s] : CacheAnswer(s, id) # "present"

=============================================================================
