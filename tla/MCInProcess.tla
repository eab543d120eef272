----------------------------- MODULE MCInProcess -----------------------------
(***************************************************************************)
(* What the calls of one server share beside the lock: the snapshot of the *)
(* store, the view of a remote store, the sessions' scopes, and the rows a *)
(* duplicate check or a review looks at.  The four are independent, and    *)
(* only their own interleavings matter: in each behaviour one of them      *)
(* moves, and the others stay as they began.                               *)
(***************************************************************************)
EXTENDS StoreCache, RemoteCache, SessionScopes, Learning, TLC

CONSTANTS home, away    \* workspaces
CONSTANTS shop, desk    \* scopes

VARIABLE part           \* the component that moves

ScopeOfHome == (home :> shop) @@ (away :> NoScope)

InProcessInit ==
  /\ part \in {"cache", "remote", "sessions", "learning"}
  /\ CacheInit /\ RemoteInit
  /\ SessionInit /\ (part # "sessions" => workspace = home)
  /\ LearningInit /\ (part # "learning" => rows[1].commitment = "locked")

InProcessNext ==
  /\ UNCHANGED part
  /\ \/ part = "cache" /\ CacheNext /\ UNCHANGED <<remoteVars, sessionVars, learningVars>>
     \/ part = "remote" /\ RemoteNext /\ UNCHANGED <<cacheVars, sessionVars, learningVars>>
     \/ part = "sessions" /\ SessionNext /\ UNCHANGED <<cacheVars, remoteVars, learningVars>>
     \/ part = "learning" /\ LearningNext /\ UNCHANGED <<cacheVars, remoteVars, sessionVars>>

InProcessSpec ==
  InProcessInit /\ [][InProcessNext]_<<part, cacheVars, remoteVars, sessionVars, learningVars>>

Symmetric == Permutations(Savers) \cup Permutations(Deciders)
=============================================================================
