---------------------------- MODULE SessionScopes ----------------------------
(***************************************************************************)
(* One MCP server that serves several sessions: the default scope of each  *)
(* (session-scopes.ts, and the handlers of mcp/src/tools.ts), and where a  *)
(* write that names no scope lands.  The handlers await the network and    *)
(* the client between reading one piece of this state and the next, and    *)
(* other sessions' calls run in between.  Each action is the stretch of a  *)
(* handler between two awaits.                                             *)
(***************************************************************************)
EXTENDS FiniteSets

CONSTANTS
  Sessions,     \* the ids the server will give, each started once
  Writes,       \* calls that write without a scope
  Scopes,
  Choices,      \* the scopes that callers name
  Workspaces,   \* what the client may answer: its roots and the resolver's answer for them
  ScopeAt,      \* the scope the roots of a workspace agree on, or NoScope
  Split,        \* the workspaces whose roots disagree
  NoScope, NoSession, Unregistered

ASSUME SessionAssumption ==
  /\ ScopeAt \in [Workspaces -> Scopes \cup {NoScope}]
  /\ Split \subseteq Workspaces /\ Choices \subseteq Scopes
  /\ NoScope \notin Scopes /\ NoSession \notin Sessions \cup Scopes
  /\ Sessions \cap Scopes = {}

VARIABLES
  workspace,   \* the client's answer now
  records,     \* _sessionTelemetry: per session a record, or NoSession
  starting,    \* per session: where plur_session_start stands
  registered,  \* SessionScopeRegistry.scopes, per session
  slot,        \* its process default
  expired,     \* sessions past their eight hours
  evictions,   \* _pendingScopeEvictions
  writing,     \* per write: where it stands, and the key it passes to core
  landed,      \* per write: the scope core gave it
  allowed      \* history, per write: scopes that were its own at some moment of the call

sessionVars == <<workspace, records, starting, registered, slot, expired, evictions,
                 writing, landed, allowed>>

NewRecord == [start |-> NoScope, adjusted |-> FALSE, at |-> NoSession]

SessionInit ==
  /\ workspace \in Workspaces
  /\ records = [s \in Sessions |-> NoSession]
  /\ starting = [s \in Sessions |-> "no"]
  /\ registered = [s \in Sessions |-> Unregistered]
  /\ slot = NoScope
  /\ expired = {} /\ evictions = {}
  /\ writing = [w \in Writes |-> [at |-> "no", session |-> NoSession, key |-> NoSession]]
  /\ landed = [w \in Writes |-> Unregistered]
  /\ allowed = [w \in Writes |-> {}]

OpenSessions == {s \in Sessions : records[s] # NoSession}

\* The scope a call of session s may take now: what its user set, the default it
\* started with while the workspace is the same, or the workspace's own.
OwnScopes(s) ==
  {ScopeAt[workspace]} \cup
  (IF s # NoSession /\ records[s] # NoSession /\ registered[s] # Unregistered
      /\ (records[s].adjusted \/ records[s].at = workspace)
   THEN {registered[s]} ELSE {})

InFlight(w) == writing[w].at \notin {"no", "done"}
\* Every step of anybody is a moment of the calls in flight; what the session's user
\* has put there meanwhile is its own too.
WatchPut(put) ==
  allowed' = [w \in Writes |->
    IF InFlight(w)'
      THEN allowed[w] \cup OwnScopes(writing[w].session)'
                     \cup {registered'[s] : s \in put \cap {writing[w].session}}
      ELSE allowed[w]]
Watch == WatchPut({})

calls == <<writing, landed>>

----------------------------------------------------------------------------
(* plur_session_start *)

\* _cleanExpiredSessions(plur), and the record of the new session.
BeginStart(s) ==
  /\ starting[s] = "no"
  /\ starting' = [starting EXCEPT ![s] = "begun"]
  /\ records' = [t \in Sessions |-> IF t = s THEN NewRecord
                                    ELSE IF t \in expired THEN NoSession ELSE records[t]]
  /\ registered' = [t \in Sessions |->
       IF t \in evictions \cup (expired \cap OpenSessions) THEN Unregistered ELSE registered[t]]
  /\ evictions' = {}
  /\ UNCHANGED <<workspace, slot, expired, calls>>
  /\ Watch

\* Mutant: the process default is set too.
FinishSetsSlot(s, c, known) ==
  /\ starting[s] = "begun"
  /\ starting' = [starting EXCEPT ![s] = "done"]
  /\ LET default == IF c # NoScope THEN c ELSE IF known THEN ScopeAt[workspace] ELSE NoScope
     IN /\ registered' = [registered EXCEPT ![s] = default]
        /\ slot' = default
        /\ records' = IF records[s] = NoSession THEN records
             ELSE [records EXCEPT ![s].start = default,
                                  ![s].at = IF known THEN workspace ELSE NoSession]
  /\ UNCHANGED <<workspace, expired, evictions, calls>>
  /\ WatchPut({s})

\* After the outbox flush and the client's roots: the caller's default, or the
\* workspace's, or none when the workspace could not be read.
FinishStart(s, c, known) ==
  /\ starting[s] = "begun"
  /\ starting' = [starting EXCEPT ![s] = "done"]
  /\ LET default == IF c # NoScope THEN c ELSE IF known THEN ScopeAt[workspace] ELSE NoScope
     IN /\ registered' = [registered EXCEPT ![s] = default]
        /\ records' = IF records[s] = NoSession THEN records
             ELSE [records EXCEPT ![s].start = default,
                                  ![s].at = IF known THEN workspace ELSE NoSession]
  /\ UNCHANGED <<workspace, slot, expired, evictions, calls>>
  /\ WatchPut({s})

----------------------------------------------------------------------------
(* The other calls of a session.  One without an id goes to the lone open  *)
(* session, after a sweep that cannot reach the registry.                  *)

Sweep == /\ records' = [s \in Sessions |-> IF s \in expired THEN NoSession ELSE records[s]]
         /\ evictions' = evictions \cup (expired \cap OpenSessions)

Lone == IF \E s \in OpenSessions \ expired : OpenSessions \ expired = {s}
        THEN CHOOSE s \in OpenSessions \ expired : TRUE ELSE NoSession

\* plur_session_scope op:"set", with an id the server may no longer know.
SetScope(s, c) ==
  /\ starting[s] # "no"
  /\ registered' = [registered EXCEPT ![s] = c]
  /\ records' = IF records[s] = NoSession THEN records ELSE [records EXCEPT ![s].adjusted = TRUE]
  /\ UNCHANGED <<workspace, starting, slot, expired, evictions, calls>>
  /\ WatchPut({s})

\* op:"clear": back to the start default, or to no scope.
ClearScope(s) ==
  /\ starting[s] # "no"
  /\ registered' = [registered EXCEPT ![s] =
       IF records[s] = NoSession THEN NoScope ELSE records[s].start]
  /\ records' = IF records[s] = NoSession THEN records ELSE [records EXCEPT ![s].adjusted = FALSE]
  /\ UNCHANGED <<workspace, starting, slot, expired, evictions, calls>>
  /\ WatchPut({s})

\* plur_session_end, after its suggestions have been written.
EndSession(s) ==
  /\ starting[s] # "no"
  /\ records' = [records EXCEPT ![s] = NoSession]
  /\ registered' = [registered EXCEPT ![s] = Unregistered]
  /\ UNCHANGED <<workspace, starting, slot, expired, evictions, calls>>
  /\ Watch

----------------------------------------------------------------------------
(* A write: plur_learn, and each suggestion of plur_session_end *)

Admit(w, session) ==
  /\ writing[w].at = "no"
  /\ writing' = [writing EXCEPT ![w] = [at |-> "admitted", session |-> session, key |-> NoSession]]

\* _writeSession, up to the request for the roots: an unknown id is no session.
AdmitNamed(w, s) ==
  /\ starting[s] # "no"
  /\ Admit(w, IF s \in OpenSessions THEN s ELSE NoSession)
  /\ UNCHANGED <<workspace, records, starting, registered, slot, expired, evictions, landed>>
  /\ Watch

AdmitNameless(w) ==
  /\ Sweep
  /\ Admit(w, Lone)
  /\ UNCHANGED <<workspace, starting, registered, slot, expired, landed>>
  /\ Watch

AtWrite(w, at) == writing[w].at = at

\* Roots that disagree refuse the write.
RefuseSplit(w) ==
  /\ AtWrite(w, "admitted") /\ workspace \in Split
  /\ writing' = [writing EXCEPT ![w].at = "done"]
  /\ UNCHANGED <<workspace, records, starting, registered, slot, expired, evictions, landed>>
  /\ Watch

\* SessionScopeRegistry.get.
Get(s) == IF s \in Sessions /\ registered[s] # Unregistered THEN registered[s] ELSE slot

\* The session's own choice decides, or its start default in the same workspace.
Holds(s, known) ==
  /\ s # NoSession /\ records[s] # NoSession
  /\ \/ records[s].adjusted
     \/ Get(s) # NoScope /\ known /\ records[s].at = workspace

\* The rest of _writeSession: the key is the session, or the workspace's scope
\* (registered under a key of its own, which only ever holds it), or none.
Choose(w, known) ==
  /\ AtWrite(w, "admitted") /\ (known => workspace \notin Split)
  /\ LET s == writing[w].session
     IN writing' = [writing EXCEPT ![w].at = "chosen",
          ![w].key = IF Holds(s, known) THEN s
                     ELSE IF known /\ ScopeAt[workspace] # NoScope THEN ScopeAt[workspace]
                     ELSE NoSession]
  /\ UNCHANGED <<workspace, records, starting, registered, slot, expired, evictions, landed>>
  /\ Watch

\* _guardSensitiveScope reads the registry when core gets there.
Land(w) ==
  /\ AtWrite(w, "chosen")
  /\ writing' = [writing EXCEPT ![w].at = "done"]
  /\ LET k == writing[w].key
     IN landed' = [landed EXCEPT ![w] =
          IF k \in Scopes THEN k ELSE IF k = NoSession THEN NoScope ELSE Get(k)]
  /\ UNCHANGED <<workspace, records, starting, registered, slot, expired, evictions>>
  /\ Watch

----------------------------------------------------------------------------

ChangeWorkspace ==
  /\ workspace' \in Workspaces \ {workspace}
  /\ UNCHANGED <<records, starting, registered, slot, expired, evictions, calls>>
  /\ Watch

Age(s) ==
  /\ starting[s] # "no" /\ s \notin expired
  /\ expired' = expired \cup {s}
  /\ UNCHANGED <<workspace, records, starting, registered, slot, evictions, calls>>
  /\ Watch

SessionNext ==
  \/ \E s \in Sessions :
       \/ BeginStart(s)
       \/ \E c \in Choices \cup {NoScope}, known \in BOOLEAN : FinishStart(s, c, known)
       \/ \E c \in Choices : SetScope(s, c)
       \/ ClearScope(s) \/ EndSession(s) \/ Age(s)
  \/ \E w \in Writes :
       \/ \E s \in Sessions : AdmitNamed(w, s)
       \/ AdmitNameless(w) \/ RefuseSplit(w)
       \/ \E known \in BOOLEAN : Choose(w, known)
       \/ Land(w)
  \/ ChangeWorkspace

SessionSpec == SessionInit /\ [][SessionNext]_sessionVars

----------------------------------------------------------------------------
(* Properties *)

\* A write without a scope lands in one that was its own session's, or its own
\* workspace's, at some moment of the call, or in none: never in the scope another
\* session set or started with, whatever started, ended, expired or moved while it
\* waited (_writeSession and _guardSensitiveScope; formal Adapters 2c).
LandsAtHome ==
  \A w \in Writes : landed[w] \in allowed[w] \cup {NoScope, Unregistered}

=============================================================================
