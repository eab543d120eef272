-------------------------- MODULE MCOutboxServers --------------------------
(***************************************************************************)
(* Outbox with two stores on two servers, for a save from a remote-only    *)
(* folder (RemoteOnly is TRUE) and from any other.  The two behave alike   *)
(* until somebody tightens a policy or the user does something to the row, *)
(* which happens once (MaxOps): in the other folder, the row moves.        *)
(***************************************************************************)
EXTENDS MCOutbox

OtherFolder == INSTANCE Outbox WITH RemoteOnly <- FALSE

ServersNext == Next \/ \E t \in Targets : OtherFolder!Update(t)

ServersSpec == Init /\ [][ServersNext]_vars
=============================================================================
