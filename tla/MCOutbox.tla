------------------------------ MODULE MCOutbox ------------------------------
(***************************************************************************)
(* Instances of Outbox for TLC.                                            *)
(***************************************************************************)
EXTENDS Outbox, TLC

CONSTANTS t1, t2, s1, s2

OneTarget == {t1}
TwoTargets == {t1, t2}
OwnServers == [t \in TwoTargets |-> IF t = t1 THEN s1 ELSE s2]
OneServer == [t \in Targets |-> s1]
Symmetric == Permutations(Writers)
=============================================================================
