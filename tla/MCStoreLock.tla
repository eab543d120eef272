---------------------------- MODULE MCStoreLock ----------------------------
(* Instances of StoreLock for TLC. *)
EXTENDS StoreLock, TLC

CONSTANTS p1, p2, p3, p4, i1, i2, i3, i4, i5, i6

ThreeProcs == {p1, p2, p3}
FourProcs  == {p1, p2, p3, p4}
SixInos    == {i1, i2, i3, i4, i5, i6}

\* Everybody on one machine, and p1 alone on another one.
OneHost  == [p \in Procs |-> "laptop"]
TwoHosts == [p \in Procs |-> IF p = p1 THEN "desktop" ELSE "laptop"]

NoStall      == {}
HolderStalls  == {"holder"}
StealerStalls == {"stealer"}
CreatorStalls == {"creator"}
AllStall      == Roles

\* Inode numbers are never compared with anything but each other.  Processes
\* are interchangeable on one host, and all but p1 on two.
OneHostSymmetry == Permutations(Procs)
TwoHostSymmetry == Permutations(Procs \ {p1})
============================================================================
