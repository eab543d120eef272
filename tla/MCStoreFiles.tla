---------------------------- MODULE MCStoreFiles ----------------------------
(***************************************************************************)
(* The files of a store: the folder of one machine, the repository by      *)
(* which several machines share one, and its packs.  No operation writes   *)
(* the files of two of them, so a behaviour moves one of the three.        *)
(***************************************************************************)
EXTENDS StoreFolder, GitSync, PackRegistry, TLC

CONSTANTS p1, laptop, desktop, m1, m2, m3, one, two

VARIABLE part           \* the component that moves

OneADay == [d \in Days |-> d]
TwoDays == 1..2
CalledAlike == [n \in Names |-> <<n>>]

\* Where packs do not move there are none.
FilesInit ==
  /\ part \in {"folder", "git", "packs"}
  /\ FolderInit /\ GitInit /\ PackInit
  /\ part # "packs" => Fresh

FilesNext ==
  /\ UNCHANGED part
  /\ \/ part = "folder" /\ FolderNext /\ UNCHANGED <<gitVars, packVars>>
     \/ part = "git" /\ GitNext /\ UNCHANGED <<folderVars, packVars>>
     \/ part = "packs" /\ PackNext /\ UNCHANGED <<folderVars, gitVars>>

FilesSpec == FilesInit /\ [][FilesNext]_<<part, folderVars, gitVars, packVars>>

\* Devices install, and engrams are the names of packs: what is shared is permuted once.
Symmetric == Permutations(Engrams) \cup Permutations(Devices) \cup Permutations(Vers)
=============================================================================
