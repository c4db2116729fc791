------------------------------- MODULE MCLog -------------------------------
(***************************************************************************)
(* Instances of Log for TLC.                                               *)
(***************************************************************************)
EXTENDS Log, TLC

(* Processes are interchangeable; so are the blocks outside the log header *)
(* and the inode area, and no definition chooses between two of them (the  *)
(* CHOOSE of Recovered has one candidate).                                 *)
ProcSymmetry == Permutations(Proc)
FullSymmetry == ProcSymmetry \cup Permutations(Block \ {InodeBlock})

=============================================================================
