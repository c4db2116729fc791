------------------------------ MODULE MCSched ------------------------------
(***************************************************************************)
(* Instances of Sched for TLC.                                             *)
(***************************************************************************)
EXTENDS Sched, TLC

(* Processors are interchangeable. *)
Symmetry == Permutations(CPU)

=============================================================================
