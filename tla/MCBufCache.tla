---------------------------- MODULE MCBufCache -----------------------------
(***************************************************************************)
(* Instances of BufCache for TLC.                                          *)
(***************************************************************************)
EXTENDS BufCache, TLC

CONSTANTS v1, v2

(* Two of any three blocks differ at first. *)
MCImage == [k \in Block |-> IF k \in {1, 4} THEN v1 ELSE v2]

(* The callers' lock order: a block of the log before the block it is for. *)
MCNests == {<<1, 2>>}

Symmetry == Permutations(Proc) \cup Permutations(Buf)

=============================================================================
